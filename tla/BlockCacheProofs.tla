---------------------------- MODULE BlockCacheProofs ----------------------------
(***************************************************************************)
(* For any threads, blocks, chains, hash and faults: a block has one slot, *)
(* fetch returns what was last put, and a clean slot is on the disk unless *)
(* its own last write-back hit a fault.                                    *)
(***************************************************************************)
EXTENDS BlockCache, WellFoundedInduction, TLAPS

Slot == [id : Keys, payload : Data, modified : BOOLEAN]

Types ==
    /\ items \in [Chains -> Seq(Slot)]
    /\ lk \in [Chains -> BOOLEAN]
    /\ blocks \in [Keys -> Data]
    /\ errs \in Nat
    /\ pc \in [Threads -> {"idle", "enter", "lock", "fetch", "read", "read_err", "insert",
                           "put", "sync", "sync_err", "invalidate", "evict_cold"}]
    /\ op \in [Threads -> Ops \cup {None}]
    /\ key \in [Threads -> Keys \cup {NoKey}]
    /\ ci \in [Threads -> Chains]
    /\ val \in [Threads -> Data]
    /\ latest \in [Keys -> Data]

\* The label of a thread agrees with its call, and a fetch or put works on the
\* chain its block hashes to.
Home(k) == Mix(k) % Width

CallAt(t) ==
    /\ pc[t] \in {"enter", "lock"} => op[t] \in Ops
    /\ pc[t] \in {"fetch", "read", "read_err", "insert"} => op[t] = "fetch"
    /\ pc[t] \in {"put", "sync", "invalidate", "evict_cold"} => op[t] = pc[t]
    /\ pc[t] = "sync_err" => op[t] = "sync"
    /\ op[t] \in {"fetch", "put"} => key[t] \in Keys /\ ci[t] = Home(key[t])

CallInv == \A t \in Threads : CallAt(t)

\* A thread past the spin lock has its chain to itself.
Working(t) == pc[t] \notin {"idle", "enter", "lock"}

LockInv ==
    /\ \A t \in Threads : Working(t) => lk[ci[t]]
    /\ \A t, u \in Threads : Working(t) /\ Working(u) /\ ci[t] = ci[u] => t = u

\* Slots are in the chain their block hashes to, one per block.
SlotInv ==
    /\ \A c \in Chains : \A i \in 1..Len(items[c]) : Home(items[c][i].id) = c
    /\ \A c \in Chains : \A i, j \in 1..Len(items[c]) : items[c][i].id = items[c][j].id => i = j

\* The cache holds slot s, and has one for block k.
Holds(s) == \E c \in Chains : \E i \in 1..Len(items[c]) : items[c][i] = s
Cached(k) == \E s \in Slot : Holds(s) /\ s.id = k

\* A slot holds what was last put in its block; without one the disk does.
LatestInv ==
    /\ \A s \in Slot : Holds(s) => s.payload = latest[s.id]
    /\ \A k \in Keys : ~Cached(k) => latest[k] = blocks[k]

\* A fetch that missed still misses, and what it has read is on the disk.
MissInv ==
    \A t \in Threads :
        /\ pc[t] \in {"read", "read_err", "insert"} => ~Cached(key[t])
        /\ pc[t] = "insert" => val[t] = blocks[key[t]]

\* The inductive invariant.
CacheInv ==
    /\ Types /\ CallInv /\ LockInv /\ SlotInv /\ LatestInv /\ MissInv
    /\ WrittenUnlessFault

--------------------------------------------------------------------------------
(* Lists.  tlapm has no induction over data; the least counterexample does  *)
(* its work.                                                                *)

LEMMA EmptyList == \A S : <<>> \in Seq(S)
  OBVIOUS

LEMMA LeastExists ==
    ASSUME NEW T \in SUBSET Nat, T # {}
    PROVE  \E n \in T : \A m \in T : n <= m
  <1>1. IsWellFoundedOn(OpToRel(<, Nat), Nat)
    BY NatLessThanWellFounded, Zenon
  <1>2. PICK n \in T : \A y \in T : ~(<<y, n>> \in OpToRel(<, Nat))
    BY <1>1, WFMin, Zenon
  <1>3. \A y \in T : ~(y < n)
    BY <1>2, Zenon DEF OpToRel
  <1> QED BY <1>3

\* F is the scan of Retained up to position n.
Scan(s, D, F, n) ==
    F = [i \in 0..n |-> IF i = 0 THEN <<>>
                        ELSE IF s[i] \in D THEN F[i - 1] ELSE Append(F[i - 1], s[i])]

LEMMA ScanExists ==
    ASSUME NEW S, NEW s \in Seq(S), NEW D
    PROVE  \E G : Scan(s, D, G, Len(s)) /\ Retained(s, D) = G[Len(s)]
  <1> DEFINE T == {n \in Nat : ~\E F : Scan(s, D, F, n)}
  <1>1. Len(s) \in Nat
    OBVIOUS
  <1>2. T = {}
    <2> SUFFICES ASSUME T # {} PROVE FALSE
      OBVIOUS
    <2>1. PICK n \in T : \A m \in T : n <= m
      BY LeastExists, Zenon
    <2>2. n # 0
      <3>1. Scan(s, D, [i \in 0..0 |-> <<>>], 0)
        BY DEF Scan
      <3> QED BY <3>1, <2>1
    <2>3. n - 1 \in Nat /\ n - 1 \notin T
      BY <2>1, <2>2
    <2>4. PICK F : Scan(s, D, F, n - 1)
      BY <2>3
    <2> DEFINE G == [i \in 0..n |-> IF i < n THEN F[i]
                                    ELSE IF s[n] \in D THEN F[n - 1] ELSE Append(F[n - 1], s[n])]
    <2>5. Scan(s, D, G, n)
      <3> SUFFICES ASSUME NEW i \in 0..n
                   PROVE  G[i] = IF i = 0 THEN <<>>
                                 ELSE IF s[i] \in D THEN G[i - 1] ELSE Append(G[i - 1], s[i])
        BY DEF Scan
      <3>1. n \in Nat /\ n >= 1
        BY <2>1, <2>2
      <3>2. \A j \in 0..(n - 1) : F[j] = IF j = 0 THEN <<>>
                                         ELSE IF s[j] \in D THEN F[j - 1] ELSE Append(F[j - 1], s[j])
        BY <2>4, Zenon DEF Scan
      <3>3. G[i] = IF i < n THEN F[i] ELSE IF s[n] \in D THEN F[n - 1] ELSE Append(F[n - 1], s[n])
        BY Zenon
      <3>4. i # 0 => G[i - 1] = F[i - 1]
        BY <3>1
      <3> HIDE DEF G
      <3>5. CASE i < n
        <4>1. i \in 0..(n - 1)
          BY <3>1, <3>5
        <4> QED BY <3>2, <3>3, <3>4, <3>5, <4>1, Zenon
      <3>6. CASE ~(i < n)
        <4>1. i = n /\ i # 0
          BY <3>1, <3>6
        <4> QED BY <3>3, <3>4, <3>6, <4>1, Zenon
      <3> QED BY <3>5, <3>6
    <2> QED BY <2>1, <2>5
  <1>3. \E F : Scan(s, D, F, Len(s))
    BY <1>1, <1>2
  <1>4. Retained(s, D) = (CHOOSE F : Scan(s, D, F, Len(s)))[Len(s)]
    BY DEF Retained, Scan
  <1>5. Scan(s, D, (CHOOSE F : Scan(s, D, F, Len(s))), Len(s))
    BY <1>3, Zenon
  <1> QED BY <1>4, <1>5, Zenon

\* r is what is left of the first n entries of s without those in D: entry j of r
\* is entry g[j] of s.
Picked(s, D, r, n, g) ==
    /\ g \in [1..Len(r) -> 1..n]
    /\ \A j \in 1..Len(r) : r[j] = s[g[j]] /\ s[g[j]] \notin D
    /\ \A j, k \in 1..Len(r) : g[j] = g[k] => j = k
    /\ \A i \in 1..n : s[i] \notin D => \E j \in 1..Len(r) : g[j] = i

LEMMA RetainedPicks ==
    ASSUME NEW S, NEW s \in Seq(S), NEW D
    PROVE  /\ Retained(s, D) \in Seq(S)
           /\ \E g : Picked(s, D, Retained(s, D), Len(s), g)
  <1>1. PICK F : Scan(s, D, F, Len(s)) /\ Retained(s, D) = F[Len(s)]
    BY ScanExists
  <1>2. Len(s) \in Nat /\ \A i \in 1..Len(s) : s[i] \in S
    OBVIOUS
  <1> DEFINE Good(n) == F[n] \in Seq(S) /\ \E g : Picked(s, D, F[n], n, g)
             T == {n \in 0..Len(s) : ~Good(n)}
  <1>3. \A n \in 0..Len(s) : F[n] = IF n = 0 THEN <<>>
                               ELSE IF s[n] \in D THEN F[n - 1] ELSE Append(F[n - 1], s[n])
    BY <1>1, Zenon DEF Scan
  <1>4. Good(0)
    <2>1. F[0] = <<>>
      BY <1>2, <1>3
    <2>2. Picked(s, D, <<>>, 0, <<>>)
      BY DEF Picked
    <2> QED BY <2>1, <2>2
  <1>5. ASSUME NEW n \in 1..Len(s), Good(n - 1) PROVE Good(n)
    <2>1. PICK g : Picked(s, D, F[n - 1], n - 1, g)
      BY <1>5
    <2> DEFINE r == F[n - 1]
    <2>2. r \in Seq(S) /\ Len(r) \in Nat
      BY <1>5
    <2>3. F[n] = IF s[n] \in D THEN r ELSE Append(r, s[n])
      BY <1>2, <1>3
    <2> HIDE DEF r
    <2>4. CASE s[n] \in D
      <3>1. Picked(s, D, r, n, g)
        BY <2>1, <2>2, <2>4 DEF Picked, r
      <3> QED BY <2>2, <2>3, <2>4, <3>1, Zenon
    <2>5. CASE s[n] \notin D
      <3> DEFINE a == Append(r, s[n])
                 h == [j \in 1..(Len(r) + 1) |-> IF j <= Len(r) THEN g[j] ELSE n]
      <3>1. /\ a \in Seq(S) /\ Len(a) = Len(r) + 1
            /\ \A j \in 1..Len(r) : a[j] = r[j]
            /\ a[Len(r) + 1] = s[n]
        BY <1>2, <2>2
      <3>2. \A j \in 1..(Len(r) + 1) : j \in 1..Len(r) \/ j = Len(r) + 1
        BY <2>2
      <3>3. /\ g \in [1..Len(r) -> 1..(n - 1)]
            /\ \A j \in 1..Len(r) : r[j] = s[g[j]] /\ s[g[j]] \notin D
            /\ \A j, k \in 1..Len(r) : g[j] = g[k] => j = k
            /\ \A i \in 1..(n - 1) : s[i] \notin D => \E j \in 1..Len(r) : g[j] = i
        BY <2>1, Zenon DEF Picked, r
      <3>4. /\ \A j \in 1..Len(r) : h[j] = g[j] /\ h[j] \in 1..(n - 1)
            /\ h[Len(r) + 1] = n
            /\ h \in [1..Len(a) -> 1..n]
        <4>1. \A j \in 1..Len(r) : /\ g[j] \in 1..(n - 1)
                                   /\ j \in 1..(Len(r) + 1) /\ j <= Len(r)
          <5>1. \A j \in 1..Len(r) : g[j] \in 1..(n - 1)
            BY <3>3, Zenon
          <5>2. \A j \in 1..Len(r) : j \in 1..(Len(r) + 1) /\ j <= Len(r)
            BY ONLY <2>2
          <5> QED BY <5>1, <5>2, Zenon
        <4>2. Len(r) + 1 \in 1..(Len(r) + 1) /\ ~(Len(r) + 1 <= Len(r))
          BY <2>2
        <4>3. \A j \in 1..(Len(r) + 1) : j <= Len(r) => j \in 1..Len(r)
          BY <2>2
        <4>4. n \in 1..n /\ \A i \in 1..(n - 1) : i \in 1..n
          OBVIOUS
        <4> QED BY <3>1, <4>1, <4>2, <4>3, <4>4, Zenon
      <3> HIDE DEF a, h
      <3>5. \A j \in 1..Len(a) : a[j] = s[h[j]] /\ s[h[j]] \notin D
        BY <2>5, <3>1, <3>2, <3>3, <3>4
      <3>6. \A j, k \in 1..Len(a) : h[j] = h[k] => j = k
        <4>1. \A j, k \in 1..Len(r) : h[j] = h[k] => j = k
          BY <3>3, <3>4
        <4>2. \A j \in 1..Len(r) : h[j] # h[Len(r) + 1]
          BY <3>4
        <4> QED BY <3>1, <3>2, <4>1, <4>2, Zenon
      <3>7. \A i \in 1..n : s[i] \notin D => \E j \in 1..Len(a) : h[j] = i
        <4> SUFFICES ASSUME NEW i \in 1..n, s[i] \notin D PROVE \E j \in 1..Len(a) : h[j] = i
          OBVIOUS
        <4>1. CASE i = n
          BY <2>2, <3>1, <3>4, <4>1
        <4>2. CASE i # n
          <5>1. i \in 1..(n - 1)
            BY <4>2
          <5>2. PICK j \in 1..Len(r) : g[j] = i
            BY <3>3, <5>1, Zenon
          <5> QED BY <2>2, <3>1, <3>4, <5>2
        <4> QED BY <4>1, <4>2
      <3>8. Picked(s, D, a, n, h)
        BY <3>4, <3>5, <3>6, <3>7, Zenon DEF Picked
      <3>9. F[n] = a
        BY <2>3, <2>5 DEF a
      <3> QED BY <3>1, <3>8, <3>9, Zenon
    <2> QED BY <2>4, <2>5
  <1>6. T = {}
    <2> SUFFICES ASSUME T # {} PROVE FALSE
      OBVIOUS
    <2>1. PICK n \in T : \A m \in T : n <= m
      <3>1. T \in SUBSET Nat
        BY <1>2
      <3> QED BY <3>1, LeastExists, Zenon
    <2> HIDE DEF Good
    <2>2. n \in 0..Len(s) /\ ~Good(n)
      OBVIOUS
    <2>3. n # 0
      BY <1>4, <2>2
    <2>4. n \in 1..Len(s) /\ n - 1 \in 0..Len(s) /\ ~(n <= n - 1)
      BY <1>2, <2>2, <2>3
    <2>5. Good(n - 1)
      BY <2>1, <2>4
    <2> QED BY <1>5, <2>2, <2>4, <2>5
  <1>7. Good(Len(s))
    <2> HIDE DEF Good
    <2> QED BY <1>2, <1>6
  <1> QED BY <1>1, <1>7

\* One entry of a list is replaced.
LEMMA ExceptSlot ==
    ASSUME NEW S, NEW l \in Seq(S), NEW p \in 1..Len(l), NEW e \in S
    PROVE  LET r == [l EXCEPT ![p] = e]
           IN  /\ r \in Seq(S) /\ Len(r) = Len(l)
               /\ r[p] = e /\ \A j \in 1..Len(l) \ {p} : r[j] = l[j]
  <1>1. DOMAIN l = 1..Len(l) /\ Len(l) \in Nat /\ l \in [1..Len(l) -> S]
    OBVIOUS
  <1>2. [l EXCEPT ![p] = e] \in Seq(S) /\ Len([l EXCEPT ![p] = e]) = Len(l)
    BY <1>1
  <1> QED BY <1>1, <1>2, Zenon

\* Earliest chooses from a set of positions.
LEMMA EarliestIn ==
    ASSUME NEW n \in Nat, NEW S \in SUBSET (1..n), S # {}
    PROVE  Earliest(S) \in S
  <1>1. S \in SUBSET Nat
    OBVIOUS
  <1>2. \E i \in S : \A j \in S : i <= j
    BY <1>1, LeastExists, Zenon
  <1> QED BY <1>2, Zenon DEF Earliest

--------------------------------------------------------------------------------
(* Control. *)

LEMMA ChainFacts ==
    /\ 0 \in Chains
    /\ \A k \in Keys : Home(k) \in Chains /\ k % Width \in Chains
    /\ \A c \in Chains : c + 1 < Width => c + 1 \in Chains
  BY BlockCacheAssumption DEF Chains, Home

\* A step moves one thread and leaves the variables of the others.
Others(t) ==
    \A u \in Threads \ {t} :
        /\ pc'[u] = pc[u] /\ op'[u] = op[u] /\ key'[u] = key[u] /\ ci'[u] = ci[u]
        /\ val'[u] = val[u]

LEMMA Moved ==
    ASSUME Types, NEW t \in Threads, CallStep(t) \/ Progress(t)
    PROVE  Others(t)
  <1> USE DEF Types, Step, Return, locals, Others
  <1>1. ASSUME NEW o, NEW k, NEW v, Call(t, o, k, v) PROVE Others(t)
    BY <1>1, Zenon DEF Call
  <1>2. ASSUME Lock(t) PROVE Others(t)
    BY <1>2, Zenon DEF Lock
  <1>3. ASSUME FetchHit(t) \/ FetchMiss(t) PROVE Others(t)
    BY <1>3, Zenon DEF FetchHit, FetchMiss
  <1>4. ASSUME ReadFault(t) \/ ReadCount(t) \/ ReadBlock(t) PROVE Others(t)
    BY <1>4, Zenon DEF ReadFault, ReadCount, ReadBlock
  <1>5. ASSUME FetchInsert(t) \/ Put(t) PROVE Others(t)
    BY <1>5, Zenon DEF FetchInsert, Put
  <1>6. ASSUME SyncEnter(t) \/ SyncWrite(t) \/ SyncFault(t) \/ SyncCount(t) PROVE Others(t)
    BY <1>6, Zenon DEF SyncEnter, SyncWrite, SyncFault, SyncCount, WriteBack
  <1>7. ASSUME SyncNext(t) PROVE Others(t)
    BY <1>7, Zenon DEF SyncNext, NextChain
  <1>8. ASSUME Invalidate(t) PROVE Others(t)
    BY <1>8, Zenon DEF Invalidate
  <1>9. ASSUME NEW cold, EvictCold(t, cold) PROVE Others(t)
    BY <1>9, Zenon DEF EvictCold, NextChain
  <1> HIDE DEF Others
  <1> QED BY <1>1, <1>2, <1>3, <1>4, <1>5, <1>6, <1>7, <1>8, <1>9, Zenon DEF CallStep, Progress

--------------------------------------------------------------------------------
(* How the actions change a chain. *)

\* Slot s is stored in chain c, over the slot of its block if there is one.
Sets(c, s) ==
    /\ items' \in [Chains -> Seq(Slot)]
    /\ \A d \in Chains \ {c} : items'[d] = items[d]
    /\ \E p \in 1..Len(items'[c]) :
          /\ items'[c][p] = s
          /\ \A j \in 1..Len(items'[c]) \ {p} :
                j \in 1..Len(items[c]) /\ items'[c][j] = items[c][j] /\ items[c][j].id # s.id
          /\ \A j \in 1..Len(items[c]) : items[c][j].id # s.id => j # p /\ j \in 1..Len(items'[c])

LEMMA AppendSets ==
    ASSUME Types, NEW c \in Chains, NEW s \in Slot,
           \A j \in 1..Len(items[c]) : items[c][j].id # s.id,
           items' = [items EXCEPT ![c] = Append(items[c], s)]
    PROVE  Sets(c, s)
  <1> DEFINE l == items[c]
             r == Append(l, s)
             p == Len(l) + 1
  <1>1. l \in Seq(Slot) /\ items \in [Chains -> Seq(Slot)]
    BY Zenon DEF Types
  <1>2. /\ r \in Seq(Slot) /\ Len(r) = Len(l) + 1 /\ Len(l) \in Nat
        /\ \A i \in 1..Len(l) : r[i] = l[i]
        /\ r[p] = s
    BY <1>1
  <1>3. /\ items' \in [Chains -> Seq(Slot)] /\ items'[c] = r
        /\ \A d \in Chains \ {c} : items'[d] = items[d]
    BY <1>1, <1>2, Zenon
  <1>4. \A j \in 1..Len(l) : l[j].id # s.id
    OBVIOUS
  <1>5. /\ p \in 1..Len(r)
        /\ \A j \in 1..Len(r) \ {p} : j \in 1..Len(l)
        /\ \A j \in 1..Len(l) : j # p /\ j \in 1..Len(r)
    BY <1>2
  <1> HIDE DEF l, r, p
  <1>6. /\ \A j \in 1..Len(r) \ {p} : j \in 1..Len(l) /\ r[j] = l[j] /\ l[j].id # s.id
        /\ \A j \in 1..Len(l) : l[j].id # s.id => j # p /\ j \in 1..Len(r)
    BY <1>2, <1>4, <1>5, Zenon
  <1> QED BY <1>2, <1>3, <1>5, <1>6 DEF Sets, l

LEMMA ReplaceSets ==
    ASSUME Types, SlotInv, NEW c \in Chains, NEW s \in Slot, NEW p \in 1..Len(items[c]),
           items[c][p].id = s.id,
           items' = [items EXCEPT ![c] = [items[c] EXCEPT ![p] = s]]
    PROVE  Sets(c, s)
  <1> DEFINE l == items[c]
             r == [l EXCEPT ![p] = s]
  <1>1. l \in Seq(Slot) /\ items \in [Chains -> Seq(Slot)]
    BY Zenon DEF Types
  <1>2. /\ r \in Seq(Slot) /\ Len(r) = Len(l)
        /\ r[p] = s /\ \A j \in 1..Len(l) \ {p} : r[j] = l[j]
    BY <1>1, ExceptSlot
  <1>3. /\ items' \in [Chains -> Seq(Slot)] /\ items'[c] = r
        /\ \A d \in Chains \ {c} : items'[d] = items[d]
    BY <1>1, <1>2, Zenon
  <1>4. \A j \in 1..Len(l) : l[j].id = s.id => j = p
    BY Zenon DEF SlotInv
  <1>5. p \in 1..Len(l) /\ l[p].id = s.id
    OBVIOUS
  <1> HIDE DEF l, r
  <1>6. /\ \A j \in 1..Len(r) \ {p} : j \in 1..Len(l) /\ r[j] = l[j] /\ l[j].id # s.id
        /\ \A j \in 1..Len(l) : l[j].id # s.id => j # p /\ j \in 1..Len(r)
    BY <1>2, <1>4, <1>5, Zenon
  <1> QED BY <1>2, <1>3, <1>5, <1>6 DEF Sets, l

\* The slots in D leave chain c.
Drops(c, D) ==
    /\ items' \in [Chains -> Seq(Slot)]
    /\ \A d \in Chains \ {c} : items'[d] = items[d]
    /\ \E g : Picked(items[c], D, items'[c], Len(items[c]), g)

LEMMA DiscardDrops ==
    ASSUME Types, NEW t \in Threads, NEW D, Discard(t, D)
    PROVE  Drops(ci[t], D)
  <1> DEFINE c == ci[t]
  <1>1. c \in Chains /\ items \in [Chains -> Seq(Slot)] /\ items[c] \in Seq(Slot)
    BY Zenon DEF Types
  <1>2. items' = [items EXCEPT ![c] = Retained(items[c], D)]
    BY Zenon DEF Discard
  <1> HIDE DEF c
  <1>3. /\ Retained(items[c], D) \in Seq(Slot)
        /\ \E g : Picked(items[c], D, Retained(items[c], D), Len(items[c]), g)
    BY <1>1, RetainedPicks, Zenon
  <1>4. /\ items' \in [Chains -> Seq(Slot)] /\ items'[c] = Retained(items[c], D)
        /\ \A d \in Chains \ {c} : items'[d] = items[d]
    BY <1>1, <1>2, <1>3, Zenon
  <1>5. Drops(c, D)
    BY <1>3, <1>4, Zenon DEF Drops
  <1> QED BY <1>5 DEF c

--------------------------------------------------------------------------------
(* What the cache holds. *)

LEMMA Unique ==
    ASSUME Types, SlotInv
    PROVE  /\ \A s : Holds(s) => s \in Slot
           /\ \A r, s : Holds(r) /\ Holds(s) /\ r.id = s.id => r = s
  <1>1. \A c \in Chains : \A i \in 1..Len(items[c]) : items[c][i] \in Slot
    <2> TAKE c \in Chains
    <2>1. items[c] \in Seq(Slot)
      BY Zenon DEF Types
    <2> QED BY <2>1
  <1>2. \A s : Holds(s) => s \in Slot
    BY <1>1, Zenon DEF Holds
  <1>3. \A r, s : Holds(r) /\ Holds(s) /\ r.id = s.id => r = s
    <2> SUFFICES ASSUME NEW r, NEW s, Holds(r), Holds(s), r.id = s.id PROVE r = s
      BY Zenon
    <2>1. PICK c \in Chains : \E i \in 1..Len(items[c]) : items[c][i] = r
      BY Zenon DEF Holds
    <2>2. PICK d \in Chains : \E j \in 1..Len(items[d]) : items[d][j] = s
      BY Zenon DEF Holds
    <2>3. Home(r.id) = c /\ Home(s.id) = d
      BY <2>1, <2>2, Zenon DEF SlotInv
    <2>4. c = d
      BY <2>3, Zenon
    <2> QED BY <2>1, <2>2, <2>4, Zenon DEF SlotInv
  <1> QED BY <1>2, <1>3

LEMMA SetsHold ==
    ASSUME Types, SlotInv, NEW c \in Chains, NEW s \in Slot, Home(s.id) = c, Sets(c, s)
    PROVE  /\ SlotInv'
           /\ \A x : Holds(x)' <=> x = s \/ (Holds(x) /\ x.id # s.id)
  <1>1. PICK p \in 1..Len(items'[c]) :
            /\ items'[c][p] = s
            /\ \A j \in 1..Len(items'[c]) \ {p} :
                  j \in 1..Len(items[c]) /\ items'[c][j] = items[c][j] /\ items[c][j].id # s.id
            /\ \A j \in 1..Len(items[c]) :
                  items[c][j].id # s.id => j # p /\ j \in 1..Len(items'[c])
    BY Zenon DEF Sets
  <1>2. \A d \in Chains \ {c} : items'[d] = items[d]
    BY Zenon DEF Sets
  <1>3. /\ \A d \in Chains : \A i \in 1..Len(items[d]) : Home(items[d][i].id) = d
        /\ \A d \in Chains : \A i, j \in 1..Len(items[d]) : items[d][i].id = items[d][j].id => i = j
    BY DEF SlotInv
  <1>4. \A d \in Chains : \A i \in 1..Len(items'[d]) : Home(items'[d][i].id) = d
    <2> SUFFICES ASSUME NEW d \in Chains, NEW i \in 1..Len(items'[d])
                 PROVE  Home(items'[d][i].id) = d
      OBVIOUS
    <2>1. CASE d = c /\ i = p
      BY <1>1, <2>1, Zenon
    <2>2. CASE d = c /\ i # p
      <3>1. i \in 1..Len(items[c]) /\ items'[c][i] = items[c][i]
        BY <1>1, <2>2, Zenon
      <3> QED BY <1>3, <2>2, <3>1, Zenon
    <2>3. CASE d # c
      BY <1>2, <1>3, <2>3, Zenon
    <2> QED BY <2>1, <2>2, <2>3
  <1>5. \A d \in Chains : \A i, j \in 1..Len(items'[d]) :
            items'[d][i].id = items'[d][j].id => i = j
    <2> SUFFICES ASSUME NEW d \in Chains, NEW i \in 1..Len(items'[d]), NEW j \in 1..Len(items'[d]),
                        items'[d][i].id = items'[d][j].id
                 PROVE  i = j
      BY Zenon
    <2>1. CASE d = c /\ (i = p \/ j = p)
      BY <1>1, <2>1, Zenon
    <2>2. CASE d = c /\ i # p /\ j # p
      <3>1. /\ i \in 1..Len(items[c]) /\ items'[c][i] = items[c][i]
            /\ j \in 1..Len(items[c]) /\ items'[c][j] = items[c][j]
        BY <1>1, <2>2, Zenon
      <3>2. items[c][i].id = items[c][j].id
        BY <2>2, <3>1, Zenon
      <3> QED BY <1>3, <3>1, <3>2, Zenon
    <2>3. CASE d # c
      BY <1>2, <1>3, <2>3, Zenon
    <2> QED BY <2>1, <2>2, <2>3
  <1>6. SlotInv'
    BY <1>4, <1>5, Zenon DEF SlotInv, Home
  <1>7. ASSUME NEW x, Holds(x)' PROVE x = s \/ (Holds(x) /\ x.id # s.id)
    <2>1. PICK d \in Chains : \E i \in 1..Len(items'[d]) : items'[d][i] = x
      BY <1>7, Zenon DEF Holds
    <2>2. PICK i \in 1..Len(items'[d]) : items'[d][i] = x
      BY <2>1
    <2>3. CASE d = c
      BY <1>1, <2>2, <2>3, Zenon DEF Holds
    <2>4. CASE d # c
      <3>1. i \in 1..Len(items[d]) /\ items[d][i] = x
        BY <1>2, <2>2, <2>4, Zenon
      <3>2. Home(x.id) = d
        BY <1>3, <3>1, Zenon
      <3> QED BY <2>4, <3>1, <3>2, Zenon DEF Holds
    <2> QED BY <2>3, <2>4
  <1>8. ASSUME NEW x, Holds(x), x.id # s.id PROVE Holds(x)'
    <2>1. PICK d \in Chains : \E i \in 1..Len(items[d]) : items[d][i] = x
      BY <1>8, Zenon DEF Holds
    <2>2. PICK i \in 1..Len(items[d]) : items[d][i] = x
      BY <2>1
    <2>3. i \in 1..Len(items'[d]) /\ items'[d][i] = x
      BY <1>1, <1>2, <1>8, <2>2, Zenon
    <2> QED BY <2>3, Zenon DEF Holds
  <1>9. Holds(s)'
    BY <1>1, Zenon DEF Holds
  <1> QED BY <1>6, <1>7, <1>8, <1>9, Zenon

LEMMA DropsHold ==
    ASSUME Types, SlotInv, NEW c \in Chains, NEW D, \A s \in D : Home(s.id) = c, Drops(c, D)
    PROVE  /\ SlotInv'
           /\ \A x : Holds(x)' <=> Holds(x) /\ x \notin D
  <1>1. PICK g : Picked(items[c], D, items'[c], Len(items[c]), g)
    BY Zenon DEF Drops
  <1>2. /\ g \in [1..Len(items'[c]) -> 1..Len(items[c])]
        /\ \A j \in 1..Len(items'[c]) : items'[c][j] = items[c][g[j]] /\ items[c][g[j]] \notin D
        /\ \A j, k \in 1..Len(items'[c]) : g[j] = g[k] => j = k
        /\ \A i \in 1..Len(items[c]) :
              items[c][i] \notin D => \E j \in 1..Len(items'[c]) : g[j] = i
    BY <1>1, Zenon DEF Picked
  <1>3. \A d \in Chains \ {c} : items'[d] = items[d]
    BY Zenon DEF Drops
  <1>4. \A j \in 1..Len(items'[c]) : g[j] \in 1..Len(items[c])
    BY <1>2, Zenon
  <1>5. /\ \A d \in Chains : \A i \in 1..Len(items[d]) : Home(items[d][i].id) = d
        /\ \A d \in Chains : \A i, j \in 1..Len(items[d]) : items[d][i].id = items[d][j].id => i = j
    BY DEF SlotInv
  <1>6. \A d \in Chains : \A i \in 1..Len(items'[d]) : Home(items'[d][i].id) = d
    <2> SUFFICES ASSUME NEW d \in Chains, NEW i \in 1..Len(items'[d])
                 PROVE  Home(items'[d][i].id) = d
      OBVIOUS
    <2>1. CASE d = c
      <3>1. items'[d][i] = items[c][g[i]] /\ g[i] \in 1..Len(items[c])
        BY <1>2, <1>4, <2>1, Zenon
      <3>2. Home(items[c][g[i]].id) = c
        BY <1>5, <3>1, Zenon
      <3> QED BY <2>1, <3>1, <3>2, Zenon
    <2>2. CASE d # c
      BY <1>3, <1>5, <2>2, Zenon
    <2> QED BY <2>1, <2>2
  <1>7. \A d \in Chains : \A i, j \in 1..Len(items'[d]) :
            items'[d][i].id = items'[d][j].id => i = j
    <2> SUFFICES ASSUME NEW d \in Chains, NEW i \in 1..Len(items'[d]), NEW j \in 1..Len(items'[d]),
                        items'[d][i].id = items'[d][j].id
                 PROVE  i = j
      BY Zenon
    <2>1. CASE d = c
      <3>1. items[c][g[i]].id = items[c][g[j]].id /\ g[i] \in 1..Len(items[c]) /\ g[j] \in 1..Len(items[c])
        BY <1>2, <1>4, <2>1, Zenon
      <3>2. g[i] = g[j]
        BY <1>5, <3>1, Zenon
      <3> QED BY <1>2, <2>1, <3>2, Zenon
    <2>2. CASE d # c
      BY <1>3, <1>5, <2>2, Zenon
    <2> QED BY <2>1, <2>2
  <1>8. SlotInv'
    BY <1>6, <1>7, Zenon DEF SlotInv, Home
  <1>9. ASSUME NEW x, Holds(x)' PROVE Holds(x) /\ x \notin D
    <2>1. PICK d \in Chains : \E i \in 1..Len(items'[d]) : items'[d][i] = x
      BY <1>9, Zenon DEF Holds
    <2>2. PICK i \in 1..Len(items'[d]) : items'[d][i] = x
      BY <2>1
    <2>3. CASE d = c
      BY <1>2, <1>4, <2>2, <2>3, Zenon DEF Holds
    <2>4. CASE d # c
      <3>1. i \in 1..Len(items[d]) /\ items[d][i] = x
        BY <1>3, <2>2, <2>4, Zenon
      <3>2. Home(x.id) = d
        BY <1>5, <3>1, Zenon
      <3> QED BY <2>4, <3>1, <3>2, Zenon DEF Holds
    <2> QED BY <2>3, <2>4
  <1>10. ASSUME NEW x, Holds(x), x \notin D PROVE Holds(x)'
    <2>1. PICK d \in Chains : \E i \in 1..Len(items[d]) : items[d][i] = x
      BY <1>10, Zenon DEF Holds
    <2>2. PICK i \in 1..Len(items[d]) : items[d][i] = x
      BY <2>1
    <2>3. CASE d = c
      <3>1. PICK j \in 1..Len(items'[c]) : g[j] = i
        BY <1>2, <1>10, <2>2, <2>3, Zenon
      <3>2. items'[c][j] = x
        BY <1>2, <2>2, <2>3, <3>1, Zenon
      <3> QED BY <3>2, Zenon DEF Holds
    <2>4. CASE d # c
      BY <1>3, <2>2, <2>4, Zenon DEF Holds
    <2> QED BY <2>3, <2>4
  <1> QED BY <1>8, <1>9, <1>10, Zenon

--------------------------------------------------------------------------------
(* The actions that change a chain. *)

LEMMA InsertSets ==
    ASSUME CacheInv, NEW t \in Threads, FetchInsert(t)
    PROVE  LET s == [id |-> key[t], payload |-> val[t], modified |-> FALSE]
           IN  s \in Slot /\ ci[t] \in Chains /\ Home(s.id) = ci[t] /\ Sets(ci[t], s)
  <1> DEFINE s == [id |-> key[t], payload |-> val[t], modified |-> FALSE]
             c == ci[t]
  <1>1. Types /\ SlotInv
    BY DEF CacheInv
  <1>2. key[t] \in Keys /\ c = Home(key[t]) /\ ~Cached(key[t]) /\ c \in Chains /\ val[t] \in Data
    BY Zenon DEF CacheInv, Types, CallInv, CallAt, MissInv, FetchInsert, Return, Step
  <1>3. s \in Slot /\ s.id = key[t]
    BY <1>2 DEF Slot
  <1>4. items' = [items EXCEPT ![c] = Append(items[c], s)]
    BY Zenon DEF FetchInsert
  <1> HIDE DEF s, c
  <1>5. \A j \in 1..Len(items[c]) : items[c][j].id # s.id
    <2> SUFFICES ASSUME NEW j \in 1..Len(items[c]), items[c][j].id = s.id PROVE FALSE
      OBVIOUS
    <2>1. Holds(items[c][j])
      BY <1>2, Zenon DEF Holds
    <2>2. items[c][j] \in Slot
      BY <1>1, <2>1, Unique, Zenon
    <2> QED BY <1>2, <1>3, <2>1, <2>2, Zenon DEF Cached
  <1>6. Sets(c, s)
    BY <1>1, <1>2, <1>3, <1>4, <1>5, AppendSets, Zenon
  <1> QED BY <1>2, <1>3, <1>6 DEF s, c

LEMMA PutSets ==
    ASSUME CacheInv, NEW t \in Threads, Put(t)
    PROVE  LET s == [id |-> key[t], payload |-> val[t], modified |-> TRUE]
           IN  s \in Slot /\ ci[t] \in Chains /\ Home(s.id) = ci[t] /\ Sets(ci[t], s)
  <1> DEFINE s == [id |-> key[t], payload |-> val[t], modified |-> TRUE]
             c == ci[t]
  <1>1. Types /\ SlotInv
    BY DEF CacheInv
  <1>2. pc[t] = "put"
    BY Zenon DEF Put, Return, Step
  <1>3. op[t] = "put"
    BY <1>2, Zenon DEF CacheInv, CallInv, CallAt
  <1>4. key[t] \in Keys /\ c = Home(key[t]) /\ c \in Chains /\ val[t] \in Data
    BY <1>3, Zenon DEF CacheInv, Types, CallInv, CallAt
  <1>5. s \in Slot /\ s.id = key[t]
    BY <1>4 DEF Slot
  <1>6. items' = [items EXCEPT ![c] = Stored(t)]
    BY Zenon DEF Put
  <1>7. /\ Hits(t) = {} => Stored(t) = Append(items[c], s)
        /\ Hits(t) # {} => Stored(t) = [items[c] EXCEPT ![Earliest(Hits(t))] = s]
    BY Zenon DEF Stored
  <1>8. Hits(t) = {i \in 1..Len(items[c]) : items[c][i].id = s.id}
    BY <1>5 DEF Hits
  <1> HIDE DEF s, c
  <1>9. CASE Hits(t) = {}
    <2>1. \A j \in 1..Len(items[c]) : items[c][j].id # s.id
      BY <1>8, <1>9, Zenon
    <2>2. Sets(c, s)
      BY <1>1, <1>4, <1>5, <1>6, <1>7, <1>9, <2>1, AppendSets, Zenon
    <2> QED BY <1>4, <1>5, <2>2 DEF s, c
  <1>10. CASE Hits(t) # {}
    <2>1. Len(items[c]) \in Nat
      <3>1. items[c] \in Seq(Slot)
        BY <1>1, <1>4, Zenon DEF Types
      <3> QED BY <3>1
    <2>2. Hits(t) \in SUBSET (1..Len(items[c]))
      BY <1>8, Zenon
    <2>3. PICK p : p = Earliest(Hits(t))
      OBVIOUS
    <2>4. p \in 1..Len(items[c]) /\ items[c][p].id = s.id
      BY <1>8, <1>10, <2>1, <2>2, <2>3, EarliestIn, Zenon
    <2>5. items' = [items EXCEPT ![c] = [items[c] EXCEPT ![p] = s]]
      BY <1>6, <1>7, <1>10, <2>3, Zenon
    <2>6. Sets(c, s)
      BY <1>1, <1>4, <1>5, <2>4, <2>5, ReplaceSets, Zenon
    <2> QED BY <1>4, <1>5, <2>6 DEF s, c
  <1> QED BY <1>9, <1>10

\* The slot s that WriteBack is about, and what happens to it.
WritesBack(t, s) ==
    /\ s \in Slot /\ Holds(s)
    /\ ci[t] \in Chains /\ Home(s.id) = ci[t]
    /\ Sets(ci[t], [s EXCEPT !.modified = FALSE])
    /\ \/ blocks' = blocks /\ lost' = lost \cup {s.id}
       \/ blocks' = [blocks EXCEPT ![s.id] = s.payload] /\ lost' = lost \ {s.id}

LEMMA WriteSets ==
    ASSUME CacheInv, NEW t \in Threads, NEW ok, WriteBack(t, ok)
    PROVE  \E s : WritesBack(t, s)
  <1> DEFINE c == ci[t]
  <1>1. Types /\ SlotInv
    BY DEF CacheInv
  <1>2. c \in Chains /\ items \in [Chains -> Seq(Slot)] /\ items[c] \in Seq(Slot)
    BY <1>1, Zenon DEF Types
  <1>3. PICK p : p = Earliest(Dirty(c))
    OBVIOUS
  <1>4. p \in 1..Len(items[c])
    <2>1. Len(items[c]) \in Nat
      BY <1>2
    <2>2. Dirty(c) \in SUBSET (1..Len(items[c])) /\ Dirty(c) # {}
      BY Zenon DEF Dirty, WriteBack
    <2>3. Earliest(Dirty(c)) \in Dirty(c)
      BY <2>1, <2>2, EarliestIn, Zenon
    <2> QED BY <1>3, <2>2, <2>3, Zenon
  <1>5. PICK s : s = items[c][p]
    OBVIOUS
  <1> DEFINE w == [s EXCEPT !.modified = FALSE]
  <1>6. items' = [items EXCEPT ![c][p].modified = FALSE]
    BY <1>3, Zenon DEF WriteBack
  <1>7. \/ blocks' = blocks /\ lost' = lost \cup {s.id}
        \/ blocks' = [blocks EXCEPT ![s.id] = s.payload] /\ lost' = lost \ {s.id}
    BY <1>3, <1>5, Zenon DEF WriteBack
  <1>8. Holds(s)
    BY <1>2, <1>4, <1>5, Zenon DEF Holds
  <1>9. s \in Slot
    BY <1>1, <1>8, Unique, Zenon
  <1>10. w \in Slot /\ w.id = s.id
    BY <1>9, Zenon DEF Slot
  <1>11. items' = [items EXCEPT ![c] = [items[c] EXCEPT ![p] = w]]
    BY <1>5, <1>6, Zenon
  <1> HIDE DEF w
  <1>12. Home(s.id) = c
    BY <1>1, <1>2, <1>4, <1>5, Zenon DEF SlotInv
  <1>13. Sets(c, w)
    BY <1>1, <1>2, <1>4, <1>5, <1>10, <1>11, ReplaceSets, Zenon
  <1> QED BY <1>2, <1>7, <1>8, <1>9, <1>12, <1>13, Zenon DEF WritesBack, w

LEMMA DiscardHolds ==
    ASSUME CacheInv, NEW t \in Threads, NEW D \in SUBSET InChain(t), Discard(t, D)
    PROVE  /\ SlotInv' /\ items' \in [Chains -> Seq(Slot)] /\ ci[t] \in Chains
           /\ \A s \in D : Holds(s) /\ Home(s.id) = ci[t]
           /\ \A x : Holds(x)' <=> Holds(x) /\ x \notin D
  <1>1. Types /\ SlotInv
    BY DEF CacheInv
  <1>2. ci[t] \in Chains
    BY <1>1, Zenon DEF Types
  <1>3. \A s \in D : Holds(s) /\ Home(s.id) = ci[t]
    <2> SUFFICES ASSUME NEW s \in D PROVE Holds(s) /\ Home(s.id) = ci[t]
      OBVIOUS
    <2>1. PICK i \in 1..Len(items[ci[t]]) : s = items[ci[t]][i]
      BY Zenon DEF InChain
    <2> QED BY <1>1, <1>2, <2>1, Zenon DEF Holds, SlotInv
  <1>4. Drops(ci[t], D)
    BY <1>1, DiscardDrops, Zenon
  <1>5. items' \in [Chains -> Seq(Slot)]
    BY <1>4, Zenon DEF Drops
  <1> QED BY <1>1, <1>2, <1>3, <1>4, <1>5, DropsHold, Zenon

--------------------------------------------------------------------------------
(* CacheInv is inductive: what the slots hold. *)

\* WrittenUnlessFault, by the slots the cache holds.
Written == \A s : Holds(s) /\ ~s.modified /\ s.id \notin lost => s.payload = blocks[s.id]

LEMMA WrittenHolds == (WrittenUnlessFault <=> Written) /\ (WrittenUnlessFault' <=> Written')
  BY Zenon DEF WrittenUnlessFault, Written, Holds

\* A fetch of another thread that missed is not concerned by what happens to the
\* chain of t.
LEMMA MissOthers ==
    ASSUME CacheInv, NEW t \in Threads, Others(t), Working(t), pc'[t] \notin {"read", "read_err", "insert"},
           \A k \in Keys : Home(k) # ci[t] => (Cached(k)' => Cached(k)) /\ blocks'[k] = blocks[k]
    PROVE  MissInv'
  <1> SUFFICES ASSUME NEW u \in Threads, pc'[u] \in {"read", "read_err", "insert"}
               PROVE  ~Cached(key[u])' /\ (pc'[u] = "insert" => val'[u] = blocks'[key'[u]])
    BY Zenon DEF MissInv
  <1>1. u # t
    OBVIOUS
  <1>2. pc[u] = pc'[u] /\ key'[u] = key[u] /\ val'[u] = val[u]
    BY <1>1, Zenon DEF Others
  <1>3. op[u] = "fetch"
    BY <1>2, Zenon DEF CacheInv, CallInv, CallAt
  <1>4. key[u] \in Keys /\ ci[u] = Home(key[u])
    BY <1>3, Zenon DEF CacheInv, CallInv, CallAt
  <1>5. Working(u)
    BY <1>2 DEF Working
  <1>6. ci[u] # ci[t]
    BY <1>1, <1>5, Zenon DEF CacheInv, LockInv
  <1>7. ~Cached(key[u]) /\ (pc[u] = "insert" => val[u] = blocks[key[u]])
    BY <1>2, Zenon DEF CacheInv, MissInv
  <1>8. PICK k : k = key[u]
    OBVIOUS
  <1>9. ~Cached(k) /\ k \in Keys /\ Home(k) # ci[t]
    BY <1>4, <1>6, <1>7, <1>8, Zenon
  <1>10. ~Cached(k)' /\ blocks'[k] = blocks[k]
    BY <1>9, Zenon
  <1>11. ~Cached(key[u])'
    BY <1>2, <1>8, <1>10, Zenon DEF Cached
  <1> QED BY <1>2, <1>7, <1>8, <1>10, <1>11, Zenon

DataInv == SlotInv /\ LatestInv /\ MissInv /\ WrittenUnlessFault

LEMMA CachedSets ==
    ASSUME NEW s \in Slot, \A x : Holds(x)' <=> x = s \/ (Holds(x) /\ x.id # s.id)
    PROVE  \A k : Cached(k)' <=> Cached(k) \/ k = s.id
  BY Zenon DEF Cached

LEMMA InsertStep ==
    ASSUME CacheInv, NEW t \in Threads, Others(t), FetchInsert(t)
    PROVE  DataInv'
  <1>1. PICK s : s = [id |-> key[t], payload |-> val[t], modified |-> FALSE]
    BY Zenon
  <1>2. s.id = key[t] /\ s.payload = val[t]
    BY <1>1
  <1>3. s \in Slot /\ ci[t] \in Chains /\ Home(s.id) = ci[t] /\ Sets(ci[t], s)
    BY <1>1, InsertSets
  <1>4. Types /\ SlotInv /\ LatestInv /\ Written
    BY WrittenHolds DEF CacheInv
  <1>5. SlotInv' /\ \A x : Holds(x)' <=> x = s \/ (Holds(x) /\ x.id # s.id)
    BY <1>3, <1>4, SetsHold, Zenon
  <1>6. \A k : Cached(k)' <=> Cached(k) \/ k = s.id
    BY <1>3, <1>5, CachedSets, Zenon
  <1>7. blocks' = blocks /\ latest' = latest /\ lost' = lost /\ pc[t] = "insert" /\ pc'[t] = "idle"
    BY <1>4, Zenon DEF FetchInsert, Return, Step, Types
  <1>8. ~Cached(s.id) /\ s.payload = blocks[s.id]
    BY <1>2, <1>7, Zenon DEF CacheInv, MissInv
  <1>9. s.id \in Keys
    BY <1>3, Zenon DEF Slot
  <1>10. s.payload = latest[s.id]
    BY <1>4, <1>8, <1>9, Zenon DEF LatestInv
  <1>11. LatestInv'
    BY <1>4, <1>5, <1>6, <1>7, <1>10, Zenon DEF LatestInv
  <1>12. Written'
    BY <1>4, <1>5, <1>7, <1>8, Zenon DEF Written
  <1>13. MissInv'
    <2>1. Working(t) /\ pc'[t] \notin {"read", "read_err", "insert"}
      BY <1>7 DEF Working
    <2>2. \A k \in Keys : Home(k) # ci[t] => (Cached(k)' => Cached(k)) /\ blocks'[k] = blocks[k]
      BY <1>3, <1>6, <1>7, Zenon
    <2> QED BY <2>1, <2>2, MissOthers, Zenon
  <1> QED BY <1>5, <1>11, <1>12, <1>13, WrittenHolds DEF DataInv

LEMMA PutStep ==
    ASSUME CacheInv, NEW t \in Threads, Others(t), Put(t)
    PROVE  DataInv'
  <1>1. PICK s : s = [id |-> key[t], payload |-> val[t], modified |-> TRUE]
    BY Zenon
  <1>2. s.id = key[t] /\ s.payload = val[t] /\ s.modified = TRUE
    BY <1>1
  <1>3. s \in Slot /\ ci[t] \in Chains /\ Home(s.id) = ci[t] /\ Sets(ci[t], s)
    BY <1>1, PutSets
  <1>4. Types /\ SlotInv /\ LatestInv /\ Written
    BY WrittenHolds DEF CacheInv
  <1>5. SlotInv' /\ \A x : Holds(x)' <=> x = s \/ (Holds(x) /\ x.id # s.id)
    BY <1>3, <1>4, SetsHold, Zenon
  <1>6. \A k : Cached(k)' <=> Cached(k) \/ k = s.id
    BY <1>3, <1>5, CachedSets, Zenon
  <1>7. blocks' = blocks /\ lost' = lost /\ pc[t] = "put" /\ pc'[t] = "idle"
    BY <1>4, Zenon DEF Put, Return, Step, Types
  <1>8. s.id \in Keys
    BY <1>3, Zenon DEF Slot
  <1>9. latest'[s.id] = s.payload /\ \A k \in Keys \ {s.id} : latest'[k] = latest[k]
    BY <1>2, <1>4, <1>8, Zenon DEF Put, Types
  <1>10. LatestInv'
    <2>1. \A x \in Slot : Holds(x)' => x.payload = latest'[x.id]
      <3> SUFFICES ASSUME NEW x \in Slot, Holds(x)', x # s PROVE x.payload = latest'[x.id]
        BY <1>9, Zenon
      <3>1. Holds(x) /\ x.id # s.id /\ x.id \in Keys
        BY <1>5, Zenon DEF Slot
      <3> QED BY <1>4, <1>9, <3>1, Zenon DEF LatestInv
    <2>2. \A k \in Keys : ~Cached(k)' => latest'[k] = blocks'[k]
      BY <1>4, <1>6, <1>7, <1>9, Zenon DEF LatestInv
    <2> QED BY <2>1, <2>2, Zenon DEF LatestInv
  <1>11. Written'
    BY <1>2, <1>4, <1>5, <1>7, Zenon DEF Written
  <1>12. MissInv'
    <2>1. Working(t) /\ pc'[t] \notin {"read", "read_err", "insert"}
      BY <1>7 DEF Working
    <2>2. \A k \in Keys : Home(k) # ci[t] => (Cached(k)' => Cached(k)) /\ blocks'[k] = blocks[k]
      BY <1>3, <1>6, <1>7, Zenon
    <2> QED BY <2>1, <2>2, MissOthers, Zenon
  <1> QED BY <1>5, <1>10, <1>11, <1>12, WrittenHolds DEF DataInv

LEMMA WriteStep ==
    ASSUME CacheInv, NEW t \in Threads, Others(t), NEW ok, WriteBack(t, ok),
           Working(t), pc'[t] = "sync"
    PROVE  DataInv'
  <1>1. PICK s : WritesBack(t, s)
    BY WriteSets
  <1>2. PICK w : w = [s EXCEPT !.modified = FALSE]
    BY Zenon
  <1>3. s \in Slot /\ Holds(s) /\ ci[t] \in Chains /\ Home(s.id) = ci[t] /\ Sets(ci[t], w)
    BY <1>1, <1>2, Zenon DEF WritesBack
  <1>4. w \in Slot /\ w.id = s.id /\ w.payload = s.payload
    BY <1>2, <1>3, Zenon DEF Slot
  <1>5. Types /\ SlotInv /\ LatestInv /\ Written
    BY WrittenHolds DEF CacheInv
  <1>6. SlotInv' /\ \A x : Holds(x)' <=> x = w \/ (Holds(x) /\ x.id # w.id)
    BY <1>3, <1>4, <1>5, SetsHold, Zenon
  <1>7. \A k : Cached(k)' <=> Cached(k) \/ k = w.id
    BY <1>4, <1>6, CachedSets, Zenon
  <1>8. latest' = latest
    BY Zenon DEF WriteBack
  <1>9. s.id \in Keys
    BY <1>3, Zenon DEF Slot
  <1>10. /\ \A k \in Keys \ {s.id} : blocks'[k] = blocks[k] /\ (k \in lost' <=> k \in lost)
         /\ s.id \notin lost' => blocks'[s.id] = s.payload
    <2>1. CASE blocks' = blocks /\ lost' = lost \cup {s.id}
      BY <2>1
    <2>2. CASE blocks' = [blocks EXCEPT ![s.id] = s.payload] /\ lost' = lost \ {s.id}
      BY <1>5, <1>9, <2>2, Zenon DEF Types
    <2> QED BY <1>1, <2>1, <2>2, Zenon DEF WritesBack
  <1>11. LatestInv'
    <2>1. s.payload = latest[s.id]
      BY <1>3, <1>5, Zenon DEF LatestInv
    <2>2. \A x \in Slot : Holds(x)' => x.payload = latest'[x.id]
      BY <1>4, <1>5, <1>6, <1>8, <2>1, Zenon DEF LatestInv
    <2>3. \A k \in Keys : ~Cached(k)' => latest'[k] = blocks'[k]
      BY <1>4, <1>5, <1>7, <1>8, <1>10, Zenon DEF LatestInv
    <2> QED BY <2>2, <2>3, Zenon DEF LatestInv
  <1>12. Written'
    <2> SUFFICES ASSUME NEW x, Holds(x)', ~x.modified, x.id \notin lost'
                 PROVE  x.payload = blocks'[x.id]
      BY Zenon DEF Written
    <2>1. CASE x = w
      BY <1>4, <1>10, <2>1, Zenon
    <2>2. CASE x # w
      <3>1. Holds(x) /\ x.id # s.id
        BY <1>4, <1>6, <2>2, Zenon
      <3>2. x \in Slot
        BY <1>5, <3>1, Unique, Zenon
      <3>3. x.id \in Keys
        BY ONLY <3>2, Zenon DEF Slot
      <3> QED BY <1>5, <1>10, <3>1, <3>3, Zenon DEF Written
    <2> QED BY <2>1, <2>2
  <1>13. MissInv'
    <2>1. pc'[t] \notin {"read", "read_err", "insert"}
      OBVIOUS
    <2>2. \A k \in Keys : Home(k) # ci[t] => (Cached(k)' => Cached(k)) /\ blocks'[k] = blocks[k]
      BY <1>3, <1>4, <1>7, <1>10, Zenon
    <2> QED BY <2>1, <2>2, MissOthers, Zenon
  <1> QED BY <1>6, <1>11, <1>12, <1>13, WrittenHolds DEF DataInv

LEMMA DiscardStep ==
    ASSUME CacheInv, NEW t \in Threads, Others(t), NEW D \in SUBSET InChain(t), Discard(t, D),
           blocks' = blocks, lost' = lost, Working(t), pc'[t] \notin {"read", "read_err", "insert"}
    PROVE  DataInv'
  <1>1. /\ SlotInv' /\ \A s \in D : Holds(s) /\ Home(s.id) = ci[t]
        /\ \A x : Holds(x)' <=> Holds(x) /\ x \notin D
    BY DiscardHolds, Zenon
  <1>2. Types /\ SlotInv /\ LatestInv /\ Written
    BY WrittenHolds DEF CacheInv
  <1>3. \A k \in Keys : latest'[k] = IF \E s \in D : s.id = k THEN blocks[k] ELSE latest[k]
    BY Zenon DEF Discard
  <1>4. \A k \in Keys : Cached(k)' => Cached(k)
    BY <1>1, Zenon DEF Cached
  <1>5. LatestInv'
    <2>1. ASSUME NEW x \in Slot, Holds(x)' PROVE x.payload = latest'[x.id]
      <3>1. Holds(x) /\ x \notin D /\ x.id \in Keys
        BY <1>1, <2>1, Zenon DEF Slot
      <3>2. ~\E s \in D : s.id = x.id
        BY <1>1, <1>2, <3>1, Unique, Zenon
      <3> QED BY <1>2, <1>3, <3>1, <3>2, Zenon DEF LatestInv
    <2>2. ASSUME NEW k \in Keys, ~Cached(k)' PROVE latest'[k] = blocks'[k]
      <3>1. CASE \E s \in D : s.id = k
        BY <1>3, <3>1, Zenon
      <3>2. CASE ~\E s \in D : s.id = k
        <4>1. ~Cached(k)
          BY <1>1, <2>2, <3>2, Zenon DEF Cached
        <4> QED BY <1>2, <1>3, <3>2, <4>1, Zenon DEF LatestInv
      <3> QED BY <3>1, <3>2
    <2> QED BY <2>1, <2>2, Zenon DEF LatestInv
  <1>6. Written'
    BY <1>1, <1>2, Zenon DEF Written
  <1>7. MissInv'
    BY <1>4, MissOthers, Zenon
  <1> QED BY <1>1, <1>5, <1>6, <1>7, WrittenHolds DEF DataInv

\* Steps that change neither the slots nor the disk.
LEMMA QuietStep ==
    ASSUME CacheInv, MissInv', UNCHANGED <<items, blocks, latest, lost>>
    PROVE  DataInv'
  <1>1. SlotInv /\ LatestInv /\ Written
    BY WrittenHolds DEF CacheInv
  <1>2. \A x : Holds(x)' <=> Holds(x)
    BY Zenon DEF Holds
  <1>3. SlotInv'
    BY <1>1, Zenon DEF SlotInv, Home
  <1>4. LatestInv'
    BY <1>1, <1>2, Zenon DEF LatestInv, Cached
  <1>5. Written'
    BY <1>1, <1>2, Zenon DEF Written
  <1> QED BY <1>3, <1>4, <1>5, WrittenHolds DEF DataInv

\* A step of t that leaves the slots and the disk keeps what the others read.
LEMMA MissQuiet ==
    ASSUME CacheInv, NEW t \in Threads, Others(t), UNCHANGED <<items, blocks>>,
           pc'[t] \in {"read", "read_err", "insert"} => key'[t] = key[t] /\ ~Cached(key[t]),
           pc'[t] = "insert" => val'[t] = blocks[key[t]]
    PROVE  MissInv'
  <1>1. \A k : Cached(k)' <=> Cached(k)
    BY Zenon DEF Cached, Holds
  <1> SUFFICES ASSUME NEW u \in Threads, pc'[u] \in {"read", "read_err", "insert"}
               PROVE  ~Cached(key[u])' /\ (pc'[u] = "insert" => val'[u] = blocks'[key'[u]])
    BY Zenon DEF MissInv
  <1>2. key'[u] = key[u] /\ ~Cached(key[u]) /\ (pc'[u] = "insert" => val'[u] = blocks[key[u]])
    <2>1. CASE u = t
      BY <2>1, Zenon
    <2>2. CASE u # t
      BY <2>2, Zenon DEF Others, CacheInv, MissInv
    <2> QED BY <2>1, <2>2
  <1>3. ~Cached(key[u])'
    BY <1>2, Zenon DEF Cached, Holds
  <1> QED BY <1>2, <1>3, Zenon

LEMMA DataStep ==
    ASSUME CacheInv, NEW t \in Threads, CallStep(t) \/ Progress(t)
    PROVE  DataInv'
  <1>1. Types /\ Others(t)
    BY Moved DEF CacheInv
  <1>2. pc \in [Threads -> {"idle", "enter", "lock", "fetch", "read", "read_err", "insert",
                            "put", "sync", "sync_err", "invalidate", "evict_cold"}]
    BY <1>1, Zenon DEF Types
  \* A step that leaves t elsewhere than in a read.
  <1>3. ASSUME NEW from, NEW to, Step(t, from, to), to \notin {"read", "read_err", "insert"},
               UNCHANGED <<items, blocks, latest, lost>>
        PROVE  DataInv'
    <2>1. pc'[t] = to
      BY <1>2, <1>3, Zenon DEF Step
    <2>2. MissInv'
      BY <1>1, <1>3, <2>1, MissQuiet, Zenon
    <2> QED BY <1>3, <2>2, QuietStep, Zenon
  <1>4. ASSUME NEW o \in Ops, NEW k, NEW v, Call(t, o, k, v) PROVE DataInv'
    BY <1>3, <1>4 DEF Call
  <1>5. ASSUME Lock(t) PROVE DataInv'
    <2>1. op[t] \in Ops
      BY <1>5, Zenon DEF Lock, Step, CacheInv, CallInv, CallAt
    <2>2. op[t] \notin {"read", "read_err", "insert"}
      BY <2>1, BlockCacheAssumption
    <2> QED BY <1>3, <1>5, <2>2 DEF Lock
  <1>6. ASSUME FetchHit(t) PROVE DataInv'
    BY <1>3, <1>6 DEF FetchHit, Return
  <1>7. ASSUME FetchMiss(t) PROVE DataInv'
    <2>1. pc[t] = "fetch" /\ pc'[t] = "read" /\ key' = key /\ Hits(t) = {}
      BY <1>2, <1>7, Zenon DEF FetchMiss, Step, locals
    <2>2. op[t] = "fetch"
      BY <2>1, Zenon DEF CacheInv, CallInv, CallAt
    <2>3. ci[t] = Home(key[t])
      BY <2>2, Zenon DEF CacheInv, CallInv, CallAt
    <2>4. ~Cached(key[t])
      <3> SUFFICES ASSUME NEW s, Holds(s), s.id = key[t] PROVE FALSE
        BY Zenon DEF Cached
      <3>1. PICK c \in Chains : \E i \in 1..Len(items[c]) : items[c][i] = s
        BY Zenon DEF Holds
      <3>2. PICK i \in 1..Len(items[c]) : items[c][i] = s
        BY <3>1
      <3>3. c = ci[t]
        BY <2>3, <3>2, Zenon DEF CacheInv, SlotInv
      <3> QED BY <2>1, <3>2, <3>3, Zenon DEF Hits
    <2>5. MissInv'
      <3>1. UNCHANGED <<items, blocks>>
        BY <1>7, Zenon DEF FetchMiss
      <3> QED BY <1>1, <2>1, <2>4, <3>1, MissQuiet
    <2> QED BY <1>7, <2>5, QuietStep, Zenon DEF FetchMiss
  <1>8. ASSUME ReadFault(t) \/ ReadCount(t) PROVE DataInv'
    <2>1. /\ pc[t] \in {"read", "read_err"} /\ pc'[t] \in {"read", "read_err"}
          /\ key' = key /\ UNCHANGED <<items, blocks, latest, lost>>
      BY <1>2, <1>8, Zenon DEF ReadFault, ReadCount, Step, locals
    <2>2. ~Cached(key[t])
      BY <2>1, Zenon DEF CacheInv, MissInv
    <2>3. MissInv'
      BY <1>1, <2>1, <2>2, MissQuiet
    <2> QED BY <2>1, <2>3, QuietStep, Zenon
  <1>9. ASSUME ReadBlock(t) PROVE DataInv'
    <2>1. pc[t] = "read" /\ pc'[t] = "insert" /\ key' = key /\ UNCHANGED <<items, blocks>>
      BY <1>2, <1>9, Zenon DEF ReadBlock, Step, locals
    <2>2. ~Cached(key[t])
      BY <2>1, Zenon DEF CacheInv, MissInv
    <2>3. val'[t] = blocks[key[t]]
      BY <1>1, <1>9, Zenon DEF ReadBlock, Types
    <2>4. MissInv'
      BY <1>1, <2>1, <2>2, <2>3, MissQuiet
    <2> QED BY <1>9, <2>4, QuietStep, Zenon DEF ReadBlock
  <1>10. ASSUME SyncEnter(t) \/ SyncFault(t) PROVE DataInv'
    BY <1>3, <1>10 DEF SyncEnter, SyncFault
  <1>11. ASSUME NextChain(t), pc[t] \in {"sync", "evict_cold"}
         PROVE  Working(t) /\ pc'[t] \notin {"read", "read_err", "insert"}
    BY <1>2, <1>11 DEF NextChain, Return, Step, Working
  <1>12. ASSUME SyncNext(t) PROVE DataInv'
    <2>1. pc'[t] \notin {"read", "read_err", "insert"}
      BY <1>11, <1>12 DEF SyncNext
    <2>2. MissInv'
      BY <1>1, <1>12, <2>1, MissQuiet DEF SyncNext
    <2> QED BY <1>12, <2>2, QuietStep, Zenon DEF SyncNext
  <1>13. ASSUME Invalidate(t) PROVE DataInv'
    <2>1. Working(t) /\ pc'[t] \notin {"read", "read_err", "insert"}
      BY <1>2, <1>13 DEF Invalidate, Return, Step, Working
    <2>2. PICK D : D = {s \in InChain(t) : s.id = key[t]}
      BY Zenon
    <2>3. Discard(t, D) /\ blocks' = blocks /\ lost' = lost
      BY <1>13, <2>2, Zenon DEF Invalidate
    <2>4. D \in SUBSET InChain(t)
      BY <2>2, Zenon
    <2> QED BY <1>1, <2>1, <2>3, <2>4, DiscardStep, Zenon
  <1>14. ASSUME NEW cold, EvictCold(t, cold) PROVE DataInv'
    <2>1. Working(t) /\ pc'[t] \notin {"read", "read_err", "insert"}
      BY <1>11, <1>14 DEF EvictCold
    <2>2. PICK D : D = {s \in InChain(t) : s.modified /\ s.id \in cold}
      BY Zenon
    <2>3. Discard(t, D) /\ blocks' = blocks /\ lost' = lost
      BY <1>14, <2>2, Zenon DEF EvictCold
    <2>4. D \in SUBSET InChain(t)
      BY <2>2, Zenon
    <2> QED BY <1>1, <2>1, <2>3, <2>4, DiscardStep, Zenon
  <1>17. ASSUME SyncWrite(t) \/ SyncCount(t) PROVE DataInv'
    <2>1. PICK ok : WriteBack(t, ok)
      BY <1>17, Zenon DEF SyncWrite, SyncCount
    <2>2. pc[t] \in {"sync", "sync_err"} /\ pc'[t] = "sync"
      BY <1>2, <1>17, Zenon DEF SyncWrite, SyncCount, Step
    <2>3. Working(t)
      BY <2>2 DEF Working
    <2> QED BY <1>1, <2>1, <2>2, <2>3, WriteStep, Zenon
  <1>15. ASSUME CallStep(t) PROVE DataInv'
    BY <1>4, <1>15, Zenon DEF CallStep
  <1>16. ASSUME Progress(t) PROVE DataInv'
    BY <1>1, <1>5, <1>6, <1>7, <1>8, <1>9, <1>10, <1>12, <1>13, <1>14, <1>16, <1>17,
       InsertStep, PutStep, Zenon DEF Progress
  <1> QED BY <1>15, <1>16

--------------------------------------------------------------------------------
(* CacheInv is inductive: types, calls and locks. *)

\* The arguments of the calls the threads make.
LEMMA Arguments ==
    ASSUME NEW t \in Threads, CallStep(t)
    PROVE  \E o \in Ops, k \in Keys \cup {NoKey}, v \in Data :
               /\ Call(t, o, k, v)
               /\ FirstChain(o, k) \in Chains
               /\ o \in {"fetch", "put"} => k \in Keys /\ FirstChain(o, k) = Home(k)
  <1>1. ASSUME NEW o \in {"fetch", "put", "invalidate"}, NEW k \in Keys
        PROVE  /\ FirstChain(o, k) \in Chains
               /\ o \in {"fetch", "put"} => FirstChain(o, k) = Home(k)
    <2>1. CASE o \in {"fetch", "put"}
      <3>1. FirstChain(o, k) = Home(k)
        BY <2>1 DEF FirstChain, Home
      <3> QED BY <3>1, ChainFacts
    <2>2. CASE o = "invalidate"
      <3>1. FirstChain(o, k) = k % Width
        BY <2>2 DEF FirstChain
      <3> QED BY <2>2, <3>1, ChainFacts
    <2> QED BY <1>1, <2>1, <2>2
  <1>2. ASSUME NEW o \in {"sync", "evict_cold"}
        PROVE  FirstChain(o, NoKey) \in Chains /\ o \notin {"fetch", "put"}
    <2>1. FirstChain(o, NoKey) = 0
      BY <1>2 DEF FirstChain
    <2> QED BY <2>1, ChainFacts
  <1>3. Fill \in Data /\ \A v \in Values : v \in Data
    BY DEF Data
  <1>4. CASE \E o \in Ops \cap {"fetch", "invalidate"}, k \in Keys : Call(t, o, k, Fill)
    BY <1>1, <1>3, <1>4, Zenon
  <1>5. CASE "put" \in Ops /\ \E k \in Keys, v \in Values : Call(t, "put", k, v)
    BY <1>1, <1>3, <1>5, Zenon
  <1>6. CASE \E o \in Ops \cap {"sync", "evict_cold"} : Call(t, o, NoKey, Fill)
    BY <1>2, <1>3, <1>6, Zenon
  <1> QED BY <1>4, <1>5, <1>6, Zenon DEF CallStep

LEMMA Counted ==
    ASSUME errs \in Nat, CountOff
    PROVE  errs' \in Nat
  BY BlockCacheAssumption DEF CountOff

LEMMA TypesStep ==
    ASSUME CacheInv, NEW t \in Threads, CallStep(t) \/ Progress(t)
    PROVE  Types'
  <1>1. Types
    BY DEF CacheInv
  <1> USE <1>1 DEF Types
  <1>2. ASSUME CallStep(t) PROVE Types'
    <2>1. PICK o \in Ops, k \in Keys \cup {NoKey}, v \in Data :
                 Call(t, o, k, v) /\ FirstChain(o, k) \in Chains
      BY <1>2, Arguments, Zenon
    <2>2. PICK c \in Chains : c = FirstChain(o, k)
      BY <2>1, Zenon
    <2>3. CASE o = "sync"
      BY <2>1, <2>2, <2>3, Zenon DEF Call, Step
    <2>4. CASE o # "sync"
      BY <2>1, <2>2, <2>4, Zenon DEF Call, Step
    <2> QED BY <2>3, <2>4
  <1>3. ASSUME Lock(t) PROVE Types'
    <2>1. op[t] \in Ops
      BY <1>3, Zenon DEF Lock, Step, CacheInv, CallInv, CallAt
    <2>2. op[t] \in {"fetch", "put", "sync", "invalidate", "evict_cold"}
      BY <2>1, BlockCacheAssumption, Zenon
    <2> QED BY <1>3, <2>2, Zenon DEF Lock, Step, locals
  <1>4. 0 \in Chains
    BY ChainFacts
  <1>5. ASSUME FetchHit(t) PROVE Types'
    <2>1. items[ci[t]][Earliest(Hits(t))].payload \in Data
      <3>1. items[ci[t]] \in Seq(Slot)
        BY Zenon
      <3>2. Len(items[ci[t]]) \in Nat /\ \A i \in 1..Len(items[ci[t]]) : items[ci[t]][i] \in Slot
        BY <3>1
      <3>3. Earliest(Hits(t)) \in Hits(t)
        BY <1>5, <3>2, EarliestIn, Zenon DEF Hits, FetchHit
      <3>4. items[ci[t]][Earliest(Hits(t))] \in Slot
        BY <3>2, <3>3, Zenon DEF Hits
      <3> QED BY <3>4, Zenon DEF Slot
    <2> QED BY <1>4, <1>5, <2>1, Zenon DEF FetchHit, Return, Step, Unlock
  <1>6. ASSUME FetchMiss(t) PROVE Types'
    BY <1>6, Zenon DEF FetchMiss, Step, locals
  <1>7. ASSUME ReadFault(t) \/ ReadCount(t) PROVE Types'
    <2>1. CASE ReadFault(t)
      BY <2>1, Zenon DEF ReadFault, Step, locals
    <2>2. CASE ReadCount(t)
      <3>1. errs' \in Nat
        BY <2>2, Counted DEF ReadCount
      <3> QED BY <2>2, <3>1, Zenon DEF ReadCount, Step, locals
    <2> QED BY <1>7, <2>1, <2>2
  <1>8. ASSUME ReadBlock(t) PROVE Types'
    <2>1. key[t] \in Keys
      <3>1. op[t] = "fetch"
        BY <1>8, Zenon DEF ReadBlock, Step, CacheInv, CallInv, CallAt
      <3> QED BY <3>1, Zenon DEF CacheInv, CallInv, CallAt
    <2> QED BY <1>8, <2>1, Zenon DEF ReadBlock, Step, locals
  <1>9. ASSUME FetchInsert(t) PROVE Types'
    <2>1. items' \in [Chains -> Seq(Slot)]
      BY <1>9, InsertSets, Zenon DEF Sets
    <2> QED BY <1>4, <1>9, <2>1, Zenon DEF FetchInsert, Return, Step, Unlock
  <1>10. ASSUME Put(t) PROVE Types'
    <2>1. items' \in [Chains -> Seq(Slot)]
      BY <1>10, PutSets, Zenon DEF Sets
    <2>2. Fill \in Data
      BY DEF Data
    <2> QED BY <1>4, <1>10, <2>1, <2>2, Zenon DEF Put, Return, Step, Unlock
  <1>11. ASSUME SyncEnter(t) \/ SyncFault(t) PROVE Types'
    BY <1>11, Zenon DEF SyncEnter, SyncFault, Step, locals
  <1>12. ASSUME SyncWrite(t) \/ SyncCount(t) PROVE Types'
    <2>1. PICK ok : WriteBack(t, ok)
      BY <1>12, Zenon DEF SyncWrite, SyncCount
    <2>2. PICK s : WritesBack(t, s)
      BY <2>1, WriteSets, Zenon
    <2>3. items' \in [Chains -> Seq(Slot)] /\ s.id \in Keys /\ s.payload \in Data
      BY <2>2, Zenon DEF WritesBack, Sets, Slot
    <2>4. blocks' \in [Keys -> Data]
      BY <2>2, <2>3, Zenon DEF WritesBack
    <2>5. errs' \in Nat
      BY <1>12, Counted, Zenon DEF SyncWrite, SyncCount
    <2>6. pc' = [pc EXCEPT ![t] = "sync"]
      BY <1>12, Zenon DEF SyncWrite, SyncCount, Step
    <2> QED BY <2>1, <2>3, <2>4, <2>5, <2>6, Zenon DEF WriteBack, locals
  \* NextChain keeps the types of what it changes.
  <1>13. ASSUME NextChain(t), pc[t] \in {"sync", "evict_cold"}
         PROVE  /\ lk' \in [Chains -> BOOLEAN]
                /\ pc' \in [Threads -> {"idle", "enter", "lock", "fetch", "read", "read_err", "insert",
                                        "put", "sync", "sync_err", "invalidate", "evict_cold"}]
                /\ op' \in [Threads -> Ops \cup {None}]
                /\ key' \in [Threads -> Keys \cup {NoKey}]
                /\ ci' \in [Threads -> Chains]
    <2>1. ci[t] + 1 < Width => ci[t] + 1 \in Chains
      BY ChainFacts, Zenon
    <2> QED BY <1>4, <1>13, <2>1, Zenon DEF NextChain, Return, Step, Unlock
  <1>14. ASSUME SyncNext(t) PROVE Types'
    BY <1>13, <1>14, Zenon DEF SyncNext
  <1>15. ASSUME NEW D \in SUBSET InChain(t), Discard(t, D)
         PROVE  items' \in [Chains -> Seq(Slot)] /\ latest' \in [Keys -> Data]
    <2>1. items' \in [Chains -> Seq(Slot)]
      BY <1>15, DiscardHolds, Zenon
    <2>2. latest' \in [Keys -> Data]
      BY <1>15, Zenon DEF Discard
    <2> QED BY <2>1, <2>2
  <1>16. ASSUME Invalidate(t) PROVE Types'
    <2>1. items' \in [Chains -> Seq(Slot)] /\ latest' \in [Keys -> Data]
      <3>1. {s \in InChain(t) : s.id = key[t]} \in SUBSET InChain(t)
        BY Zenon
      <3> QED BY <1>15, <1>16, <3>1, Zenon DEF Invalidate
    <2> QED BY <1>4, <1>16, <2>1, Zenon DEF Invalidate, Return, Step, Unlock
  <1>17. ASSUME NEW cold, EvictCold(t, cold) PROVE Types'
    <2>1. items' \in [Chains -> Seq(Slot)] /\ latest' \in [Keys -> Data]
      <3>1. {s \in InChain(t) : s.modified /\ s.id \in cold} \in SUBSET InChain(t)
        BY Zenon
      <3> QED BY <1>15, <1>17, <3>1, Zenon DEF EvictCold
    <2> QED BY <1>13, <1>17, <2>1, Zenon DEF EvictCold
  <1> HIDE <1>1 DEF Types
  <1> QED BY <1>2, <1>3, <1>5, <1>6, <1>7, <1>8, <1>9, <1>10, <1>11, <1>12, <1>14, <1>16, <1>17,
             Zenon DEF Progress

LEMMA LockStep ==
    ASSUME CacheInv, NEW t \in Threads, CallStep(t) \/ Progress(t)
    PROVE  LockInv'
  <1>1. Types /\ LockInv /\ Others(t)
    BY Moved DEF CacheInv
  <1>2. /\ pc \in [Threads -> {"idle", "enter", "lock", "fetch", "read", "read_err", "insert",
                               "put", "sync", "sync_err", "invalidate", "evict_cold"}]
        /\ ci \in [Threads -> Chains] /\ lk \in [Chains -> BOOLEAN]
    BY <1>1, Zenon DEF Types
  <1>3. \A u \in Threads \ {t} : (Working(u)' <=> Working(u)) /\ ci'[u] = ci[u]
    BY <1>1, Zenon DEF Others, Working
  \* t is outside after the step, and no lock is touched.
  <1>4. ASSUME ~Working(t)', lk' = lk PROVE LockInv'
    BY <1>1, <1>3, <1>4, Zenon DEF LockInv
  \* t stays inside its chain.
  <1>5. ASSUME Working(t), lk' = lk, ci' = ci PROVE LockInv'
    BY <1>1, <1>3, <1>5, Zenon DEF LockInv
  \* t leaves its chain.
  <1>6. ASSUME Working(t), ~Working(t)', Unlock(t) PROVE LockInv'
    <2>1. \A c \in Chains \ {ci[t]} : lk'[c] = lk[c]
      BY <1>2, <1>6, Zenon DEF Unlock
    <2>2. ASSUME NEW u \in Threads, Working(u)' PROVE u # t /\ Working(u) /\ ci'[u] = ci[u] /\ lk'[ci'[u]]
      <3>1. u # t /\ Working(u) /\ ci'[u] = ci[u]
        BY <1>3, <1>6, <2>2, Zenon
      <3>2. ci[u] \in Chains \ {ci[t]} /\ lk[ci[u]]
        BY <1>1, <1>2, <1>6, <3>1, Zenon DEF LockInv
      <3> QED BY <2>1, <3>1, <3>2, Zenon
    <2> QED BY <1>1, <2>2, Zenon DEF LockInv
  <1>7. ASSUME NEW from, NEW to, Step(t, from, to) PROVE pc[t] = from /\ pc'[t] = to
    BY <1>2, <1>7, Zenon DEF Step
  <1>8. ASSUME CallStep(t) PROVE LockInv'
    <2>1. PICK o, k, v : Call(t, o, k, v)
      BY <1>8, Arguments, Zenon
    <2>2. lk' = lk /\ pc'[t] \in {"enter", "lock"}
      BY <1>7, <2>1 DEF Call
    <2> QED BY <1>4, <2>2, Zenon DEF Working
  <1>9. ASSUME Lock(t) PROVE LockInv'
    <2>1. pc[t] = "lock" /\ ci' = ci /\ ~lk[ci[t]] /\ lk' = [lk EXCEPT ![ci[t]] = TRUE]
      BY <1>9, Zenon DEF Lock, Step, locals, ChainFree
    <2>2. lk'[ci[t]] = TRUE /\ \A c \in Chains : lk[c] => lk'[c]
      BY <1>2, <2>1, Zenon
    <2>3. \A u \in Threads \ {t} : Working(u) => lk[ci[u]] /\ ci[u] # ci[t] /\ ci[u] \in Chains
      BY <1>1, <1>2, <2>1, Zenon DEF LockInv
    <2> QED BY <1>1, <1>3, <2>1, <2>2, <2>3, Zenon DEF LockInv
  <1>10. ASSUME FetchHit(t) PROVE LockInv'
    BY <1>6, <1>7, <1>10 DEF FetchHit, Return, Working
  <1>11. ASSUME FetchMiss(t) \/ ReadFault(t) \/ ReadCount(t) \/ ReadBlock(t) PROVE LockInv'
    <2>1. pc[t] \in {"fetch", "read", "read_err"} /\ pc'[t] \in {"read", "read_err", "insert"}
      BY <1>7, <1>11, Zenon DEF FetchMiss, ReadFault, ReadCount, ReadBlock
    <2>2. lk' = lk /\ ci' = ci
      BY <1>11, Zenon DEF FetchMiss, ReadFault, ReadCount, ReadBlock, locals
    <2> QED BY <1>5, <2>1, <2>2 DEF Working
  <1>12. ASSUME FetchInsert(t) PROVE LockInv'
    BY <1>6, <1>7, <1>12 DEF FetchInsert, Return, Working
  <1>13. ASSUME Put(t) PROVE LockInv'
    <2>1. Step(t, "put", "idle") /\ Unlock(t)
      BY <1>13, Zenon DEF Put, Return
    <2>2. pc[t] = "put" /\ pc'[t] = "idle"
      BY <1>7, <2>1, Zenon
    <2>3. Working(t) /\ ~Working(t)'
      BY <2>2 DEF Working
    <2> QED BY <1>6, <2>1, <2>3, Zenon
  <1>14. ASSUME SyncEnter(t) PROVE LockInv'
    BY <1>4, <1>7, <1>14 DEF SyncEnter, Working
  <1>15. ASSUME SyncWrite(t) \/ SyncFault(t) \/ SyncCount(t) PROVE LockInv'
    <2>1. pc[t] \in {"sync", "sync_err"}
      BY <1>7, <1>15, Zenon DEF SyncWrite, SyncFault, SyncCount
    <2>2. lk' = lk /\ ci' = ci
      BY <1>15, Zenon DEF SyncWrite, SyncFault, SyncCount, WriteBack, locals
    <2> QED BY <1>5, <2>1, <2>2 DEF Working
  <1>16. ASSUME NextChain(t), pc[t] \in {"sync", "evict_cold"} PROVE LockInv'
    BY <1>6, <1>7, <1>16 DEF NextChain, Return, Working
  <1>17. ASSUME SyncNext(t) PROVE LockInv'
    BY <1>16, <1>17 DEF SyncNext
  <1>18. ASSUME Invalidate(t) PROVE LockInv'
    BY <1>6, <1>7, <1>18 DEF Invalidate, Return, Working
  <1>19. ASSUME NEW cold, EvictCold(t, cold) PROVE LockInv'
    BY <1>16, <1>19 DEF EvictCold
  <1> QED BY <1>8, <1>9, <1>10, <1>11, <1>12, <1>13, <1>14, <1>15, <1>17, <1>18, <1>19, Zenon
          DEF Progress

LEMMA CallsStep ==
    ASSUME CacheInv, NEW t \in Threads, CallStep(t) \/ Progress(t)
    PROVE  CallInv'
  <1>1. Types /\ CallAt(t) /\ Others(t)
    BY Moved DEF CacheInv, CallInv
  <1>2. /\ pc \in [Threads -> {"idle", "enter", "lock", "fetch", "read", "read_err", "insert",
                               "put", "sync", "sync_err", "invalidate", "evict_cold"}]
        /\ op \in [Threads -> Ops \cup {None}] /\ op[t] \in Ops \cup {None}
        /\ key \in [Threads -> Keys \cup {NoKey}] /\ ci \in [Threads -> Chains]
    BY <1>1, Zenon DEF Types
  <1>3. ASSUME CallAt(t)' PROVE CallInv'
    <2> SUFFICES ASSUME NEW u \in Threads \ {t} PROVE CallAt(u)'
      BY <1>3, Zenon DEF CallInv
    <2>1. CallAt(u)
      BY DEF CacheInv, CallInv
    <2> QED BY <1>1, <2>1, Zenon DEF Others, CallAt, Home
  <1>4. ASSUME NEW from, NEW to, Step(t, from, to) PROVE pc[t] = from /\ pc'[t] = to
    BY <1>2, <1>4, Zenon DEF Step
  <1>5. ASSUME NEW from, Return(t, from) PROVE CallAt(t)'
    <2>1. pc'[t] = "idle" /\ op'[t] = None
      BY <1>2, <1>4, <1>5, Zenon DEF Return
    <2> QED BY <2>1 DEF CallAt, None
  <1>6. ASSUME CallStep(t) PROVE CallAt(t)'
    <2>1. PICK o \in Ops, k \in Keys \cup {NoKey}, v \in Data :
               /\ Call(t, o, k, v)
               /\ o \in {"fetch", "put"} => k \in Keys /\ FirstChain(o, k) = Home(k)
      BY <1>6, Arguments, Zenon
    <2>2. op'[t] = o /\ key'[t] = k /\ ci'[t] = FirstChain(o, k)
      BY <1>2, <2>1, Zenon DEF Call
    <2>3. pc'[t] \in {"enter", "lock"}
      BY <1>4, <2>1 DEF Call
    <2> QED BY <2>1, <2>2, <2>3 DEF CallAt, Home
  <1>7. ASSUME Lock(t) PROVE CallAt(t)'
    <2>1. pc[t] = "lock" /\ pc'[t] = op[t] /\ op' = op /\ key' = key /\ ci' = ci
      BY <1>4, <1>7, Zenon DEF Lock, locals
    <2>2. op[t] \in {"fetch", "put", "sync", "invalidate", "evict_cold"}
      BY <1>1, <2>1, BlockCacheAssumption, Zenon DEF CallAt
    <2> QED BY <1>1, <2>1, <2>2 DEF CallAt, Home
  <1>8. ASSUME FetchMiss(t) \/ ReadFault(t) \/ ReadCount(t) \/ ReadBlock(t) PROVE CallAt(t)'
    <2>1. /\ pc[t] \in {"fetch", "read", "read_err"} /\ pc'[t] \in {"read", "read_err", "insert"}
          /\ op' = op /\ key' = key /\ ci' = ci
      BY <1>4, <1>8 DEF FetchMiss, ReadFault, ReadCount, ReadBlock, locals
    <2> QED BY <1>1, <2>1 DEF CallAt, Home
  <1>9. ASSUME SyncEnter(t) PROVE CallAt(t)'
    <2>1. pc[t] = "enter" /\ pc'[t] = "lock" /\ op' = op /\ key' = key /\ ci' = ci
      BY <1>4, <1>9, Zenon DEF SyncEnter, locals
    <2> QED BY <1>1, <2>1 DEF CallAt, Home
  <1>10. ASSUME SyncWrite(t) \/ SyncFault(t) \/ SyncCount(t) PROVE CallAt(t)'
    <2>1. pc[t] \in {"sync", "sync_err"} /\ pc'[t] \in {"sync", "sync_err"}
      BY <1>4, <1>10, Zenon DEF SyncWrite, SyncFault, SyncCount
    <2>2. op' = op
      BY <1>10, Zenon DEF SyncWrite, SyncFault, SyncCount, WriteBack, locals
    <2> QED BY <1>1, <2>1, <2>2 DEF CallAt
  <1>11. ASSUME NextChain(t), pc[t] \in {"sync", "evict_cold"} PROVE CallAt(t)'
    <2>1. op[t] \in {"sync", "evict_cold"}
      BY <1>1, <1>11 DEF CallAt
    <2>2. CASE ci[t] + 1 < Width
      <3>1. pc'[t] = "lock" /\ op' = op
        BY <1>4, <1>11, <2>2, Zenon DEF NextChain
      <3>2. op[t] \in Ops
        BY <1>2, <2>1 DEF None
      <3> QED BY <2>1, <3>1, <3>2 DEF CallAt
    <2>3. CASE ~(ci[t] + 1 < Width)
      BY <1>5, <1>11, <2>3, Zenon DEF NextChain
    <2> QED BY <2>2, <2>3
  <1>12. ASSUME NEW cold, EvictCold(t, cold) PROVE CallAt(t)'
    BY <1>11, <1>12 DEF EvictCold
  <1>13. ASSUME SyncNext(t) PROVE CallAt(t)'
    BY <1>11, <1>13 DEF SyncNext
  <1>14. ASSUME FetchHit(t) \/ FetchInsert(t) \/ Put(t) \/ Invalidate(t) PROVE CallAt(t)'
    BY <1>5, <1>14, Zenon DEF FetchHit, FetchInsert, Put, Invalidate
  <1> QED BY <1>3, <1>6, <1>7, <1>8, <1>9, <1>10, <1>12, <1>13, <1>14, Zenon DEF Progress

LEMMA InitInv == Init => CacheInv
  <1> SUFFICES ASSUME Init PROVE CacheInv
    OBVIOUS
  <1>1. Types
    <2>1. 0 \in Chains /\ Fill \in Data /\ errs \in Nat
      BY ChainFacts, BlockCacheAssumption DEF Init, Data
    <2> QED BY <2>1, EmptyList, Zenon DEF Init, Types
  <1>2. \A t \in Threads : pc[t] = "idle" /\ op[t] = "none"
    BY Zenon DEF Init, None
  <1>3. CallInv /\ LockInv /\ MissInv
    BY <1>2 DEF CallInv, CallAt, LockInv, MissInv, Working
  <1>4. \A c \in Chains : ~\E i \in 1..Len(items[c]) : TRUE
    <2>1. \A c \in Chains : items[c] = <<>>
      BY Zenon DEF Init
    <2> QED BY <2>1
  <1>5. SlotInv /\ WrittenUnlessFault /\ \A x : ~Holds(x)
    BY <1>4, Zenon DEF SlotInv, WrittenUnlessFault, Holds
  <1>6. LatestInv
    BY <1>5, Zenon DEF LatestInv, Init
  <1> QED BY <1>1, <1>3, <1>5, <1>6 DEF CacheInv

LEMMA InvStep == CacheInv /\ [Next]_vars => CacheInv'
  <1> SUFFICES ASSUME CacheInv, [Next]_vars PROVE CacheInv'
    OBVIOUS
  <1>1. ASSUME NEW t \in Threads, CallStep(t) \/ Progress(t) PROVE CacheInv'
    <2>1. Types' /\ CallInv' /\ LockInv' /\ DataInv'
      BY <1>1, TypesStep, CallsStep, LockStep, DataStep, Zenon
    <2> QED BY <2>1, Zenon DEF CacheInv, DataInv
  <1>2. ASSUME UNCHANGED vars PROVE CacheInv'
    <2>1. /\ UNCHANGED <<items, lk, blocks, errs, pc, val, latest, lost>>
          /\ UNCHANGED <<op, key, ci>>
      BY <1>2, Zenon DEF vars, locals
    <2>2. Types'
      BY <2>1, Zenon DEF CacheInv, Types
    <2>3. CallInv' /\ LockInv'
      BY <2>1, Zenon DEF CacheInv, CallInv, CallAt, LockInv, Working, Home
    <2>4. MissInv'
      BY <2>1, Zenon DEF CacheInv, MissInv, Cached, Holds
    <2>5. DataInv'
      BY <2>1, <2>4, QuietStep, Zenon
    <2> QED BY <2>2, <2>3, <2>5, Zenon DEF CacheInv, DataInv
  <1> QED BY <1>1, <1>2, Zenon DEF Next

LEMMA InvHolds == Spec => []CacheInv
  BY InitInv, InvStep, PTL DEF Spec

--------------------------------------------------------------------------------
(* What the cache promises. *)

\* A block has one slot in the whole cache, also when fetches that miss read the
\* disk while puts and write-backs go on: each works under the spin lock of the
\* one chain its block hashes to.
THEOREM OneSlot == Spec => []OneSlotPerBlock
  <1>1. CacheInv => OneSlotPerBlock
    <2> SUFFICES ASSUME CacheInv, NEW c \in Chains, NEW d \in Chains, NEW i \in 1..Len(items[c]),
                        NEW j \in 1..Len(items[d]), items[c][i].id = items[d][j].id
                 PROVE  c = d /\ i = j
      BY Zenon DEF OneSlotPerBlock
    <2>1. SlotInv
      BY DEF CacheInv
    <2>2. Home(items[c][i].id) = c /\ Home(items[d][j].id) = d
      BY <2>1, Zenon DEF SlotInv
    <2>3. c = d
      BY <2>2, Zenon
    <2> QED BY <2>1, <2>3, Zenon DEF SlotInv
  <1> QED BY <1>1, InvHolds, PTL

\* A clean slot is on the disk, unless its own last write-back hit a fault: the
\* mark is cleared by the write-back alone, and what fetch inserts it has read.
THEOREM CleanIsWritten == Spec => []WrittenUnlessFault
  <1>1. CacheInv => WrittenUnlessFault
    BY DEF CacheInv
  <1> QED BY <1>1, InvHolds, PTL

\* fetch returns what was last put in its block and not discarded since, whether
\* it finds it in its chain or reads it from the disk.
THEOREM FetchCurrent == Spec => FetchSeesLastPut
  <1> DEFINE Current == \A t \in Threads :
                            pc[t] \in {"fetch", "insert"} /\ pc'[t] = "idle" =>
                                val'[t] = latest[key[t]]
  <1>1. ASSUME CacheInv, Next PROVE Current
    <2> SUFFICES ASSUME NEW t \in Threads, pc[t] \in {"fetch", "insert"}, pc'[t] = "idle"
                 PROVE  val'[t] = latest[key[t]]
      OBVIOUS
    <2>1. Types /\ SlotInv /\ LatestInv /\ CallAt(t)
      BY <1>1 DEF CacheInv, CallInv
    <2>2. CallStep(t) \/ Progress(t)
      <3>1. PICK u \in Threads : CallStep(u) \/ Progress(u)
        BY <1>1, Zenon DEF Next
      <3>2. u = t
        BY <2>1, <3>1, Moved DEF Others
      <3> QED BY <3>1, <3>2
    <2>3. op[t] = "fetch"
      BY <2>1 DEF CallAt
    <2>4. key[t] \in Keys /\ ci[t] \in Chains
      BY <2>1, <2>3, Zenon DEF CallAt, Types
    <2>5. FetchHit(t) \/ FetchInsert(t)
      <3>1. pc \in [Threads -> {"idle", "enter", "lock", "fetch", "read", "read_err", "insert",
                                "put", "sync", "sync_err", "invalidate", "evict_cold"}]
        BY <2>1, Zenon DEF Types
      <3>2. ASSUME NEW from, NEW to, Step(t, from, to)
            PROVE  from \in {"fetch", "insert"} /\ to = "idle"
        BY <3>1, <3>2, Zenon DEF Step
      <3>3. ~CallStep(t)
        BY <3>2 DEF CallStep, Call
      <3>4. /\ ~Lock(t) /\ ~FetchMiss(t) /\ ~ReadFault(t) /\ ~ReadCount(t) /\ ~ReadBlock(t)
            /\ ~SyncEnter(t) /\ ~SyncWrite(t) /\ ~SyncFault(t) /\ ~SyncCount(t)
        <4>1. /\ \A to : ~Step(t, "lock", to)
              /\ ~Step(t, "fetch", "read")
              /\ \A to : ~Step(t, "read", to)
              /\ ~Step(t, "read_err", "read")
              /\ \A to : ~Step(t, "enter", to)
              /\ \A to : ~Step(t, "sync", to)
              /\ ~Step(t, "sync_err", "sync")
          BY <3>2
        <4> QED BY <4>1, Zenon DEF Lock, FetchMiss, ReadFault, ReadCount, ReadBlock, SyncEnter,
                                   SyncWrite, SyncFault, SyncCount
      <3>5. ~Put(t) /\ ~Invalidate(t)
        <4>1. ~Step(t, "put", "idle") /\ ~Step(t, "invalidate", "idle")
          BY <3>2
        <4> QED BY <4>1, Zenon DEF Put, Invalidate, Return
      <3>6. ~SyncNext(t) /\ \A cold : ~EvictCold(t, cold)
        BY DEF SyncNext, EvictCold
      <3> QED BY <2>2, <3>3, <3>4, <3>5, <3>6, Zenon DEF Progress
    <2>6. CASE FetchHit(t)
      <3>1. PICK p : p = Earliest(Hits(t))
        BY Zenon
      <3>2. p \in 1..Len(items[ci[t]]) /\ items[ci[t]][p].id = key[t]
        <4>1. items[ci[t]] \in Seq(Slot)
          BY <2>1, <2>4, Zenon DEF Types
        <4>2. Len(items[ci[t]]) \in Nat
          BY <4>1
        <4>3. p \in Hits(t)
          BY <2>6, <3>1, <4>2, EarliestIn, Zenon DEF Hits, FetchHit
        <4> QED BY <4>3, Zenon DEF Hits
      <3>3. Holds(items[ci[t]][p])
        BY <2>4, <3>2, Zenon DEF Holds
      <3>4. items[ci[t]][p].payload = latest[key[t]]
        BY <2>1, <3>2, <3>3, Unique, Zenon DEF LatestInv
      <3> QED BY <2>1, <2>6, <3>1, <3>4, Zenon DEF FetchHit, Types
    <2>7. CASE FetchInsert(t)
      <3>1. val' = val /\ pc[t] = "insert"
        BY <2>7, Zenon DEF FetchInsert, Return, Step
      <3>2. ~Cached(key[t]) /\ val[t] = blocks[key[t]]
        BY <1>1, <3>1, Zenon DEF CacheInv, MissInv
      <3> QED BY <2>1, <2>4, <3>1, <3>2, Zenon DEF LatestInv
    <2> QED BY <2>5, <2>6, <2>7
  <1>2. CacheInv /\ [Next]_vars => [Current]_vars
    BY <1>1
  <1> QED BY <1>2, InvHolds, PTL DEF FetchSeesLastPut, Spec
================================================================================
