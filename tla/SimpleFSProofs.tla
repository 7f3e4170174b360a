----------------------------- MODULE SimpleFSProofs -----------------------------
(***************************************************************************)
(* For any callers, paths, buffers, block size and bounds: no two parts of *)
(* files of SimpleFS share a disk block, a name in a directory leads to an *)
(* inode of its own, and read_data returns what write_data put.            *)
(***************************************************************************)
EXTENDS SimpleFS, WellFoundedInduction, TLAPS

Labels == {"idle", "alloc", "add", "insert", "remove", "drop", "truncate"}

\* An inode has four fields, and its blocks are numbers that alloc_block gave out.
IsInode(f) ==
    /\ f \in [type : {f.type}, blocks : Seq(Nat), size : {f.size}, children : {f.children}]
    /\ \A x \in 1..Len(f.blocks) : f.blocks[x] < next_blk

TableInv ==
    /\ next_blk \in Nat
    /\ inodes = [i \in DOMAIN inodes |-> inodes[i]]
    /\ \A i \in DOMAIN inodes : IsInode(inodes[i])

\* The calls under way.
CallInv ==
    /\ pc \in [Threads -> Labels]
    /\ call = [t \in Threads |-> call[t]]
    /\ \A t \in Threads : call[t] \in [op : {call[t].op}, dir : {call[t].dir},
                                       name : {call[t].name}, ino : {call[t].ino}]

\* Some directory has a name for inode i.
Named(i) ==
    \E d \in DOMAIN inodes : \E x \in DOMAIN inodes[d].children : inodes[d].children[x] = i

\* Inode numbers come from alloc_ino.  One that is not yet in a directory has no
\* name and belongs to one call; one that unlink is about to drop has none any
\* more, and no call that is still to add a name has it.
InoInv ==
    /\ next_ino \in Nat
    /\ \A d \in DOMAIN inodes : \A x \in DOMAIN inodes[d].children :
          inodes[d].children[x] \in Nat /\ inodes[d].children[x] < next_ino
    /\ \A t \in Threads : pc[t] \in {"add", "drop"} =>
          call[t].ino \in Nat /\ call[t].ino < next_ino /\ ~Named(call[t].ino)
    /\ \A t, u \in Threads :
          pc[t] = "add" /\ pc[u] \in {"add", "drop"} /\ call[t].ino = call[u].ino => t = u

\* The inductive invariant.
FSInv == TableInv /\ BlocksOwned /\ CallInv /\ InoInv /\ NamesLead

--------------------------------------------------------------------------------
(* Positions, blocks and the parts of a block that an access touches. *)

LEMMA MulLess ==
    ASSUME NEW q \in Int, NEW d \in Int, q < d
    PROVE  /\ q * BLOCK_SZ \in Int /\ d * BLOCK_SZ \in Int
           /\ q * BLOCK_SZ + BLOCK_SZ <= d * BLOCK_SZ
  <1>0. BLOCK_SZ \in Nat
    BY SimpleFSAssumption
  <1>1. (d - q - 1) * BLOCK_SZ >= 0
    BY <1>0
  <1>2. (d - q - 1) * BLOCK_SZ = d * BLOCK_SZ - q * BLOCK_SZ - BLOCK_SZ
    BY <1>0
  <1> QED BY <1>0, <1>1, <1>2

\* Block k holds the positions from k * BLOCK_SZ up to the next multiple.
LEMMA BlockOf ==
    ASSUME NEW p \in Nat
    PROVE  /\ p \div BLOCK_SZ \in Nat
           /\ (p \div BLOCK_SZ) * BLOCK_SZ \in Nat
           /\ p % BLOCK_SZ \in 0..(BLOCK_SZ - 1)
           /\ p = (p \div BLOCK_SZ) * BLOCK_SZ + (p % BLOCK_SZ)
  <1>1. BLOCK_SZ \in Nat \ {0}
    BY SimpleFSAssumption
  <1> QED BY <1>1

LEMMA InBlock ==
    ASSUME NEW p \in Nat, NEW k \in Nat,
           k * BLOCK_SZ <= p, p < k * BLOCK_SZ + BLOCK_SZ
    PROVE  p \div BLOCK_SZ = k /\ p % BLOCK_SZ = p - k * BLOCK_SZ
  <1> DEFINE d == p \div BLOCK_SZ
             r == p % BLOCK_SZ
  <1>0. BLOCK_SZ \in Nat /\ k * BLOCK_SZ \in Nat
    BY SimpleFSAssumption
  <1>1. d \in Nat /\ d * BLOCK_SZ \in Nat /\ r \in 0..(BLOCK_SZ - 1) /\ p = d * BLOCK_SZ + r
    BY BlockOf, Zenon
  <1> HIDE DEF d, r
  <1>2. CASE k < d
    BY <1>0, <1>1, <1>2, MulLess
  <1>3. CASE d < k
    BY <1>0, <1>1, <1>3, MulLess
  <1>4. d = k /\ r = p - k * BLOCK_SZ
    BY <1>0, <1>1, <1>2, <1>3
  <1> QED BY <1>4 DEF d, r

LEMMA BlockOrder ==
    ASSUME NEW p \in Nat, NEW q \in Nat, p <= q
    PROVE  p \div BLOCK_SZ <= q \div BLOCK_SZ
  <1> DEFINE d == p \div BLOCK_SZ
             e == q \div BLOCK_SZ
  <1>0. BLOCK_SZ \in Nat
    BY SimpleFSAssumption
  <1>1. d \in Nat /\ d * BLOCK_SZ \in Nat /\ d * BLOCK_SZ <= p
    BY <1>0, BlockOf
  <1>2. e \in Nat /\ e * BLOCK_SZ \in Nat /\ q < e * BLOCK_SZ + BLOCK_SZ
    <2>1. q % BLOCK_SZ \in 0..(BLOCK_SZ - 1) /\ q = e * BLOCK_SZ + (q % BLOCK_SZ)
          /\ e \in Nat /\ e * BLOCK_SZ \in Nat
      BY BlockOf, Zenon
    <2> QED BY <1>0, <2>1
  <1> HIDE DEF d, e
  <1>3. ~(e < d)
    BY <1>0, <1>1, <1>2, MulLess
  <1> QED BY <1>1, <1>2, <1>3 DEF d, e

\* truncate keeps the block of every position below the new size.
LEMMA CeilCovers ==
    ASSUME NEW size \in Nat, NEW p \in Nat, p < size
    PROVE  CeilDiv(size, BLOCK_SZ) \in Nat /\ p \div BLOCK_SZ < CeilDiv(size, BLOCK_SZ)
  <1>0. BLOCK_SZ \in Nat \ {0}
    BY SimpleFSAssumption
  <1> DEFINE s == size + BLOCK_SZ - 1
             d == p \div BLOCK_SZ
             e == s \div BLOCK_SZ
  <1>1. s \in Nat /\ p + BLOCK_SZ <= s
    BY <1>0
  <1>2. d \in Nat /\ d * BLOCK_SZ \in Nat /\ d * BLOCK_SZ <= p
    BY <1>0, BlockOf
  <1>3. e \in Nat /\ e * BLOCK_SZ \in Nat /\ s < e * BLOCK_SZ + BLOCK_SZ
    <2> HIDE DEF s
    <2>1. s % BLOCK_SZ \in 0..(BLOCK_SZ - 1) /\ s = e * BLOCK_SZ + (s % BLOCK_SZ)
          /\ e \in Nat /\ e * BLOCK_SZ \in Nat
      BY <1>1, BlockOf, Zenon
    <2> QED BY <1>0, <1>1, <2>1
  <1>4. CeilDiv(size, BLOCK_SZ) = e
    BY DEF CeilDiv
  <1> HIDE DEF s, d, e
  <1>5. e <= d => e * BLOCK_SZ <= d * BLOCK_SZ
    BY <1>0, <1>2, <1>3, MulLess
  <1>6. d < e
    BY <1>0, <1>1, <1>2, <1>3, <1>5
  <1> QED BY <1>3, <1>4, <1>6 DEF d

\* The first and the last block of an access, and where it begins and ends there.
LEMMA AccessEnds ==
    ASSUME NEW offset \in Nat, NEW n \in Nat \ {0}
    PROVE  /\ StartBlk(offset) \in Nat /\ EndBlk(offset, n) \in Nat
           /\ StartBlk(offset) <= EndBlk(offset, n)
           /\ StartBlk(offset) * BLOCK_SZ \in Nat /\ EndBlk(offset, n) * BLOCK_SZ \in Nat
           /\ StartBlk(offset) * BLOCK_SZ <= offset
           /\ offset < StartBlk(offset) * BLOCK_SZ + BLOCK_SZ
           /\ EndBlk(offset, n) * BLOCK_SZ < offset + n
           /\ offset + n <= EndBlk(offset, n) * BLOCK_SZ + BLOCK_SZ
           /\ offset % BLOCK_SZ = offset - StartBlk(offset) * BLOCK_SZ
           /\ ((offset + n - 1) % BLOCK_SZ) + 1 = offset + n - EndBlk(offset, n) * BLOCK_SZ
  <1> DEFINE last == offset + n - 1
             s == offset \div BLOCK_SZ
             e == last \div BLOCK_SZ
  <1>0. BLOCK_SZ \in Nat
    BY SimpleFSAssumption
  <1>1. last \in Nat /\ offset <= last
    OBVIOUS
  <1>2. StartBlk(offset) = s /\ EndBlk(offset, n) = e
    BY DEF StartBlk, EndBlk
  <1>3. /\ s \in Nat /\ s * BLOCK_SZ \in Nat
        /\ offset % BLOCK_SZ \in 0..(BLOCK_SZ - 1) /\ offset = s * BLOCK_SZ + (offset % BLOCK_SZ)
    BY BlockOf, Zenon
  <1>4. /\ e \in Nat /\ e * BLOCK_SZ \in Nat
        /\ last % BLOCK_SZ \in 0..(BLOCK_SZ - 1) /\ last = e * BLOCK_SZ + (last % BLOCK_SZ)
    <2> HIDE DEF last
    <2> QED BY <1>1, BlockOf, Zenon
  <1>5. s <= e
    <2> HIDE DEF last
    <2> QED BY <1>1, BlockOrder
  <1> HIDE DEF s, e
  <1>6. /\ s * BLOCK_SZ <= offset /\ offset < s * BLOCK_SZ + BLOCK_SZ
        /\ offset % BLOCK_SZ = offset - s * BLOCK_SZ
    BY <1>0, <1>3
  <1>7. /\ e * BLOCK_SZ < offset + n /\ offset + n <= e * BLOCK_SZ + BLOCK_SZ
        /\ (last % BLOCK_SZ) + 1 = offset + n - e * BLOCK_SZ
    <2> DEFINE r == last % BLOCK_SZ
               w == e * BLOCK_SZ
    <2>1. r \in 0..(BLOCK_SZ - 1) /\ w \in Nat /\ last = w + r
      BY <1>4, Zenon
    <2> HIDE DEF r, w
    <2>2. offset + n = w + r + 1
      BY <2>1
    <2>3. w < offset + n /\ offset + n <= w + BLOCK_SZ /\ r + 1 = offset + n - w
      BY <1>0, <2>1, <2>2
    <2> QED BY <2>3 DEF r, w
  <1> QED BY <1>2, <1>3, <1>4, <1>5, <1>6, <1>7, Zenon

\* The part of block k that the access touches lies inside the block.
LEMMA PartOfBlock ==
    ASSUME NEW offset \in Nat, NEW n \in Nat \ {0},
           NEW k \in StartBlk(offset) .. EndBlk(offset, n)
    PROVE  /\ k \in Nat /\ k * BLOCK_SZ \in Nat
           /\ BlkOff(k, offset) \in Nat /\ BlkEnd(k, offset, n) \in Nat
           /\ BlkOff(k, offset) < BlkEnd(k, offset, n) /\ BlkEnd(k, offset, n) <= BLOCK_SZ
           /\ k = StartBlk(offset) => k * BLOCK_SZ + BlkOff(k, offset) = offset
           /\ k # StartBlk(offset) => BlkOff(k, offset) = 0
           /\ k = EndBlk(offset, n) => k * BLOCK_SZ + BlkEnd(k, offset, n) = offset + n
           /\ k # EndBlk(offset, n) => BlkEnd(k, offset, n) = BLOCK_SZ
  <1> DEFINE s == StartBlk(offset)
             e == EndBlk(offset, n)
             a == s * BLOCK_SZ
             b == e * BLOCK_SZ
             c == k * BLOCK_SZ
             off == BlkOff(k, offset)
             end == BlkEnd(k, offset, n)
  <1>0. BLOCK_SZ \in Nat \ {0}
    BY SimpleFSAssumption
  <1>1. /\ s \in Nat /\ e \in Nat /\ s <= e /\ a \in Nat /\ b \in Nat
        /\ a <= offset /\ offset < a + BLOCK_SZ
        /\ b < offset + n /\ offset + n <= b + BLOCK_SZ
        /\ offset % BLOCK_SZ = offset - a
        /\ ((offset + n - 1) % BLOCK_SZ) + 1 = offset + n - b
    BY AccessEnds, Zenon
  <1>2. /\ off = IF k = s THEN offset - a ELSE 0
        /\ end = IF k = e THEN offset + n - b ELSE BLOCK_SZ
    BY <1>1, Zenon DEF BlkOff, BlkEnd
  <1>3. k \in Nat /\ s <= k /\ k <= e
    <2> HIDE DEF s, e
    <2>1. k \in s..e
      BY DEF s, e
    <2> QED BY <1>1, <2>1
  <1>4. c \in Nat /\ (k = s => c = a) /\ (k = e => c = b)
    BY <1>0, <1>3
  <1> HIDE DEF s, e, a, b, c, off, end
  <1>5. /\ off \in Nat /\ off < BLOCK_SZ
        /\ (k = s => c + off = offset) /\ (k # s => off = 0)
    BY <1>0, <1>1, <1>2, <1>4
  <1>6. /\ end \in Nat /\ 0 < end /\ end <= BLOCK_SZ
        /\ (k = e => c + end = offset + n) /\ (k # e => end = BLOCK_SZ)
    BY <1>0, <1>1, <1>2, <1>4
  <1>7. off < end
    <2>1. k = s /\ k = e => off < end
      BY <1>4, <1>5, <1>6
    <2>2. k # e => off < end
      BY <1>5, <1>6, Zenon
    <2>3. k # s => off < end
      BY <1>5, <1>6, Zenon
    <2> QED BY <2>1, <2>2, <2>3, Zenon
  <1> QED BY <1>3, <1>4, <1>5, <1>6, <1>7, Zenon DEF s, e, c, off, end

\* A position belongs to the access exactly if its block is one of those touched
\* and it lies in the part of that block.
LEMMA PartHolds ==
    ASSUME NEW offset \in Nat, NEW n \in Nat \ {0}, NEW p \in Nat
    PROVE  LET k == p \div BLOCK_SZ IN
           /\ p \in offset .. offset + n - 1 => k \in StartBlk(offset) .. EndBlk(offset, n)
           /\ k \in StartBlk(offset) .. EndBlk(offset, n) =>
                 (p \in offset .. offset + n - 1 <=>
                    /\ BlkOff(k, offset) < (p % BLOCK_SZ) + 1
                    /\ (p % BLOCK_SZ) + 1 <= BlkEnd(k, offset, n))
  <1> DEFINE k == p \div BLOCK_SZ
             r == p % BLOCK_SZ
             s == StartBlk(offset)
             e == EndBlk(offset, n)
             c == k * BLOCK_SZ
             off == BlkOff(k, offset)
             end == BlkEnd(k, offset, n)
  <1>0. BLOCK_SZ \in Nat \ {0}
    BY SimpleFSAssumption
  <1>1. k \in Nat /\ c \in Nat /\ r \in 0..(BLOCK_SZ - 1) /\ p = c + r
    BY BlockOf, Zenon
  <1>2. /\ s \in Nat /\ e \in Nat /\ s <= e
        /\ s * BLOCK_SZ \in Nat /\ e * BLOCK_SZ \in Nat
        /\ s * BLOCK_SZ <= offset /\ offset < s * BLOCK_SZ + BLOCK_SZ
        /\ e * BLOCK_SZ < offset + n /\ offset + n <= e * BLOCK_SZ + BLOCK_SZ
    BY AccessEnds, Zenon
  <1>3. ASSUME p \in offset .. offset + n - 1 PROVE k \in s .. e
    <2>1. offset + n - 1 \in Nat /\ offset <= p /\ p <= offset + n - 1
      BY <1>3
    <2>2. offset \div BLOCK_SZ <= k
      BY <2>1, BlockOrder
    <2>3. k <= (offset + n - 1) \div BLOCK_SZ
      BY <2>1, BlockOrder
    <2>4. s <= k /\ k <= e
      BY <2>2, <2>3 DEF StartBlk, EndBlk
    <2> HIDE DEF s, e, k
    <2> QED BY <1>1, <1>2, <2>4
  <1>4. ASSUME k \in s .. e
        PROVE  p \in offset .. offset + n - 1 <=> off < r + 1 /\ r + 1 <= end
    <2>1. /\ off \in Nat /\ end \in Nat /\ off < end /\ end <= BLOCK_SZ
          /\ (k = s => c + off = offset) /\ (k # s => off = 0)
          /\ (k = e => c + end = offset + n) /\ (k # e => end = BLOCK_SZ)
      <3> HIDE DEF k
      <3>1. k \in StartBlk(offset) .. EndBlk(offset, n)
        BY <1>4
      <3> QED BY <3>1, PartOfBlock, Zenon
    <2>2. s < k => s * BLOCK_SZ + BLOCK_SZ <= c
      <3> HIDE DEF k, s
      <3> QED BY <1>1, <1>2, MulLess
    <2>3. k < e => c + BLOCK_SZ <= e * BLOCK_SZ
      <3> HIDE DEF k, e
      <3> QED BY <1>1, <1>2, MulLess
    <2>4. s <= k /\ k <= e
      <3> HIDE DEF k, s, e
      <3> QED BY <1>1, <1>2, <1>4
    <2> HIDE DEF k, r, s, e, c, off, end
    <2>5. offset <= p <=> off < r + 1
      BY <1>0, <1>1, <1>2, <2>1, <2>2, <2>4
    <2>6. p < offset + n <=> r + 1 <= end
      BY <1>0, <1>1, <1>2, <2>1, <2>3, <2>4
    <2>7. p \in offset .. offset + n - 1 <=> offset <= p /\ p < offset + n
      BY <1>1
    <2> QED BY <2>5, <2>6, <2>7, Zenon
  <1> QED BY <1>3, <1>4, Zenon

--------------------------------------------------------------------------------
(* The recursions of write_data and read_data.  tlapm has no induction over   *)
(* data; the least counterexample does its work.                              *)

LEMMA LeastExists ==
    ASSUME NEW T \in SUBSET Nat, T # {}
    PROVE  \E n \in T : \A m \in T : n <= m
  <1>1. IsWellFoundedOn(OpToRel(<, Nat), Nat)
    BY NatLessThanWellFounded, Zenon
  <1>2. PICK n \in T : \A y \in T : ~(<<y, n>> \in OpToRel(<, Nat))
    BY <1>1, WFMin, Zenon
  <1>3. \A y \in T : ~(y < n)
    BY <1>2, Zenon DEF OpToRel
  <1> QED BY <1>3

\* F counts, for each block of a write, the bytes that went to those before it.
Totals(offset, n, F) ==
    F = [bi \in StartBlk(offset) .. EndBlk(offset, n) |->
            IF bi = StartBlk(offset) THEN 0
            ELSE F[bi - 1] + BlkEnd(bi - 1, offset, n) - BlkOff(bi - 1, offset)]
Total(offset, n) == CHOOSE F : Totals(offset, n, F)

LEMMA TotalIs ==
    ASSUME NEW offset \in Nat, NEW n \in Nat \ {0}
    PROVE  \A k \in StartBlk(offset) .. EndBlk(offset, n) :
              Total(offset, n)[k] = k * BLOCK_SZ + BlkOff(k, offset) - offset
  <1> DEFINE s == StartBlk(offset)
             e == EndBlk(offset, n)
             at(k) == k * BLOCK_SZ + BlkOff(k, offset) - offset
             G == [k \in s .. e |-> at(k)]
             F == Total(offset, n)
  <1>0. BLOCK_SZ \in Nat
    BY SimpleFSAssumption
  <1>1. s \in Nat /\ e \in Nat /\ s <= e
    BY AccessEnds, Zenon
  <1>2. at(s) = 0
    <2>1. s \in s .. e
      BY <1>1
    <2>2. /\ s * BLOCK_SZ + BlkOff(s, offset) = offset
          /\ s * BLOCK_SZ \in Nat /\ BlkOff(s, offset) \in Nat
      <3> HIDE DEF s
      <3>1. s = StartBlk(offset) /\ s \in StartBlk(offset) .. EndBlk(offset, n)
        BY <2>1 DEF s
      <3> QED BY <3>1, PartOfBlock, Zenon
    <2> HIDE DEF s
    <2> QED BY <2>2
  <1>3. ASSUME NEW k \in s .. e, k # s
        PROVE  /\ k - 1 \in s .. e
               /\ at(k) = at(k - 1) + BlkEnd(k - 1, offset, n) - BlkOff(k - 1, offset)
    <2> DEFINE j == k - 1
    <2>1. j \in s .. e /\ j # e /\ j \in Nat /\ k = j + 1
      BY <1>1, <1>3
    <2>2. BlkOff(k, offset) = 0
      BY <1>3, PartOfBlock, Zenon
    <2>3. BlkEnd(j, offset, n) = BLOCK_SZ /\ BlkOff(j, offset) \in Nat
      <3> HIDE DEF j
      <3> QED BY <2>1, PartOfBlock, Zenon
    <2> HIDE DEF j, s, e
    <2>4. k * BLOCK_SZ = j * BLOCK_SZ + BLOCK_SZ /\ j * BLOCK_SZ \in Nat
      BY <1>0, <2>1
    <2>5. at(k) = at(j) + BlkEnd(j, offset, n) - BlkOff(j, offset)
      BY <1>0, <2>2, <2>3, <2>4
    <2> QED BY <2>1, <2>5 DEF j
  <1> HIDE DEF at, s, e
  <1>4. Totals(offset, n, G)
    <2>1. \A k \in s .. e : k # s => G[k - 1] = at(k - 1)
      BY <1>3
    <2>2. ASSUME NEW k \in s .. e
          PROVE  at(k) = IF k = s THEN 0
                         ELSE G[k - 1] + BlkEnd(k - 1, offset, n) - BlkOff(k - 1, offset)
      BY <1>2, <1>3, <2>1
    <2>3. G = [k \in s .. e |-> IF k = s THEN 0
                 ELSE G[k - 1] + BlkEnd(k - 1, offset, n) - BlkOff(k - 1, offset)]
      BY <2>2
    <2> QED BY <2>3, Zenon DEF Totals, s, e
  <1>5. F = [k \in s .. e |-> IF k = s THEN 0
                ELSE F[k - 1] + BlkEnd(k - 1, offset, n) - BlkOff(k - 1, offset)]
    <2>1. Totals(offset, n, Total(offset, n))
      BY <1>4, Zenon DEF Total
    <2> QED BY <2>1, Zenon DEF Totals, s, e
  <1> HIDE DEF F
  <1> DEFINE T == {k \in s .. e : F[k] # at(k)}
  <1>6. T = {}
    <2> SUFFICES ASSUME T # {} PROVE FALSE
      OBVIOUS
    <2>1. T \in SUBSET Nat
      BY <1>1
    <2>2. PICK k \in T : \A m \in T : k <= m
      BY <2>1, LeastExists, Zenon
    <2>3. k \in s .. e /\ F[k] # at(k)
      BY <2>2
    <2>4. k # s
      BY <1>2, <1>5, <2>3
    <2>5. k - 1 \in s .. e /\ k - 1 \notin T
      BY <1>1, <1>3, <2>1, <2>2, <2>4
    <2>6. F[k - 1] = at(k - 1)
      BY <2>5
    <2>7. F[k] = F[k - 1] + BlkEnd(k - 1, offset, n) - BlkOff(k - 1, offset)
      BY <1>5, <2>3, <2>4, Zenon
    <2> QED BY <1>3, <2>3, <2>4, <2>6, <2>7
  <1> QED BY <1>6 DEF F, s, e, at

--------------------------------------------------------------------------------
(* Facts about sequences, and about the operators. *)

LEMMA SeqLen ==
    ASSUME NEW S, NEW s \in Seq(S)
    PROVE  Len(s) \in Nat /\ s \in [1..Len(s) -> S] /\ DOMAIN s = 1..Len(s)
  OBVIOUS

LEMMA NoElements ==
    ASSUME NEW S
    PROVE  /\ <<>> \in Seq(S) /\ Len(<<>>) = 0
           /\ \A s \in Seq(S) : s # <<>> => Len(s) \in Nat \ {0}
  OBVIOUS

LEMMA SameElements ==
    ASSUME NEW S, NEW s \in Seq(S), NEW t \in Seq(S),
           Len(s) = Len(t), \A x \in 1..Len(s) : s[x] = t[x]
    PROVE  s = t
  OBVIOUS

LEMMA Joined ==
    ASSUME NEW S, NEW s \in Seq(S), NEW t \in Seq(S)
    PROVE  /\ s \o t \in Seq(S)
           /\ Len(s \o t) = Len(s) + Len(t)
           /\ \A x \in 1 .. Len(s) + Len(t) :
                 (s \o t)[x] = IF x <= Len(s) THEN s[x] ELSE t[x - Len(s)]
  OBVIOUS

LEMMA CutOut ==
    ASSUME NEW S, NEW s, NEW from \in Int, NEW to \in Int, \A x \in from..to : s[x] \in S
    PROVE  /\ SubSeq(s, from, to) \in Seq(S)
           /\ Len(SubSeq(s, from, to)) = IF from <= to THEN to - from + 1 ELSE 0
           /\ \A x \in 1 .. to - from + 1 : SubSeq(s, from, to)[x] = s[from + x - 1]
  OBVIOUS

LEMMA MinOfTwo ==
    ASSUME NEW a \in Int, NEW b \in Int
    PROVE  Min({a, b}) = IF a <= b THEN a ELSE b
  <1> DEFINE z == IF a <= b THEN a ELSE b
  <1>1. z \in {a, b} /\ \A y \in {a, b} : z <= y
    OBVIOUS
  <1>2. \A w \in {a, b} : (\A y \in {a, b} : w <= y) => w = z
    OBVIOUS
  <1> QED BY <1>1, <1>2 DEF Min

LEMMA MaxOfTwo ==
    ASSUME NEW a \in Int, NEW b \in Int
    PROVE  Max({a, b}) = IF a >= b THEN a ELSE b
  <1> DEFINE z == IF a >= b THEN a ELSE b
  <1>1. z \in {a, b} /\ \A y \in {a, b} : z >= y
    OBVIOUS
  <1>2. \A w \in {a, b} : (\A y \in {a, b} : w >= y) => w = z
    OBVIOUS
  <1> QED BY <1>1, <1>2 DEF Max

\* The blocks that truncate keeps are a prefix of those the file had.
LEMMA KeptBlocks ==
    ASSUME NEW b \in Seq(Nat), NEW keep \in Int
    PROVE  LET c == SubSeq(b, 1, Min({keep, Len(b)})) IN
           c \in Seq(Nat) /\ Len(c) <= Len(b) /\ \A x \in 1..Len(c) : c[x] = b[x]
  <1> DEFINE k == Min({keep, Len(b)})
  <1>1. Len(b) \in Nat /\ \A x \in 1..Len(b) : b[x] \in Nat
    BY SeqLen
  <1>2. k \in Int /\ k <= Len(b)
    <2>1. Len(b) \in Int
      BY <1>1
    <2>2. k = IF keep <= Len(b) THEN keep ELSE Len(b)
      BY <2>1, MinOfTwo, Zenon
    <2> QED BY <2>1, <2>2
  <1> HIDE DEF k
  <1>3. \A x \in 1..k : b[x] \in Nat
    BY <1>1, <1>2
  <1>4. /\ SubSeq(b, 1, k) \in Seq(Nat)
        /\ Len(SubSeq(b, 1, k)) = IF 1 <= k THEN k - 1 + 1 ELSE 0
        /\ \A x \in 1..(k - 1 + 1) : SubSeq(b, 1, k)[x] = b[1 + x - 1]
    BY <1>2, <1>3, CutOut
  <1>5. Len(SubSeq(b, 1, k)) <= Len(b)
    BY <1>1, <1>2, <1>4
  <1>6. ASSUME NEW x \in 1..Len(SubSeq(b, 1, k)) PROVE SubSeq(b, 1, k)[x] = b[x]
    <2>1. x \in 1..(k - 1 + 1) /\ 1 + x - 1 = x
      BY <1>2, <1>4
    <2> QED BY <1>4, <2>1
  <1> QED BY <1>4, <1>5, <1>6, Zenon DEF k

\* ... and all of those below keep.
LEMMA KeptAll ==
    ASSUME NEW b \in Seq(Nat), NEW keep \in Int
    PROVE  \A x \in 1..Len(b) : x <= keep => x \in 1..Len(SubSeq(b, 1, Min({keep, Len(b)})))
  <1> DEFINE k == Min({keep, Len(b)})
  <1>1. Len(b) \in Nat /\ \A x \in 1..Len(b) : b[x] \in Nat
    BY SeqLen
  <1>2. Len(b) \in Int
    BY <1>1
  <1>3. k = IF keep <= Len(b) THEN keep ELSE Len(b)
    BY <1>2, MinOfTwo, Zenon
  <1> HIDE DEF k
  <1>4. k \in Int /\ k <= Len(b)
    BY <1>1, <1>3
  <1>5. \A x \in 1..k : b[x] \in Nat
    BY <1>1, <1>4
  <1>6. Len(SubSeq(b, 1, k)) = IF 1 <= k THEN k - 1 + 1 ELSE 0
    BY <1>4, <1>5, CutOut
  <1>7. \A x \in 1..Len(b) : x <= keep => x \in 1..Len(SubSeq(b, 1, k))
    BY <1>1, <1>3, <1>4, <1>6
  <1> QED BY <1>7, Zenon DEF k

\* The blocks that write_data appends are the next numbers of alloc_block.
LEMMA GrownBlocks ==
    ASSUME NEW b \in Seq(Nat), NEW first \in Nat, NEW missing \in Nat
    PROVE  LET c == b \o [k \in 1..missing |-> first + k - 1] IN
           /\ c \in Seq(Nat) /\ Len(c) = Len(b) + missing
           /\ \A x \in 1..Len(b) : c[x] = b[x]
           /\ \A x \in 1..Len(c) : x \notin 1..Len(b) =>
                 c[x] = first + (x - Len(b)) - 1 /\ first <= c[x] /\ c[x] < first + missing
  <1> DEFINE new == [k \in 1..missing |-> first + k - 1]
             c == b \o new
  <1>1. new \in Seq(Nat) /\ Len(new) = missing
    OBVIOUS
  <1>2. Len(b) \in Nat /\ \A k \in 1..missing : new[k] = first + k - 1
    BY SeqLen
  <1> HIDE DEF new
  <1>3. /\ c \in Seq(Nat)
        /\ Len(c) = Len(b) + missing
        /\ \A x \in 1..(Len(b) + missing) : c[x] = IF x <= Len(b) THEN b[x] ELSE new[x - Len(b)]
    BY <1>1, Joined, Zenon
  <1> HIDE DEF c
  <1>4. \A x \in 1..Len(b) : c[x] = b[x]
    BY <1>2, <1>3
  <1>5. ASSUME NEW x \in 1..Len(c), x \notin 1..Len(b)
        PROVE  c[x] = first + (x - Len(b)) - 1 /\ first <= c[x] /\ c[x] < first + missing
    <2>1. x - Len(b) \in 1..missing /\ ~(x <= Len(b)) /\ x \in 1..(Len(b) + missing)
      BY <1>2, <1>3, <1>5
    <2>2. c[x] = first + (x - Len(b)) - 1
      BY <1>2, <1>3, <2>1, Zenon
    <2> QED BY <1>2, <2>1, <2>2
  <1> QED BY <1>3, <1>4, <1>5 DEF c, new

--------------------------------------------------------------------------------
(* The blocks. *)

\* One file loses or gains blocks at its end.
LEMMA BlocksChange ==
    ASSUME TableInv, BlocksOwned, NEW i \in DOMAIN inodes, NEW b \in Seq(Nat), NEW size,
           inodes' = [inodes EXCEPT ![i].blocks = b, ![i].size = size],
           next_blk' \in Nat, next_blk <= next_blk',
           \A x \in 1..Len(b) :
              \/ x \in 1..Len(inodes[i].blocks) /\ b[x] = inodes[i].blocks[x]
              \/ next_blk <= b[x] /\ b[x] < next_blk',
           \A x, y \in 1..Len(b) : b[x] = b[y] => x = y
    PROVE  /\ TableInv' /\ BlocksOwned'
           /\ DOMAIN inodes' = DOMAIN inodes
           /\ \A d \in DOMAIN inodes : /\ inodes'[d].children = inodes[d].children
                                       /\ inodes'[d].type = inodes[d].type
  <1>1. /\ next_blk \in Nat
        /\ inodes = [j \in DOMAIN inodes |-> inodes[j]]
        /\ \A j \in DOMAIN inodes :
             /\ IsInode(inodes[j])
             /\ inodes[j].blocks \in Seq(Nat)
             /\ \A x \in 1..Len(inodes[j].blocks) : inodes[j].blocks[x] < next_blk
    BY DEF TableInv, IsInode
  <1>2. /\ DOMAIN inodes' = DOMAIN inodes
        /\ inodes' = [j \in DOMAIN inodes' |-> inodes'[j]]
        /\ \A j \in DOMAIN inodes \ {i} : inodes'[j] = inodes[j]
    BY <1>1, Zenon
  <1>3. /\ inodes'[i] \in [type : {inodes[i].type}, blocks : Seq(Nat), size : {size},
                           children : {inodes[i].children}]
        /\ inodes'[i].blocks = b
    <2> DEFINE f == inodes[i]
    <2>1. inodes'[i] = [f EXCEPT !.blocks = b, !.size = size]
      BY <1>1
    <2>2. f \in [type : {f.type}, blocks : Seq(Nat), size : {f.size}, children : {f.children}]
      BY <1>1 DEF IsInode
    <2> HIDE DEF f
    <2>3. LET g == [f EXCEPT !.blocks = b, !.size = size] IN
          /\ g \in [type : {f.type}, blocks : Seq(Nat), size : {size}, children : {f.children}]
          /\ g.blocks = b
      BY <2>2, Zenon
    <2> QED BY <2>1, <2>3 DEF f
  <1>4. \A x \in 1..Len(b) : b[x] \in Nat
    BY SeqLen
  <1>5. \A j \in DOMAIN inodes : /\ Len(inodes[j].blocks) \in Nat
                                 /\ \A x \in 1..Len(inodes[j].blocks) : inodes[j].blocks[x] \in Nat
                                 /\ DOMAIN inodes[j].blocks = 1..Len(inodes[j].blocks)
    BY <1>1, SeqLen
  <1>6. ASSUME NEW j \in DOMAIN inodes PROVE IsInode(inodes[j])'
    <2>1. CASE j = i
      <3>1. ASSUME NEW x \in 1..Len(b) PROVE b[x] < next_blk'
        <4>1. CASE x \in 1..Len(inodes[i].blocks) /\ b[x] = inodes[i].blocks[x]
          <5>1. b[x] \in Nat /\ b[x] < next_blk
            BY <1>1, <1>5, <4>1
          <5> QED BY <1>1, <5>1
        <4> QED BY <4>1
      <3> QED BY <1>3, <2>1, <3>1 DEF IsInode
    <2>2. CASE j # i
      <3>1. \A x \in 1..Len(inodes[j].blocks) : inodes[j].blocks[x] < next_blk'
        BY <1>1, <1>5
      <3> QED BY <1>1, <1>2, <2>2, <3>1 DEF IsInode
    <2> QED BY <2>1, <2>2
  <1>7. TableInv'
    BY <1>2, <1>6 DEF TableInv
  <1>8. DOMAIN b = 1..Len(b)
    BY SeqLen
  <1>9. ASSUME NEW j \in DOMAIN inodes, j # i,
               NEW x \in 1..Len(b), NEW y \in 1..Len(inodes[j].blocks)
        PROVE  b[x] # inodes[j].blocks[y]
    <2>1. inodes[j].blocks[y] < next_blk /\ next_blk \in Nat
      BY <1>1, Zenon
    <2>0. b[x] \in Nat /\ inodes[j].blocks[y] \in Nat
      BY <1>4, <1>5, Zenon
    <2>2. CASE next_blk <= b[x]
      BY ONLY <2>0, <2>1, <2>2
    <2>3. CASE x \in 1..Len(inodes[i].blocks) /\ b[x] = inodes[i].blocks[x]
      <3>1. x \in DOMAIN inodes[i].blocks /\ y \in DOMAIN inodes[j].blocks
        BY <1>5, <2>3, Zenon
      <3>2. inodes[i].blocks[x] # inodes[j].blocks[y]
        BY <1>9, <3>1, Zenon DEF BlocksOwned
      <3> QED BY <2>3, <3>2, Zenon
    <2> QED BY <2>2, <2>3
  <1>10. BlocksOwned'
    <2> SUFFICES ASSUME NEW j \in DOMAIN inodes, NEW k \in DOMAIN inodes,
                        NEW x \in DOMAIN inodes'[j].blocks, NEW y \in DOMAIN inodes'[k].blocks,
                        inodes'[j].blocks[x] = inodes'[k].blocks[y]
                 PROVE  j = k /\ x = y
      BY <1>2 DEF BlocksOwned
    <2>1. CASE j = i /\ k = i
      BY <1>3, <1>8, <2>1
    <2>2. CASE j = i /\ k # i
      <3>1. inodes'[j].blocks = b /\ inodes'[k].blocks = inodes[k].blocks
        BY <1>2, <1>3, <2>2
      <3>2. x \in 1..Len(b) /\ y \in 1..Len(inodes[k].blocks) /\ b[x] = inodes[k].blocks[y]
        BY <1>5, <1>8, <3>1, Zenon
      <3> QED BY <1>9, <2>2, <3>2
    <2>3. CASE j # i /\ k = i
      <3>1. inodes'[k].blocks = b /\ inodes'[j].blocks = inodes[j].blocks
        BY <1>2, <1>3, <2>3
      <3>2. y \in 1..Len(b) /\ x \in 1..Len(inodes[j].blocks) /\ b[y] = inodes[j].blocks[x]
        BY <1>5, <1>8, <3>1, Zenon
      <3> QED BY <1>9, <2>3, <3>2
    <2>4. CASE j # i /\ k # i
      BY <1>2, <2>4 DEF BlocksOwned
    <2> QED BY <2>1, <2>2, <2>3, <2>4
  <1> QED BY <1>2, <1>3, <1>7, <1>10

\* A step on directories or the table gives no file a block.
LEMMA BlocksKept ==
    ASSUME TableInv, BlocksOwned, next_blk' = next_blk,
           inodes' = [j \in DOMAIN inodes' |-> inodes'[j]],
           \A j \in DOMAIN inodes' :
              /\ inodes'[j] \in [type : {inodes'[j].type}, blocks : Seq(Nat),
                                 size : {inodes'[j].size}, children : {inodes'[j].children}]
              /\ \/ inodes'[j].blocks = <<>>
                 \/ j \in DOMAIN inodes /\ inodes'[j].blocks = inodes[j].blocks
    PROVE  TableInv' /\ BlocksOwned'
  <1>1. /\ next_blk' \in Nat
        /\ \A j \in DOMAIN inodes : \A x \in 1..Len(inodes[j].blocks) :
              inodes[j].blocks[x] < next_blk
    BY DEF TableInv, IsInode
  <1>2. Len(<<>>) = 0 /\ DOMAIN <<>> = {}
    OBVIOUS
  <1>3. \A j \in DOMAIN inodes' : IsInode(inodes[j])'
    <2> SUFFICES ASSUME NEW j \in DOMAIN inodes', NEW x \in 1..Len(inodes'[j].blocks)
                 PROVE  inodes'[j].blocks[x] < next_blk'
      BY DEF IsInode
    <2>1. inodes'[j].blocks # <<>>
      BY <1>2
    <2> QED BY <1>1, <2>1
  <1>4. BlocksOwned'
    <2> SUFFICES ASSUME NEW j \in DOMAIN inodes', NEW k \in DOMAIN inodes',
                        NEW x \in DOMAIN inodes'[j].blocks, NEW y \in DOMAIN inodes'[k].blocks,
                        inodes'[j].blocks[x] = inodes'[k].blocks[y]
                 PROVE  j = k /\ x = y
      BY DEF BlocksOwned
    <2>1. inodes'[j].blocks # <<>> /\ inodes'[k].blocks # <<>>
      BY <1>2
    <2>2. /\ j \in DOMAIN inodes /\ inodes'[j].blocks = inodes[j].blocks
          /\ k \in DOMAIN inodes /\ inodes'[k].blocks = inodes[k].blocks
      BY <2>1, Zenon
    <2> QED BY <2>2 DEF BlocksOwned
  <1> QED BY <1>1, <1>3, <1>4 DEF TableInv

SameEntries ==
    /\ DOMAIN inodes' = DOMAIN inodes
    /\ \A d \in DOMAIN inodes : inodes'[d].children = inodes[d].children

LEMMA TruncatedStep ==
    ASSUME TableInv, BlocksOwned, NEW i \in DOMAIN inodes, NEW size \in Nat, Truncated(i, size)
    PROVE  TableInv' /\ BlocksOwned' /\ SameEntries
  <1> DEFINE old == inodes[i].blocks
             keep == CeilDiv(size, BLOCK_SZ)
             b == SubSeq(old, 1, Min({keep, Len(old)}))
  <1>1. /\ old \in Seq(Nat) /\ next_blk \in Nat
        /\ \A x \in 1..Len(old) : old[x] < next_blk
    BY DEF TableInv, IsInode
  <1>2. keep \in Int
    BY SimpleFSAssumption DEF CeilDiv
  <1>3. /\ inodes' = [inodes EXCEPT ![i].blocks = b, ![i].size = size]
        /\ next_blk' = next_blk
    BY DEF Truncated
  <1> HIDE DEF keep
  <1>4. b \in Seq(Nat) /\ Len(b) <= Len(old) /\ \A x \in 1..Len(b) : b[x] = old[x]
    BY <1>1, <1>2, KeptBlocks, Zenon
  <1>5. Len(old) \in Nat /\ Len(b) \in Nat /\ DOMAIN old = 1..Len(old)
    BY <1>1, <1>4, SeqLen
  <1> HIDE DEF b
  <1>6. \A x \in 1..Len(b) : x \in 1..Len(old) /\ b[x] = old[x]
    BY <1>4, <1>5
  <1>7. \A x, y \in 1..Len(b) : b[x] = b[y] => x = y
    BY <1>5, <1>6 DEF BlocksOwned
  <1>8. next_blk' \in Nat /\ next_blk <= next_blk'
    BY <1>1, <1>3
  <1>9. \A x \in 1..Len(b) : \/ x \in 1..Len(inodes[i].blocks) /\ b[x] = inodes[i].blocks[x]
                             \/ next_blk <= b[x] /\ b[x] < next_blk'
    BY <1>6
  <1>10. b \in Seq(Nat) /\ inodes' = [inodes EXCEPT ![i].blocks = b, ![i].size = size]
    BY <1>3, <1>4
  <1>11. /\ TableInv' /\ BlocksOwned'
         /\ DOMAIN inodes' = DOMAIN inodes
         /\ \A d \in DOMAIN inodes : inodes'[d].children = inodes[d].children
    BY ONLY TableInv, BlocksOwned, i \in DOMAIN inodes, <1>7, <1>8, <1>9, <1>10, BlocksChange,
       Zenon
  <1> QED BY <1>11 DEF SameEntries

LEMMA WriteStep ==
    ASSUME TableInv, BlocksOwned, NEW i \in DOMAIN inodes, NEW offset \in Nat,
           NEW buf \in Seq(Nat), NEW done, WriteData(i, offset, buf, done)
    PROVE  TableInv' /\ BlocksOwned' /\ SameEntries
  <1> DEFINE old == inodes[i].blocks
             missing == Max({EndBlk(offset, Len(buf)) + 1 - Len(old), 0})
             b == old \o [k \in 1..missing |-> next_blk + k - 1]
  <1>1. /\ old \in Seq(Nat) /\ next_blk \in Nat
        /\ \A x \in 1..Len(old) : old[x] < next_blk
    BY DEF TableInv, IsInode
  <1>2. Len(old) \in Nat /\ Len(buf) \in Nat /\ DOMAIN old = 1..Len(old)
    BY <1>1, SeqLen
  <1>3. EndBlk(offset, Len(buf)) \in Int
    BY <1>2, SimpleFSAssumption DEF EndBlk
  <1>4. missing \in Nat
    <2>1. EndBlk(offset, Len(buf)) + 1 - Len(old) \in Int /\ 0 \in Int
      BY <1>2, <1>3
    <2> QED BY <2>1, MaxOfTwo
  <1>5. PICK size : /\ inodes' = [inodes EXCEPT ![i].blocks = b, ![i].size = size]
                    /\ next_blk' = next_blk + missing
    BY Zenon DEF WriteData
  <1> HIDE DEF missing
  <1>6. /\ b \in Seq(Nat) /\ Len(b) = Len(old) + missing
        /\ \A x \in 1..Len(old) : b[x] = old[x]
        /\ \A x \in 1..Len(b) : x \notin 1..Len(old) =>
              b[x] = next_blk + (x - Len(old)) - 1 /\ next_blk <= b[x] /\ b[x] < next_blk + missing
    BY <1>1, <1>4, GrownBlocks, Zenon
  <1> HIDE DEF b
  <1>7. \A x, y \in 1..Len(old) : old[x] = old[y] => x = y
    BY <1>2, Zenon DEF BlocksOwned
  <1>8. Len(b) \in Nat /\ \A x \in 1..Len(old) : old[x] \in Nat
    BY <1>1, <1>6, SeqLen
  <1> HIDE DEF old
  <1>9. ASSUME NEW x \in 1..Len(b), NEW y \in 1..Len(b), b[x] = b[y] PROVE x = y
    <2>1. CASE x \in 1..Len(old) /\ y \in 1..Len(old)
      BY <1>6, <1>7, <1>9, <2>1
    <2>2. CASE x \notin 1..Len(old) /\ y \notin 1..Len(old)
      <3>1. next_blk + (x - Len(old)) - 1 = next_blk + (y - Len(old)) - 1
        BY <1>6, <1>9, <2>2
      <3> QED BY <1>1, <1>2, <1>8, <3>1
    <2>3. CASE x \in 1..Len(old) /\ y \notin 1..Len(old)
      <3>1. b[x] \in Nat /\ b[x] < next_blk /\ next_blk <= b[y]
        BY <1>1, <1>6, <1>8, <2>3, Zenon
      <3> QED BY <1>1, <1>9, <3>1
    <2>4. CASE x \notin 1..Len(old) /\ y \in 1..Len(old)
      <3>1. b[y] \in Nat /\ b[y] < next_blk /\ next_blk <= b[x]
        BY <1>1, <1>6, <1>8, <2>4, Zenon
      <3> QED BY <1>1, <1>9, <3>1
    <2> QED BY <2>1, <2>2, <2>3, <2>4
  <1>10. next_blk' \in Nat /\ next_blk <= next_blk'
    BY <1>1, <1>4, <1>5
  <1>11. \A x \in 1..Len(b) : \/ x \in 1..Len(inodes[i].blocks) /\ b[x] = inodes[i].blocks[x]
                              \/ next_blk <= b[x] /\ b[x] < next_blk'
    BY <1>5, <1>6 DEF old
  <1>12. /\ TableInv' /\ BlocksOwned'
         /\ DOMAIN inodes' = DOMAIN inodes
         /\ \A d \in DOMAIN inodes : inodes'[d].children = inodes[d].children
    <2>1. b \in Seq(Nat) /\ inodes' = [inodes EXCEPT ![i].blocks = b, ![i].size = size]
      BY <1>5, <1>6
    <2> QED BY ONLY TableInv, BlocksOwned, i \in DOMAIN inodes, <1>9, <1>10, <1>11, <2>1,
                    BlocksChange, Zenon
  <1> QED BY <1>12 DEF SameEntries

--------------------------------------------------------------------------------
(* The calls. *)

\* What a step of a call does to pc and call, in terms of the thread alone.
LEMMA GoOnFacts ==
    ASSUME CallInv, NEW t \in Threads, NEW to \in Labels, NEW c, GoOn(t, to, c),
           c \in [op : {c.op}, dir : {c.dir}, name : {c.name}, ino : {c.ino}]
    PROVE  /\ CallInv'
           /\ pc'[t] = to /\ call'[t] = c
           /\ \A u \in Threads \ {t} : pc'[u] = pc[u] /\ call'[u] = call[u]
  <1>1. /\ pc' = [pc EXCEPT ![t] = to] /\ call' = [call EXCEPT ![t] = c]
        /\ pc \in [Threads -> Labels] /\ call = [u \in Threads |-> call[u]]
    BY DEF GoOn, CallInv
  <1>2. /\ pc' \in [Threads -> Labels] /\ call' = [u \in Threads |-> call'[u]]
        /\ pc'[t] = to /\ call'[t] = c
        /\ \A u \in Threads \ {t} : pc'[u] = pc[u] /\ call'[u] = call[u]
    BY <1>1
  <1>3. ASSUME NEW u \in Threads
        PROVE  call'[u] \in [op : {call'[u].op}, dir : {call'[u].dir},
                             name : {call'[u].name}, ino : {call'[u].ino}]
    BY <1>2 DEF CallInv
  <1> QED BY <1>2, <1>3 DEF CallInv

LEMMA DoneFacts ==
    ASSUME CallInv, NEW t \in Threads, Done(t)
    PROVE  /\ CallInv'
           /\ pc'[t] = "idle"
           /\ \A u \in Threads \ {t} : pc'[u] = pc[u] /\ call'[u] = call[u]
  <1>1. GoOn(t, "idle", NoCall)
    BY DEF Done, GoOn
  <1>2. NoCall \in [op : {NoCall.op}, dir : {NoCall.dir}, name : {NoCall.name}, ino : {NoCall.ino}]
    BY DEF NoCall
  <1> QED BY <1>1, <1>2, GoOnFacts DEF Labels

\* A call that has an inode number and changes another field of its record.
LEMMA WithIno ==
    ASSUME CallInv, NEW t \in Threads, NEW i
    PROVE  LET c == [call[t] EXCEPT !.ino = i] IN
           /\ c \in [op : {c.op}, dir : {c.dir}, name : {c.name}, ino : {c.ino}]
           /\ c.ino = i /\ c.dir = call[t].dir /\ c.name = call[t].name /\ c.op = call[t].op
  BY DEF CallInv

\* Steps that leave the directories alone and put no thread at a new inode number.
LEMMA EntriesKept ==
    ASSUME InoInv, NamesLead, SameEntries, next_ino' = next_ino,
           \A u \in Threads : /\ pc'[u] \in {"add", "drop"} =>
                                    pc'[u] = pc[u] /\ call'[u] = call[u]
                              /\ pc[u] = "insert" => pc'[u] = pc[u] /\ call'[u] = call[u]
    PROVE  InoInv' /\ NamesLead'
  <1>1. \A i : Named(i)' <=> Named(i)
    BY DEF Named, SameEntries
  <1>2. InoInv'
    BY <1>1 DEF InoInv, SameEntries
  <1>3. NamesLead'
    BY DEF NamesLead, Child, SameEntries
  <1> QED BY <1>2, <1>3

LEMMA LookupStep ==
    ASSUME FSInv, NEW t \in Threads, NEW op, NEW path, Lookup(t, op, path)
    PROVE  FSInv'
  <1>1. CallInv /\ TableInv /\ BlocksOwned /\ InoInv /\ NamesLead
    BY DEF FSInv
  <1>2. UNCHANGED <<inodes, next_ino, next_blk>> /\ pc[t] = "idle"
    BY DEF Lookup, dataVars
  <1>3. TableInv' /\ BlocksOwned' /\ SameEntries
    BY <1>1, <1>2 DEF TableInv, IsInode, BlocksOwned, SameEntries
  <1>4. \/ Done(t)
        \/ \E to \in {"alloc", "truncate", "remove"} : \E dir, found :
              GoOn(t, to, [op |-> op, dir |-> dir, name |-> path[Len(path)], ino |-> found])
    BY Zenon DEF Lookup
  <1>5. /\ CallInv'
        /\ pc'[t] \in {"idle", "alloc", "truncate", "remove"}
        /\ \A u \in Threads \ {t} : pc'[u] = pc[u] /\ call'[u] = call[u]
    <2>1. CASE Done(t)
      BY <1>1, <2>1, DoneFacts
    <2>2. ASSUME NEW to \in {"alloc", "truncate", "remove"}, NEW dir, NEW found,
                 GoOn(t, to, [op |-> op, dir |-> dir, name |-> path[Len(path)], ino |-> found])
          PROVE  <1>5!1 /\ <1>5!2 /\ <1>5!3
      <3> DEFINE c == [op |-> op, dir |-> dir, name |-> path[Len(path)], ino |-> found]
      <3>1. c \in [op : {c.op}, dir : {c.dir}, name : {c.name}, ino : {c.ino}]
        OBVIOUS
      <3>2. GoOn(t, to, c) /\ to \in Labels
        BY <2>2 DEF Labels
      <3> HIDE DEF c
      <3> QED BY <1>1, <3>1, <3>2, GoOnFacts
    <2> QED BY <1>4, <2>1, <2>2, Zenon
  <1>6. InoInv' /\ NamesLead'
    BY <1>1, <1>2, <1>3, <1>5, EntriesKept
  <1> QED BY <1>3, <1>5, <1>6 DEF FSInv

\* alloc_ino: the new number is nobody's.
LEMMA AllocStep ==
    ASSUME FSInv, NEW t \in Threads, AllocIno(t)
    PROVE  FSInv'
  <1>1. CallInv /\ TableInv /\ BlocksOwned /\ InoInv /\ NamesLead
    BY DEF FSInv
  <1>2. /\ UNCHANGED <<inodes, next_blk>> /\ next_ino' = next_ino + 1 /\ pc[t] = "alloc"
        /\ GoOn(t, "add", [call[t] EXCEPT !.ino = next_ino])
    BY DEF AllocIno, dataVars
  <1>3. TableInv' /\ BlocksOwned' /\ SameEntries
    BY <1>1, <1>2 DEF TableInv, IsInode, BlocksOwned, SameEntries
  <1>4. /\ CallInv'
        /\ pc'[t] = "add" /\ call'[t].ino = next_ino
        /\ \A u \in Threads \ {t} : pc'[u] = pc[u] /\ call'[u] = call[u]
    <2> DEFINE c == [call[t] EXCEPT !.ino = next_ino]
    <2>1. c \in [op : {c.op}, dir : {c.dir}, name : {c.name}, ino : {c.ino}] /\ c.ino = next_ino
      BY <1>1, WithIno, Zenon
    <2>2. GoOn(t, "add", c) /\ "add" \in Labels
      BY <1>2, Zenon DEF Labels
    <2> HIDE DEF c
    <2> QED BY <1>1, <2>1, <2>2, GoOnFacts
  <1>5. next_ino \in Nat /\ ~Named(next_ino)
    BY <1>1 DEF InoInv, Named
  <1>6. \A i : Named(i)' <=> Named(i)
    BY <1>2 DEF Named
  <1>7. \A u \in Threads : pc[u] \in {"add", "drop"} =>
           call[u].ino \in Nat /\ call[u].ino < next_ino /\ ~Named(call[u].ino)
    BY <1>1 DEF InoInv
  <1>8. InoInv'
    <2>1. \A d \in DOMAIN inodes' : \A x \in DOMAIN inodes'[d].children :
             inodes'[d].children[x] \in Nat /\ inodes'[d].children[x] < next_ino'
      BY <1>1, <1>2, <1>5 DEF InoInv
    <2>2. \A u \in Threads : pc'[u] \in {"add", "drop"} =>
             call'[u].ino \in Nat /\ call'[u].ino < next_ino' /\ ~Named(call[u].ino)'
      BY <1>2, <1>4, <1>5, <1>6, <1>7
    <2>3. \A u, v \in Threads :
             pc'[u] = "add" /\ pc'[v] \in {"add", "drop"} /\ call'[u].ino = call'[v].ino => u = v
      BY <1>1, <1>4, <1>5, <1>7 DEF InoInv
    <2> QED BY <1>2, <1>5, <2>1, <2>2, <2>3 DEF InoInv
  <1>9. NamesLead'
    BY <1>1, <1>2, <1>4 DEF NamesLead, Child
  <1> QED BY <1>3, <1>4, <1>8, <1>9 DEF FSInv

\* A directory's entries are replaced; the rest of the table stays.
LEMMA ChildrenChange ==
    ASSUME TableInv, BlocksOwned, NEW dir \in DOMAIN inodes, NEW kids, SetChildren(dir, kids),
           next_blk' = next_blk
    PROVE  /\ TableInv' /\ BlocksOwned'
           /\ DOMAIN inodes' = DOMAIN inodes
           /\ inodes'[dir].children = kids
           /\ \A d \in DOMAIN inodes \ {dir} : inodes'[d] = inodes[d]
  <1>1. /\ inodes' = [inodes EXCEPT ![dir].children = kids]
        /\ inodes = [j \in DOMAIN inodes |-> inodes[j]]
    BY DEF SetChildren, TableInv
  <1>0. \A j \in DOMAIN inodes :
           inodes[j] \in [type : {inodes[j].type}, blocks : Seq(Nat), size : {inodes[j].size},
                          children : {inodes[j].children}]
    BY DEF TableInv, IsInode
  <1>2. /\ DOMAIN inodes' = DOMAIN inodes
        /\ inodes' = [j \in DOMAIN inodes' |-> inodes'[j]]
        /\ \A d \in DOMAIN inodes \ {dir} : inodes'[d] = inodes[d]
    BY <1>1, Zenon
  <1>3. /\ inodes'[dir] \in [type : {inodes[dir].type}, blocks : Seq(Nat),
                             size : {inodes[dir].size}, children : {kids}]
        /\ inodes'[dir].blocks = inodes[dir].blocks
    <2> DEFINE f == inodes[dir]
    <2>1. inodes'[dir] = [f EXCEPT !.children = kids]
      BY <1>1
    <2>2. f \in [type : {f.type}, blocks : Seq(Nat), size : {f.size}, children : {f.children}]
      BY <1>0, Zenon
    <2> HIDE DEF f
    <2>3. LET g == [f EXCEPT !.children = kids] IN
          /\ g \in [type : {f.type}, blocks : Seq(Nat), size : {f.size}, children : {kids}]
          /\ g.blocks = f.blocks
      BY <2>2
    <2> QED BY <2>1, <2>3 DEF f
  <1>4. ASSUME NEW j \in DOMAIN inodes'
        PROVE  /\ inodes'[j] \in [type : {inodes'[j].type}, blocks : Seq(Nat),
                                  size : {inodes'[j].size}, children : {inodes'[j].children}]
               /\ j \in DOMAIN inodes /\ inodes'[j].blocks = inodes[j].blocks
    <2>1. CASE j = dir
      BY <1>2, <1>3, <2>1
    <2>2. CASE j # dir
      BY <1>0, <1>2, <2>2, Zenon
    <2> QED BY <2>1, <2>2
  <1>5. TableInv' /\ BlocksOwned'
    BY <1>2, <1>4, BlocksKept
  <1> QED BY <1>2, <1>3, <1>5

\* create_file and create_dir name a number that nobody else has.
LEMMA AddStep ==
    ASSUME FSInv, NEW t \in Threads, AddEntry(t)
    PROVE  FSInv'
  <1> DEFINE dir == call[t].dir
             name == call[t].name
             ino == call[t].ino
             old == inodes[dir].children
             kids == [n \in DOMAIN old \cup {name} |-> IF n = name THEN ino ELSE old[n]]
  <1>1. CallInv /\ TableInv /\ BlocksOwned /\ InoInv /\ NamesLead
    BY DEF FSInv
  <1>2. pc[t] = "add" /\ next_ino' = next_ino /\ next_blk' = next_blk
    BY DEF AddEntry, dataVars
  <1>3. CASE Done(t) /\ UNCHANGED inodes
    <2>1. TableInv' /\ BlocksOwned' /\ SameEntries
      BY <1>1, <1>2, <1>3 DEF TableInv, IsInode, BlocksOwned, SameEntries
    <2>2. /\ CallInv' /\ pc'[t] = "idle"
          /\ \A u \in Threads \ {t} : pc'[u] = pc[u] /\ call'[u] = call[u]
      BY <1>1, <1>3, DoneFacts
    <2>3. InoInv' /\ NamesLead'
      BY <1>1, <1>2, <2>1, <2>2, EntriesKept
    <2> QED BY <2>1, <2>2, <2>3 DEF FSInv
  <1>4. CASE IsDir(dir) /\ GoOn(t, "insert", call[t]) /\ SetChildren(dir, kids)
    <2>1. dir \in DOMAIN inodes
      BY <1>4 DEF IsDir
    <2>2. /\ CallInv' /\ pc'[t] = "insert" /\ call'[t] = call[t]
          /\ \A u \in Threads \ {t} : pc'[u] = pc[u] /\ call'[u] = call[u]
      BY <1>1, <1>4, GoOnFacts DEF CallInv, Labels
    <2>3. /\ TableInv' /\ BlocksOwned'
          /\ DOMAIN inodes' = DOMAIN inodes
          /\ inodes'[dir].children = kids
          /\ \A d \in DOMAIN inodes \ {dir} : inodes'[d] = inodes[d]
      BY <1>1, <1>2, <1>4, <2>1, ChildrenChange
    <2>4. DOMAIN kids = DOMAIN old \cup {name} /\ kids[name] = ino
          /\ \A n \in DOMAIN old \ {name} : kids[n] = old[n]
      OBVIOUS
    <2> HIDE DEF kids
    <2>5. ASSUME NEW d \in DOMAIN inodes', NEW n \in DOMAIN inodes'[d].children
          PROVE  \/ d = dir /\ n = name /\ inodes'[d].children[n] = ino
                 \/ d \in DOMAIN inodes /\ n \in DOMAIN inodes[d].children
                    /\ inodes'[d].children[n] = inodes[d].children[n]
      BY <2>3, <2>4
    <2>6. \A i : Named(i)' => Named(i) \/ i = ino
      BY <2>5 DEF Named
    <2>7. ino \in Nat /\ ino < next_ino /\ ~Named(ino)
      BY <1>1, <1>2 DEF InoInv
    <2>8. InoInv'
      <3>1. \A d \in DOMAIN inodes' : \A x \in DOMAIN inodes'[d].children :
               inodes'[d].children[x] \in Nat /\ inodes'[d].children[x] < next_ino'
        BY <1>1, <1>2, <2>5, <2>7 DEF InoInv
      <3>2. \A u \in Threads : pc'[u] \in {"add", "drop"} =>
               u # t /\ pc[u] = pc'[u] /\ call'[u] = call[u] /\ call[u].ino # ino
        BY <1>1, <1>2, <2>2 DEF InoInv
      <3>3. \A u \in Threads : pc'[u] \in {"add", "drop"} =>
               call'[u].ino \in Nat /\ call'[u].ino < next_ino' /\ ~Named(call[u].ino)'
        BY <1>1, <1>2, <2>6, <3>2 DEF InoInv
      <3>4. \A u, v \in Threads :
               pc'[u] = "add" /\ pc'[v] \in {"add", "drop"} /\ call'[u].ino = call'[v].ino => u = v
        BY <1>1, <3>2 DEF InoInv
      <3> QED BY <1>1, <1>2, <3>1, <3>3, <3>4 DEF InoInv
    <2>9. NamesLead'
      <3> SUFFICES ASSUME NEW d \in DOMAIN inodes', NEW e \in DOMAIN inodes',
                          NEW x \in DOMAIN inodes'[d].children,
                          NEW y \in DOMAIN inodes'[e].children
                   PROVE  /\ \/ inodes'[d].children[x] \in DOMAIN inodes'
                             \/ \E u \in Threads : pc'[u] = "insert"
                                                   /\ call'[u].ino = inodes'[d].children[x]
                          /\ inodes'[d].children[x] = inodes'[e].children[y] => d = e /\ x = y
        BY DEF NamesLead, Child
      <3>1. \/ inodes'[d].children[x] \in DOMAIN inodes'
            \/ \E u \in Threads : pc'[u] = "insert" /\ call'[u].ino = inodes'[d].children[x]
        <4>1. CASE inodes'[d].children[x] = ino
          BY <2>2, <4>1
        <4>2. CASE /\ d \in DOMAIN inodes /\ x \in DOMAIN inodes[d].children
                   /\ inodes'[d].children[x] = inodes[d].children[x]
          <5>1. \/ inodes[d].children[x] \in DOMAIN inodes
                \/ \E u \in Threads : pc[u] = "insert" /\ call[u].ino = inodes[d].children[x]
            BY <1>1, <4>2 DEF NamesLead, Child
          <5> QED BY <1>2, <2>2, <2>3, <4>2, <5>1
        <4> QED BY <2>5, <4>1, <4>2
      <3>2. ASSUME inodes'[d].children[x] = inodes'[e].children[y] PROVE d = e /\ x = y
        <4>1. \A k \in DOMAIN inodes : \A z \in DOMAIN inodes[k].children :
                 inodes[k].children[z] # ino
          BY <2>7 DEF Named
        <4>2. \A k, l \in DOMAIN inodes :
                 \A w \in DOMAIN inodes[k].children, z \in DOMAIN inodes[l].children :
                    inodes[k].children[w] = inodes[l].children[z] => k = l /\ w = z
          BY <1>1 DEF NamesLead, Child
        <4> QED BY <2>5, <3>2, <4>1, <4>2
      <3> QED BY <3>1, <3>2
    <2> QED BY <2>2, <2>3, <2>8, <2>9 DEF FSInv
  <1> QED BY <1>3, <1>4 DEF AddEntry

LEMMA InsertStep ==
    ASSUME FSInv, NEW t \in Threads, InsertInode(t)
    PROVE  FSInv'
  <1> DEFINE ino == call[t].ino
             f == IF call[t].op = "mkdir" THEN NewDir ELSE NewFile
  <1>1. CallInv /\ TableInv /\ BlocksOwned /\ InoInv /\ NamesLead
    BY DEF FSInv
  <1>2. /\ pc[t] = "insert" /\ next_ino' = next_ino /\ next_blk' = next_blk
        /\ inodes' = [i \in DOMAIN inodes \cup {ino} |-> IF i = ino THEN f ELSE inodes[i]]
        /\ Done(t) \/ GoOn(t, "truncate", call[t])
    BY DEF InsertInode, dataVars
  <1>3. /\ CallInv' /\ pc'[t] \in {"idle", "truncate"}
        /\ \A u \in Threads \ {t} : pc'[u] = pc[u] /\ call'[u] = call[u]
    <2>1. CASE Done(t)
      BY <1>1, <2>1, DoneFacts
    <2>2. CASE GoOn(t, "truncate", call[t])
      BY <1>1, <2>2, GoOnFacts DEF CallInv, Labels
    <2> QED BY <1>2, <2>1, <2>2
  <1>4. /\ f \in [type : {f.type}, blocks : Seq(Nat), size : {f.size}, children : {f.children}]
        /\ f.blocks = <<>> /\ DOMAIN f.children = {}
    BY NoElements DEF NewDir, NewFile, NewInode, NoEntries
  <1> HIDE DEF f
  <1>5. /\ DOMAIN inodes' = DOMAIN inodes \cup {ino}
        /\ inodes' = [i \in DOMAIN inodes' |-> inodes'[i]]
        /\ inodes'[ino] = f
        /\ \A i \in DOMAIN inodes \ {ino} : inodes'[i] = inodes[i]
    BY <1>2
  <1>6. TableInv' /\ BlocksOwned'
    <2>1. ASSUME NEW j \in DOMAIN inodes'
          PROVE  /\ inodes'[j] \in [type : {inodes'[j].type}, blocks : Seq(Nat),
                                    size : {inodes'[j].size}, children : {inodes'[j].children}]
                 /\ \/ inodes'[j].blocks = <<>>
                    \/ j \in DOMAIN inodes /\ inodes'[j].blocks = inodes[j].blocks
      <3>1. CASE j = ino
        BY <1>4, <1>5, <3>1
      <3>2. CASE j # ino
        BY <1>1, <1>5, <3>2 DEF TableInv, IsInode
      <3> QED BY <3>1, <3>2
    <2> QED BY <1>1, <1>2, <1>5, <2>1, BlocksKept, Zenon
  <1>7. \A d \in DOMAIN inodes' : \A x \in DOMAIN inodes'[d].children :
           /\ d \in DOMAIN inodes /\ x \in DOMAIN inodes[d].children
           /\ inodes'[d].children[x] = inodes[d].children[x]
    BY <1>4, <1>5
  <1>8. \A i : Named(i)' => Named(i)
    BY <1>7 DEF Named
  <1>9. InoInv'
    <2>0. \A d \in DOMAIN inodes : \A x \in DOMAIN inodes[d].children :
             inodes[d].children[x] \in Nat /\ inodes[d].children[x] < next_ino
      BY <1>1 DEF InoInv
    <2>1. \A d \in DOMAIN inodes' : \A x \in DOMAIN inodes'[d].children :
             inodes'[d].children[x] \in Nat /\ inodes'[d].children[x] < next_ino'
      <3> SUFFICES ASSUME NEW d \in DOMAIN inodes', NEW x \in DOMAIN inodes'[d].children
                   PROVE  /\ inodes'[d].children[x] \in Nat
                          /\ inodes'[d].children[x] < next_ino'
        OBVIOUS
      <3>1. /\ d \in DOMAIN inodes /\ x \in DOMAIN inodes[d].children
            /\ inodes'[d].children[x] = inodes[d].children[x]
        BY <1>7, Zenon
      <3>2. next_ino' = next_ino
        BY <1>2
      <3>3. inodes[d].children[x] \in Nat /\ inodes[d].children[x] < next_ino
        BY <2>0, <3>1, Zenon
      <3> QED BY <3>1, <3>2, <3>3, Zenon
    <2>2. \A u \in Threads : pc'[u] \in {"add", "drop"} => pc'[u] = pc[u] /\ call'[u] = call[u]
      BY <1>3
    <2>3. \A u \in Threads : pc'[u] \in {"add", "drop"} =>
             call'[u].ino \in Nat /\ call'[u].ino < next_ino' /\ ~Named(call[u].ino)'
      BY <1>1, <1>2, <1>8, <2>2 DEF InoInv
    <2>4. \A u, v \in Threads :
             pc'[u] = "add" /\ pc'[v] \in {"add", "drop"} /\ call'[u].ino = call'[v].ino => u = v
      BY <1>1, <2>2 DEF InoInv
    <2> QED BY <1>1, <1>2, <2>1, <2>3, <2>4, Zenon DEF InoInv
  <1>10. NamesLead'
    <2> SUFFICES ASSUME NEW d \in DOMAIN inodes', NEW e \in DOMAIN inodes',
                        NEW x \in DOMAIN inodes'[d].children,
                        NEW y \in DOMAIN inodes'[e].children
                 PROVE  /\ \/ inodes'[d].children[x] \in DOMAIN inodes'
                           \/ \E u \in Threads : pc'[u] = "insert"
                                                 /\ call'[u].ino = inodes'[d].children[x]
                        /\ inodes'[d].children[x] = inodes'[e].children[y] => d = e /\ x = y
      BY DEF NamesLead, Child
    <2>1. /\ d \in DOMAIN inodes /\ x \in DOMAIN inodes[d].children
          /\ inodes'[d].children[x] = inodes[d].children[x]
          /\ e \in DOMAIN inodes /\ y \in DOMAIN inodes[e].children
          /\ inodes'[e].children[y] = inodes[e].children[y]
      BY <1>7
    <2>2. /\ \/ inodes[d].children[x] \in DOMAIN inodes
             \/ \E u \in Threads : pc[u] = "insert" /\ call[u].ino = inodes[d].children[x]
          /\ inodes[d].children[x] = inodes[e].children[y] => d = e /\ x = y
      BY <1>1, <2>1 DEF NamesLead, Child
    <2> QED BY <1>3, <1>5, <2>1, <2>2
  <1> QED BY <1>3, <1>6, <1>9, <1>10 DEF FSInv

\* unlink takes the only name of what it is going to drop.
LEMMA RemoveEntryStep ==
    ASSUME FSInv, NEW t \in Threads, RemoveEntry(t)
    PROVE  FSInv'
  <1> DEFINE dir == call[t].dir
             name == call[t].name
             old == inodes[dir].children
             ino == old[name]
             kids == [n \in DOMAIN old \ {name} |-> old[n]]
  <1>1. CallInv /\ TableInv /\ BlocksOwned /\ InoInv /\ NamesLead
    BY DEF FSInv
  <1>2. pc[t] = "remove" /\ next_ino' = next_ino /\ next_blk' = next_blk
    BY DEF RemoveEntry, dataVars
  <1>3. CASE Done(t) /\ UNCHANGED inodes
    <2>1. TableInv' /\ BlocksOwned' /\ SameEntries
      BY <1>1, <1>2, <1>3 DEF TableInv, IsInode, BlocksOwned, SameEntries
    <2>2. /\ CallInv' /\ pc'[t] = "idle"
          /\ \A u \in Threads \ {t} : pc'[u] = pc[u] /\ call'[u] = call[u]
      BY <1>1, <1>3, DoneFacts
    <2>3. InoInv' /\ NamesLead'
      BY <1>1, <1>2, <2>1, <2>2, EntriesKept
    <2> QED BY <2>1, <2>2, <2>3 DEF FSInv
  <1>4. CASE /\ IsDir(dir) /\ name \in DOMAIN old
             /\ GoOn(t, "drop", [call[t] EXCEPT !.ino = Child(dir, name)])
             /\ SetChildren(dir, kids)
    <2>1. dir \in DOMAIN inodes /\ Child(dir, name) = ino
      BY <1>4 DEF IsDir, Child
    <2>2. /\ CallInv' /\ pc'[t] = "drop" /\ call'[t].ino = ino
          /\ \A u \in Threads \ {t} : pc'[u] = pc[u] /\ call'[u] = call[u]
      <3> DEFINE c == [call[t] EXCEPT !.ino = ino]
      <3>1. GoOn(t, "drop", c) /\ "drop" \in Labels
        BY <1>4, <2>1, Zenon DEF Labels
      <3>2. c \in [op : {c.op}, dir : {c.dir}, name : {c.name}, ino : {c.ino}] /\ c.ino = ino
        BY <1>1, WithIno, Zenon
      <3> HIDE DEF c
      <3> QED BY <1>1, <3>1, <3>2, GoOnFacts
    <2>3. /\ TableInv' /\ BlocksOwned'
          /\ DOMAIN inodes' = DOMAIN inodes
          /\ inodes'[dir].children = kids
          /\ \A d \in DOMAIN inodes \ {dir} : inodes'[d] = inodes[d]
      BY <1>1, <1>2, <1>4, <2>1, ChildrenChange
    <2>4. DOMAIN kids = DOMAIN old \ {name} /\ \A n \in DOMAIN kids : kids[n] = old[n]
      OBVIOUS
    <2> HIDE DEF kids
    <2>5. ASSUME NEW d \in DOMAIN inodes', NEW n \in DOMAIN inodes'[d].children
          PROVE  /\ d \in DOMAIN inodes /\ n \in DOMAIN inodes[d].children
                 /\ inodes'[d].children[n] = inodes[d].children[n]
                 /\ ~(d = dir /\ n = name)
      BY <2>3, <2>4
    <2>6. \A k, l \in DOMAIN inodes :
             \A w \in DOMAIN inodes[k].children, z \in DOMAIN inodes[l].children :
                inodes[k].children[w] = inodes[l].children[z] => k = l /\ w = z
      BY <1>1 DEF NamesLead, Child
    <2>7. (\A i : Named(i)' => Named(i)) /\ Named(ino)
      BY <1>4, <2>1, <2>5 DEF Named
    <2>8. ASSUME NEW d \in DOMAIN inodes', NEW n \in DOMAIN inodes'[d].children
          PROVE  inodes'[d].children[n] # ino
      BY <1>4, <2>1, <2>5, <2>6
    <2>9. InoInv'
      <3>1. ino \in Nat /\ ino < next_ino
        BY <1>1, <1>4, <2>1 DEF InoInv
      <3>2. \A i : i = ino => ~Named(i)'
        BY <2>8 DEF Named
      <3>3. \A d \in DOMAIN inodes' : \A x \in DOMAIN inodes'[d].children :
               inodes'[d].children[x] \in Nat /\ inodes'[d].children[x] < next_ino'
        BY <1>1, <1>2, <2>5 DEF InoInv
      <3>4. ASSUME NEW u \in Threads, pc'[u] \in {"add", "drop"}
            PROVE  call'[u].ino \in Nat /\ call'[u].ino < next_ino' /\ ~Named(call[u].ino)'
        <4>1. CASE u = t
          BY <1>2, <2>2, <3>1, <3>2, <4>1
        <4>2. CASE u # t
          BY <1>1, <1>2, <2>2, <2>7, <3>4, <4>2 DEF InoInv
        <4> QED BY <4>1, <4>2, Zenon
      <3>5. ASSUME NEW u \in Threads, NEW v \in Threads, pc'[u] = "add",
                   pc'[v] \in {"add", "drop"}, call'[u].ino = call'[v].ino
            PROVE  u = v
        <4>1. u # t /\ pc[u] = "add" /\ call'[u] = call[u] /\ ~Named(call[u].ino)
          BY <1>1, <2>2, <3>5 DEF InoInv
        <4>2. v # t
          BY <2>2, <2>7, <3>5, <4>1
        <4> QED BY <1>1, <2>2, <3>5, <4>1, <4>2 DEF InoInv
      <3> QED BY <1>1, <1>2, <3>3, <3>4, <3>5 DEF InoInv
    <2>10. NamesLead'
      <3> SUFFICES ASSUME NEW d \in DOMAIN inodes', NEW e \in DOMAIN inodes',
                          NEW x \in DOMAIN inodes'[d].children,
                          NEW y \in DOMAIN inodes'[e].children
                   PROVE  /\ \/ inodes'[d].children[x] \in DOMAIN inodes'
                             \/ \E u \in Threads : pc'[u] = "insert"
                                                   /\ call'[u].ino = inodes'[d].children[x]
                          /\ inodes'[d].children[x] = inodes'[e].children[y] => d = e /\ x = y
        BY DEF NamesLead, Child
      <3>1. \/ inodes[d].children[x] \in DOMAIN inodes
            \/ \E u \in Threads : pc[u] = "insert" /\ call[u].ino = inodes[d].children[x]
        BY <1>1, <2>5 DEF NamesLead, Child
      <3>2. \/ inodes'[d].children[x] \in DOMAIN inodes'
            \/ \E u \in Threads : pc'[u] = "insert" /\ call'[u].ino = inodes'[d].children[x]
        <4>1. DOMAIN inodes' = DOMAIN inodes
              /\ inodes'[d].children[x] = inodes[d].children[x]
          BY <2>3, <2>5, Zenon
        <4>2. \A u \in Threads : pc[u] = "insert" => pc'[u] = "insert" /\ call'[u] = call[u]
          BY <1>2, <2>2, Zenon
        <4> QED BY <3>1, <4>1, <4>2, Zenon
      <3> QED BY <2>5, <2>6, <3>2
    <2> QED BY <2>2, <2>3, <2>9, <2>10 DEF FSInv
  <1> QED BY <1>3, <1>4 DEF RemoveEntry

\* The inode that unlink drops has no name left, so no name is left without one.
LEMMA RemoveInodeStep ==
    ASSUME FSInv, NEW t \in Threads, RemoveInode(t)
    PROVE  FSInv'
  <1> DEFINE ino == call[t].ino
  <1>1. CallInv /\ TableInv /\ BlocksOwned /\ InoInv /\ NamesLead
    BY DEF FSInv
  <1>2. /\ pc[t] = "drop" /\ next_ino' = next_ino /\ next_blk' = next_blk
        /\ inodes' = [i \in DOMAIN inodes \ {ino} |-> inodes[i]]
        /\ Done(t)
    BY DEF RemoveInode
  <1>3. /\ CallInv' /\ pc'[t] = "idle"
        /\ \A u \in Threads \ {t} : pc'[u] = pc[u] /\ call'[u] = call[u]
    BY <1>1, <1>2, DoneFacts
  <1>4. /\ DOMAIN inodes' = DOMAIN inodes \ {ino}
        /\ inodes' = [i \in DOMAIN inodes' |-> inodes'[i]]
        /\ \A i \in DOMAIN inodes' : inodes'[i] = inodes[i]
    BY <1>2, Zenon
  <1>5. TableInv' /\ BlocksOwned'
    <2>1. ASSUME NEW j \in DOMAIN inodes'
          PROVE  /\ inodes'[j] \in [type : {inodes'[j].type}, blocks : Seq(Nat),
                                    size : {inodes'[j].size}, children : {inodes'[j].children}]
                 /\ j \in DOMAIN inodes /\ inodes'[j].blocks = inodes[j].blocks
      BY <1>1, <1>4, Zenon DEF TableInv, IsInode
    <2> QED BY <1>1, <1>2, <1>4, <2>1, BlocksKept, Zenon
  <1>6. \A i : Named(i)' => Named(i)
    BY <1>4, Zenon DEF Named
  <1>7. InoInv'
    <2>1. \A d \in DOMAIN inodes' : \A x \in DOMAIN inodes'[d].children :
             inodes'[d].children[x] \in Nat /\ inodes'[d].children[x] < next_ino'
      <3>1. \A d \in DOMAIN inodes : \A x \in DOMAIN inodes[d].children :
               inodes[d].children[x] \in Nat /\ inodes[d].children[x] < next_ino
        BY <1>1 DEF InoInv
      <3> QED BY <1>2, <1>4, <3>1, Zenon
    <2>2. \A u \in Threads : pc'[u] \in {"add", "drop"} => pc'[u] = pc[u] /\ call'[u] = call[u]
      BY <1>3
    <2>3. \A u \in Threads : pc'[u] \in {"add", "drop"} =>
             call'[u].ino \in Nat /\ call'[u].ino < next_ino' /\ ~Named(call[u].ino)'
      BY <1>1, <1>2, <1>6, <2>2 DEF InoInv
    <2>4. \A u, v \in Threads :
             pc'[u] = "add" /\ pc'[v] \in {"add", "drop"} /\ call'[u].ino = call'[v].ino => u = v
      BY <1>1, <2>2 DEF InoInv
    <2> QED BY <1>1, <1>2, <2>1, <2>3, <2>4, Zenon DEF InoInv
  <1>8. NamesLead'
    <2> SUFFICES ASSUME NEW d \in DOMAIN inodes', NEW e \in DOMAIN inodes',
                        NEW x \in DOMAIN inodes'[d].children,
                        NEW y \in DOMAIN inodes'[e].children
                 PROVE  /\ \/ inodes'[d].children[x] \in DOMAIN inodes'
                           \/ \E u \in Threads : pc'[u] = "insert"
                                                 /\ call'[u].ino = inodes'[d].children[x]
                        /\ inodes'[d].children[x] = inodes'[e].children[y] => d = e /\ x = y
      BY DEF NamesLead, Child
    <2>1. /\ d \in DOMAIN inodes /\ inodes'[d] = inodes[d] /\ x \in DOMAIN inodes[d].children
          /\ e \in DOMAIN inodes /\ inodes'[e] = inodes[e] /\ y \in DOMAIN inodes[e].children
      BY <1>4, Zenon
    <2>2. /\ \/ inodes[d].children[x] \in DOMAIN inodes
             \/ \E u \in Threads : pc[u] = "insert" /\ call[u].ino = inodes[d].children[x]
          /\ inodes[d].children[x] = inodes[e].children[y] => d = e /\ x = y
      BY <1>1, <2>1 DEF NamesLead, Child
    <2>3. inodes[d].children[x] # ino
      <3>1. ~Named(ino)
        BY <1>1, <1>2 DEF InoInv
      <3> QED BY <2>1, <3>1, Zenon DEF Named
    <2> QED BY <1>2, <1>3, <1>4, <2>1, <2>2, <2>3
  <1> QED BY <1>3, <1>5, <1>7, <1>8 DEF FSInv

LEMMA TruncateStep ==
    ASSUME FSInv, (\E t \in Threads : TruncateOpened(t))
                  \/ \E i \in Inos, size \in 0 .. MaxPos : Truncate(i, size)
    PROVE  FSInv'
  <1>1. CallInv /\ TableInv /\ BlocksOwned /\ InoInv /\ NamesLead
    BY DEF FSInv
  <1>2. ASSUME NEW t \in Threads, TruncateOpened(t) PROVE FSInv'
    <2>1. pc[t] = "truncate" /\ Done(t) /\ next_ino' = next_ino
      BY <1>2 DEF TruncateOpened
    <2>2. /\ CallInv' /\ pc'[t] = "idle"
          /\ \A u \in Threads \ {t} : pc'[u] = pc[u] /\ call'[u] = call[u]
      BY <1>1, <2>1, DoneFacts
    <2>3. TableInv' /\ BlocksOwned' /\ SameEntries
      <3>1. CASE call[t].ino \in DOMAIN inodes
        <4>1. Truncated(call[t].ino, 0) /\ 0 \in Nat
          BY <1>2, <3>1 DEF TruncateOpened
        <4> QED BY <1>1, <3>1, <4>1, TruncatedStep, Zenon
      <3>2. CASE call[t].ino \notin DOMAIN inodes
        BY <1>1, <1>2, <3>2 DEF TruncateOpened, TableInv, IsInode, BlocksOwned, SameEntries
      <3> QED BY <3>1, <3>2
    <2>4. InoInv' /\ NamesLead'
      BY <1>1, <2>1, <2>2, <2>3, EntriesKept
    <2> QED BY <2>2, <2>3, <2>4 DEF FSInv
  <1>3. ASSUME NEW i \in Inos, NEW size \in 0 .. MaxPos, Truncate(i, size) PROVE FSInv'
    <2>1. /\ i \in DOMAIN inodes /\ size \in Nat /\ Truncated(i, size)
          /\ next_ino' = next_ino /\ pc' = pc /\ call' = call
      BY <1>3, SimpleFSAssumption DEF Truncate
    <2>2. TableInv' /\ BlocksOwned' /\ SameEntries
      BY <1>1, <2>1, TruncatedStep, Zenon
    <2>3. InoInv' /\ NamesLead'
      BY <1>1, <2>1, <2>2, EntriesKept
    <2> QED BY <1>1, <2>1, <2>2, <2>3 DEF FSInv, CallInv
  <1> QED BY <1>2, <1>3

LEMMA WriteDataStep ==
    ASSUME FSInv, NEW i \in Inos, NEW offset \in Positions, NEW buf \in Bufs, NEW done,
           IsFile(i), WriteData(i, offset, buf, done)
    PROVE  FSInv'
  <1>1. CallInv /\ TableInv /\ BlocksOwned /\ InoInv /\ NamesLead
    BY DEF FSInv
  <1>2. i \in DOMAIN inodes /\ offset \in Nat /\ buf \in Seq(Nat)
    BY SimpleFSAssumption DEF IsFile, Positions
  <1>3. next_ino' = next_ino /\ pc' = pc /\ call' = call
    BY Zenon DEF WriteData
  <1>4. TableInv' /\ BlocksOwned' /\ SameEntries
    BY <1>1, <1>2, WriteStep, Zenon
  <1>5. InoInv' /\ NamesLead'
    BY <1>1, <1>3, <1>4, EntriesKept
  <1> QED BY <1>1, <1>3, <1>4, <1>5 DEF FSInv, CallInv

LEMMA InitInv == Init => FSInv
  <1> SUFFICES ASSUME Init PROVE FSInv
    OBVIOUS
  <1>1. DOMAIN inodes = {Root} /\ inodes[Root] = NewDir
        /\ inodes = [j \in DOMAIN inodes |-> inodes[j]]
    BY Zenon DEF Init
  <1>2. /\ NewDir \in [type : {NewDir.type}, blocks : Seq(Nat), size : {NewDir.size},
                       children : {NewDir.children}]
        /\ NewDir.blocks = <<>> /\ DOMAIN NewDir.children = {}
    BY NoElements DEF NewDir, NewInode, NoEntries
  <1>3. Len(<<>>) = 0 /\ DOMAIN <<>> = {}
    OBVIOUS
  <1>4. TableInv
    <2>1. IsInode(NewDir)
      BY <1>2, <1>3 DEF IsInode
    <2> QED BY <1>1, <2>1 DEF Init, TableInv
  <1>5. BlocksOwned
    BY <1>1, <1>2, <1>3, Zenon DEF BlocksOwned
  <1>6. CallInv
    BY DEF Init, CallInv, Labels, NoCall
  <1>7. InoInv
    BY <1>1, <1>2 DEF Init, InoInv
  <1>8. NamesLead
    BY <1>1, <1>2 DEF NamesLead
  <1> QED BY <1>4, <1>5, <1>6, <1>7, <1>8 DEF FSInv

LEMMA InvHolds == Spec => []FSInv
  <1>1. FSInv /\ [Next]_vars => FSInv'
    <2> SUFFICES ASSUME FSInv, [Next]_vars PROVE FSInv'
      OBVIOUS
    <2>1. CASE UNCHANGED vars
      <3>1. UNCHANGED <<inodes, next_ino, next_blk, pc, call>>
        BY <2>1, Zenon DEF vars
      <3>2. TableInv' /\ BlocksOwned' /\ CallInv'
        BY <3>1 DEF FSInv, TableInv, IsInode, BlocksOwned, CallInv
      <3>3. InoInv'
        BY <3>1 DEF FSInv, InoInv, Named
      <3>4. NamesLead'
        BY <3>1 DEF FSInv, NamesLead, Child
      <3> QED BY <3>2, <3>3, <3>4 DEF FSInv
    <2>2. CASE Next
      BY <2>2, LookupStep, AllocStep, AddStep, InsertStep, RemoveEntryStep, RemoveInodeStep,
         TruncateStep, WriteDataStep, Zenon DEF Next, CallStep
    <2> QED BY <2>1, <2>2
  <1> QED BY InitInv, <1>1, PTL DEF Spec

--------------------------------------------------------------------------------
(* Fresh inode numbers. *)

\* The inode number of a call that creates is nobody's yet: it is not in the
\* table and no other such call has it.
Creating == {"add", "insert"}
FreshInv ==
    /\ next_ino <= MaxIno + 1
    /\ \A i \in DOMAIN inodes : i \in Nat /\ i < next_ino
    /\ \A t \in Threads : pc[t] \in Creating =>
          call[t].ino \in Nat /\ call[t].ino < next_ino /\ call[t].ino \notin DOMAIN inodes
    /\ \A t, u \in Threads :
          pc[t] \in Creating /\ pc[u] \in Creating /\ call[t].ino = call[u].ino => t = u

\* Steps that take no inode number and put none into the table.
LEMMA FreshKept ==
    ASSUME FreshInv, next_ino' = next_ino, DOMAIN inodes' \subseteq DOMAIN inodes,
           \A u \in Threads : pc'[u] \in Creating =>
              pc[u] \in Creating /\ call'[u].ino = call[u].ino
    PROVE  FreshInv'
  <1>1. \A i \in DOMAIN inodes' : i \in Nat /\ i < next_ino'
    BY DEF FreshInv
  <1>2. \A u \in Threads : pc'[u] \in Creating =>
           call'[u].ino \in Nat /\ call'[u].ino < next_ino' /\ call'[u].ino \notin DOMAIN inodes'
    BY DEF FreshInv
  <1>3. \A u, v \in Threads :
           pc'[u] \in Creating /\ pc'[v] \in Creating /\ call'[u].ino = call'[v].ino => u = v
    BY DEF FreshInv
  <1>4. next_ino' <= MaxIno + 1
    BY DEF FreshInv
  <1> QED BY <1>1, <1>2, <1>3, <1>4, Zenon DEF FreshInv, Creating

LEMMA LookupFresh ==
    ASSUME FSInv, FreshInv, NEW t \in Threads, NEW op, NEW path, Lookup(t, op, path)
    PROVE  FreshInv'
  <1>1. CallInv
    BY DEF FSInv
  <1>2. UNCHANGED <<inodes, next_ino>>
    BY DEF Lookup
  <1>3. \E to \in {"idle", "alloc", "truncate", "remove"} : pc' = [pc EXCEPT ![t] = to]
        /\ \E c : call' = [call EXCEPT ![t] = c]
    BY Zenon DEF Lookup, Done, GoOn
  <1>4. \A u \in Threads : pc'[u] \in Creating => pc[u] \in Creating /\ call'[u].ino = call[u].ino
    <2>1. pc \in [Threads -> Labels] /\ call = [u \in Threads |-> call[u]]
      BY <1>1 DEF CallInv
    <2>2. pc'[t] \in {"idle", "alloc", "truncate", "remove"}
          /\ \A u \in Threads \ {t} : pc'[u] = pc[u] /\ call'[u] = call[u]
      BY <1>3, <2>1
    <2> QED BY <2>2 DEF Creating
  <1> QED BY <1>2, <1>4, FreshKept

\* alloc_ino: the number is above all those in use.
LEMMA AllocFresh ==
    ASSUME FSInv, FreshInv, NEW t \in Threads, AllocIno(t)
    PROVE  FreshInv'
  <1>1. CallInv /\ next_ino \in Nat
    BY DEF FSInv, InoInv
  <1>2. UNCHANGED inodes /\ next_ino <= MaxIno /\ next_ino' = next_ino + 1
    BY DEF AllocIno
  <1>3. /\ pc'[t] = "add" /\ call'[t].ino = next_ino
        /\ \A u \in Threads \ {t} : pc'[u] = pc[u] /\ call'[u] = call[u]
    <2> DEFINE c == [call[t] EXCEPT !.ino = next_ino]
    <2>1. GoOn(t, "add", c) /\ "add" \in Labels
      BY DEF AllocIno, Labels
    <2>2. c \in [op : {c.op}, dir : {c.dir}, name : {c.name}, ino : {c.ino}] /\ c.ino = next_ino
      BY <1>1, WithIno, Zenon
    <2> HIDE DEF c
    <2> QED BY <1>1, <2>1, <2>2, GoOnFacts
  <1>4. FreshInv'
    <2>1. \A i \in DOMAIN inodes' : i \in Nat /\ i < next_ino'
      BY <1>1, <1>2 DEF FreshInv
    <2>2. next_ino \notin DOMAIN inodes
      BY <1>1 DEF FreshInv
    <2>3. ASSUME NEW u \in Threads, pc'[u] \in Creating
          PROVE  /\ call'[u].ino \in Nat /\ call'[u].ino < next_ino'
                 /\ call'[u].ino \notin DOMAIN inodes'
                 /\ u # t => pc[u] \in Creating /\ call'[u].ino = call[u].ino
                             /\ call[u].ino # next_ino
      <3>1. CASE u = t
        BY <1>1, <1>2, <1>3, <2>2, <3>1
      <3>2. CASE u # t
        BY <1>1, <1>2, <1>3, <2>3, <3>2 DEF FreshInv
      <3> QED BY <3>1, <3>2
    <2>4. ASSUME NEW u \in Threads, NEW v \in Threads, pc'[u] \in Creating,
                 pc'[v] \in Creating, call'[u].ino = call'[v].ino
          PROVE  u = v
      <3>1. CASE u = t \/ v = t
        BY <1>3, <2>3, <2>4, <3>1
      <3>2. CASE u # t /\ v # t
        BY <1>1, <2>3, <2>4, <3>2 DEF FreshInv
      <3> QED BY <3>1, <3>2
    <2>5. next_ino' <= MaxIno + 1
      BY <1>1, <1>2, SimpleFSAssumption
    <2> QED BY <2>1, <2>3, <2>4, <2>5, Zenon DEF FreshInv, Creating
  <1> QED BY <1>4

\* The inode that create_file and create_dir insert was not in the table.
LEMMA InsertFresh ==
    ASSUME FSInv, FreshInv, NEW t \in Threads, InsertInode(t)
    PROVE  FreshInv' /\ call[t].ino \in Inos \ DOMAIN inodes
  <1> DEFINE ino == call[t].ino
  <1>1. CallInv /\ next_ino \in Nat
    BY DEF FSInv, InoInv
  <1>2. /\ pc[t] = "insert" /\ next_ino' = next_ino
        /\ DOMAIN inodes' = DOMAIN inodes \cup {ino}
        /\ Done(t) \/ GoOn(t, "truncate", call[t])
    BY Zenon DEF InsertInode
  <1>3. /\ pc'[t] \in {"idle", "truncate"}
        /\ \A u \in Threads \ {t} : pc'[u] = pc[u] /\ call'[u] = call[u]
    <2>1. CASE Done(t)
      BY <1>1, <2>1, DoneFacts
    <2>2. CASE GoOn(t, "truncate", call[t])
      BY <1>1, <2>2, GoOnFacts DEF CallInv, Labels
    <2> QED BY <1>2, <2>1, <2>2
  <1>4. ino \in Nat /\ ino < next_ino /\ ino \notin DOMAIN inodes /\ ino \in Inos
    <2>1. ino \in Nat /\ ino < next_ino /\ ino \notin DOMAIN inodes /\ next_ino <= MaxIno + 1
      BY <1>1, <1>2 DEF FreshInv, Creating
    <2> HIDE DEF ino
    <2> QED BY <1>1, <2>1, SimpleFSAssumption DEF Inos, Root
  <1>5. FreshInv'
    <2>1. \A i \in DOMAIN inodes' : i \in Nat /\ i < next_ino'
      BY <1>1, <1>2, <1>4 DEF FreshInv
    <2>2. \A u \in Threads : pc'[u] \in Creating =>
             u # t /\ pc[u] \in Creating /\ call'[u].ino = call[u].ino /\ call[u].ino # ino
      BY <1>1, <1>2, <1>3 DEF FreshInv, Creating
    <2>3. \A u \in Threads : pc'[u] \in Creating =>
             call'[u].ino \in Nat /\ call'[u].ino < next_ino' /\ call'[u].ino \notin DOMAIN inodes'
      BY <1>1, <1>2, <2>2 DEF FreshInv
    <2>4. \A u, v \in Threads :
             pc'[u] \in Creating /\ pc'[v] \in Creating /\ call'[u].ino = call'[v].ino => u = v
      BY <1>1, <2>2 DEF FreshInv
    <2>5. next_ino' <= MaxIno + 1
      BY <1>1, <1>2 DEF FreshInv
    <2> QED BY <2>1, <2>3, <2>4, <2>5, Zenon DEF FreshInv, Creating
  <1> QED BY <1>4, <1>5

\* The other steps of the calls.
LEMMA CallFresh ==
    ASSUME FSInv, FreshInv, NEW t \in Threads,
           AddEntry(t) \/ RemoveEntry(t) \/ RemoveInode(t) \/ TruncateOpened(t)
    PROVE  FreshInv'
  <1>1. CallInv /\ TableInv
    BY DEF FSInv
  <1>2. next_ino' = next_ino
    BY Zenon DEF AddEntry, RemoveEntry, RemoveInode, TruncateOpened
  <1>3. DOMAIN inodes' \subseteq DOMAIN inodes
    <2>1. ASSUME NEW dir, NEW kids, SetChildren(dir, kids) PROVE DOMAIN inodes' = DOMAIN inodes
      BY <1>1, <2>1, Zenon DEF SetChildren, TableInv
    <2>2. ASSUME NEW i, NEW size, Truncated(i, size) PROVE DOMAIN inodes' = DOMAIN inodes
      BY <1>1, <2>2, Zenon DEF Truncated, TableInv
    <2>3. RemoveInode(t) => DOMAIN inodes' \subseteq DOMAIN inodes
      BY Zenon DEF RemoveInode
    <2> QED BY <2>1, <2>2, <2>3, Zenon DEF AddEntry, RemoveEntry, TruncateOpened
  <1>4. \/ Done(t)
        \/ pc[t] = "add" /\ GoOn(t, "insert", call[t])
        \/ \E i : GoOn(t, "drop", [call[t] EXCEPT !.ino = i])
    BY Zenon DEF AddEntry, RemoveEntry, RemoveInode, TruncateOpened
  <1>5. \A u \in Threads : pc'[u] \in Creating => pc[u] \in Creating /\ call'[u].ino = call[u].ino
    <2>1. CASE Done(t)
      BY <1>1, <2>1, DoneFacts DEF Creating
    <2>2. CASE pc[t] = "add" /\ GoOn(t, "insert", call[t])
      <3>1. /\ call'[t] = call[t]
            /\ \A u \in Threads \ {t} : pc'[u] = pc[u] /\ call'[u] = call[u]
        BY <1>1, <2>2, GoOnFacts DEF CallInv, Labels
      <3> QED BY <2>2, <3>1 DEF Creating
    <2>3. ASSUME NEW i, GoOn(t, "drop", [call[t] EXCEPT !.ino = i]) PROVE <1>5
      <3> DEFINE c == [call[t] EXCEPT !.ino = i]
      <3>1. GoOn(t, "drop", c) /\ "drop" \in Labels
        BY <2>3 DEF Labels
      <3>2. c \in [op : {c.op}, dir : {c.dir}, name : {c.name}, ino : {c.ino}]
        BY <1>1, WithIno, Zenon
      <3> HIDE DEF c
      <3>3. pc'[t] = "drop" /\ \A u \in Threads \ {t} : pc'[u] = pc[u] /\ call'[u] = call[u]
        BY <1>1, <3>1, <3>2, GoOnFacts
      <3> QED BY <3>3 DEF Creating
    <2> QED BY <1>4, <2>1, <2>2, <2>3, Zenon
  <1> QED BY <1>2, <1>3, <1>5, FreshKept

LEMMA DataFresh ==
    ASSUME FSInv, FreshInv, NEW i,
           \/ \E size : Truncate(i, size)
           \/ \E offset, buf, done : WriteData(i, offset, buf, done)
    PROVE  FreshInv'
  <1>1. inodes = [j \in DOMAIN inodes |-> inodes[j]]
    BY DEF FSInv, TableInv
  <1>2. ASSUME NEW size, Truncate(i, size) PROVE FreshInv'
    <2>1. next_ino' = next_ino /\ pc' = pc /\ call' = call
      BY <1>2 DEF Truncate
    <2>2. DOMAIN inodes' = DOMAIN inodes
      BY <1>1, <1>2, Zenon DEF Truncate, Truncated
    <2> QED BY <2>1, <2>2, FreshKept
  <1>3. ASSUME NEW offset, NEW buf, NEW done, WriteData(i, offset, buf, done) PROVE FreshInv'
    <2>1. next_ino' = next_ino /\ pc' = pc /\ call' = call
      BY <1>3, Zenon DEF WriteData
    <2>2. DOMAIN inodes' = DOMAIN inodes
      BY <1>1, <1>3, Zenon DEF WriteData
    <2> QED BY <2>1, <2>2, FreshKept
  <1> QED BY <1>2, <1>3, Zenon

LEMMA FreshHolds == Spec => []FreshInv
  <1>1. Init => FreshInv
    <2> SUFFICES ASSUME Init PROVE FreshInv
      OBVIOUS
    <2>1. DOMAIN inodes = {Root}
      BY Zenon DEF Init
    <2> QED BY <2>1, SimpleFSAssumption DEF Init, FreshInv, Creating, Root
  <1>2. FSInv /\ FreshInv /\ [Next]_vars => FreshInv'
    <2> SUFFICES ASSUME FSInv, FreshInv, [Next]_vars PROVE FreshInv'
      OBVIOUS
    <2>1. CASE UNCHANGED vars
      BY <2>1, FreshKept DEF vars
    <2>2. CASE Next
      BY <2>2, LookupFresh, AllocFresh, InsertFresh, CallFresh, DataFresh, Zenon
         DEF Next, CallStep
    <2> QED BY <2>1, <2>2
  <1> QED BY InvHolds, <1>1, <1>2, PTL DEF Spec

--------------------------------------------------------------------------------
(* The bytes of the files. *)

StoreInv ==
    /\ next_blk <= MaxBlk
    /\ store = [b \in Blks |-> store[b]]
    /\ \A b \in Blks : store[b] = [o \in 1..BLOCK_SZ |-> store[b][o]]
    /\ written = [i \in Inos |-> written[i]]
    /\ \A i \in DOMAIN inodes : i \in Inos /\ inodes[i].size \in Nat
    /\ \A i \in Inos \ DOMAIN inodes : written[i] = Unwritten

\* The byte of file i at position p is in the block that p falls into, below the
\* size, and it is the one last written.
ByteAt(i, p) == store[inodes[i].blocks[(p \div BLOCK_SZ) + 1]][(p % BLOCK_SZ) + 1]
BytesAt(i) ==
    \A p \in Positions : written[i][p] # Nothing =>
        /\ p < inodes[i].size
        /\ p \div BLOCK_SZ < Len(inodes[i].blocks)
        /\ ByteAt(i, p) = written[i][p]

DataInv == \A i \in DOMAIN inodes : BytesAt(i)

\* What write_data makes of block k of a file whose blocks are b.
Changed(b, k, offset, buf) ==
    [o \in 1..BLOCK_SZ |->
        IF BlkOff(k, offset) < o /\ o <= BlkEnd(k, offset, Len(buf))
        THEN buf[Total(offset, Len(buf))[k] + o - BlkOff(k, offset)]
        ELSE store[b[k + 1]][o]]

LEMMA NextCell == \A a, n \in Nat : a < n => a + 1 \in 1..n
  OBVIOUS

\* The buffer's byte for each position of the write, the old byte elsewhere.
LEMMA ChangedByte ==
    ASSUME NEW offset \in Nat, NEW buf, Len(buf) \in Nat \ {0}, NEW b, NEW p \in Nat,
           p \div BLOCK_SZ \in StartBlk(offset) .. EndBlk(offset, Len(buf))
    PROVE  /\ p \in offset .. offset + Len(buf) - 1 =>
                 Changed(b, p \div BLOCK_SZ, offset, buf)[(p % BLOCK_SZ) + 1]
                    = buf[p - offset + 1]
           /\ p \notin offset .. offset + Len(buf) - 1 =>
                 Changed(b, p \div BLOCK_SZ, offset, buf)[(p % BLOCK_SZ) + 1]
                    = store[b[(p \div BLOCK_SZ) + 1]][(p % BLOCK_SZ) + 1]
  <1> DEFINE n == Len(buf)
             k == p \div BLOCK_SZ
             r == p % BLOCK_SZ
             c == k * BLOCK_SZ
             off == BlkOff(k, offset)
             end == BlkEnd(k, offset, n)
             tot == Total(offset, n)[k]
  <1>0. BLOCK_SZ \in Nat \ {0} /\ n \in Nat \ {0}
    BY SimpleFSAssumption
  <1>1. k \in Nat /\ c \in Nat /\ r \in 0..(BLOCK_SZ - 1) /\ p = c + r
    BY BlockOf, Zenon
  <1>2. p \in offset .. offset + n - 1 <=> off < r + 1 /\ r + 1 <= end
    <2> HIDE DEF n
    <2>1. k \in StartBlk(offset) .. EndBlk(offset, n)
      BY DEF n
    <2> QED BY <1>0, <2>1, PartHolds, Zenon
  <1>3. tot = c + off - offset /\ off \in Nat
    <2> HIDE DEF n, k
    <2>1. k \in StartBlk(offset) .. EndBlk(offset, n)
      BY DEF n, k
    <2>2. off \in Nat
      BY <1>0, <2>1, PartOfBlock, Zenon
    <2>3. tot = c + off - offset
      BY <1>0, <2>1, TotalIs, Zenon
    <2> QED BY <2>2, <2>3
  <1>4. r + 1 \in 1..BLOCK_SZ
    <2> HIDE DEF r
    <2> QED BY <1>0, <1>1
  <1>5. tot + (r + 1) - off = p - offset + 1
    <2> HIDE DEF tot, off, r, c
    <2> QED BY <1>0, <1>1, <1>3
  <1>6. Changed(b, k, offset, buf)[r + 1] =
           IF off < r + 1 /\ r + 1 <= end THEN buf[tot + (r + 1) - off] ELSE store[b[k + 1]][r + 1]
    BY <1>4, Zenon DEF Changed
  <1> HIDE DEF n, k, r, off, end, tot
  <1>7. /\ p \in offset .. offset + n - 1 => Changed(b, k, offset, buf)[r + 1] = buf[p - offset + 1]
        /\ p \notin offset .. offset + n - 1 =>
              Changed(b, k, offset, buf)[r + 1] = store[b[k + 1]][r + 1]
    <2>1. CASE p \in offset .. offset + n - 1
      BY <1>2, <1>5, <1>6, <2>1
    <2>2. CASE p \notin offset .. offset + n - 1
      BY <1>2, <1>6, <2>2
    <2> QED BY <2>1, <2>2, Zenon
  <1> QED BY <1>7 DEF n, k, r

LEMMA InBlks ==
    ASSUME NEW c \in Nat, NEW nb \in Nat, c < nb, nb <= MaxBlk
    PROVE  c \in Blks
  BY SimpleFSAssumption DEF Blks

\* write_data: what was put is where read_data looks for it, and the bytes around
\* it, in this file and in the others, are what they were.
LEMMA WriteBytes ==
    ASSUME TableInv, TableInv', BlocksOwned', StoreInv, DataInv, NEW i \in DOMAIN inodes,
           NEW offset \in Nat, NEW buf, Len(buf) \in Nat \ {0}, NEW done \in Nat,
           done <= EndBlk(offset, Len(buf)) - StartBlk(offset) + 1,
           WriteData(i, offset, buf, done)
    PROVE  StoreInv' /\ DataInv'
  <1>byte. ASSUME NEW a, NEW p \in Nat,
                  p \div BLOCK_SZ \in StartBlk(offset) .. EndBlk(offset, Len(buf))
           PROVE  /\ p \in offset .. offset + Len(buf) - 1 =>
                        Changed(a, p \div BLOCK_SZ, offset, buf)[(p % BLOCK_SZ) + 1]
                           = buf[p - offset + 1]
                  /\ p \notin offset .. offset + Len(buf) - 1 =>
                        Changed(a, p \div BLOCK_SZ, offset, buf)[(p % BLOCK_SZ) + 1]
                           = store[a[(p \div BLOCK_SZ) + 1]][(p % BLOCK_SZ) + 1]
    BY <1>byte, ChangedByte
  <1> DEFINE n == Len(buf)
             s == StartBlk(offset)
             e == EndBlk(offset, n)
             f == inodes[i]
             old == f.blocks
             missing == Max({e + 1 - Len(old), 0})
             b == old \o [k \in 1..missing |-> next_blk + k - 1]
             put == s .. s + done - 1
             size == IF s + done > e THEN Grown(f.size, offset + n) ELSE f.size
             hit(p) == /\ p \in offset .. offset + n - 1 /\ p \div BLOCK_SZ \in put
                       /\ (p < f.size \/ s + done > e)
             block(c) == CHOOSE k \in put : b[k + 1] = c
  <1>0. BLOCK_SZ \in Nat \ {0} /\ MaxBlk \in Nat /\ MaxPos \in Nat /\ n \in Nat \ {0}
    BY SimpleFSAssumption
  <1>1. /\ next_blk + missing <= MaxBlk
        /\ next_blk' = next_blk + missing
        /\ inodes' = [inodes EXCEPT ![i].blocks = b, ![i].size = size]
        /\ store' = [c \in Blks |-> IF \E k \in put : b[k + 1] = c
                                    THEN Changed(b, block(c), offset, buf) ELSE store[c]]
        /\ written' = [written EXCEPT ![i] =
                         [p \in Positions |-> IF hit(p) THEN buf[p - offset + 1]
                                              ELSE written[i][p]]]
    BY Zenon DEF WriteData, Changed, Total, Totals
  <1>2. /\ s \in Nat /\ e \in Nat /\ s <= e
    BY <1>0, AccessEnds, Zenon
  <1>3. /\ old \in Seq(Nat) /\ Len(old) \in Nat /\ next_blk \in Nat
        /\ f.size \in Nat /\ i \in Inos
    <2>1. old \in Seq(Nat) /\ next_blk \in Nat
      BY DEF TableInv, IsInode
    <2> QED BY <2>1, SeqLen DEF StoreInv
  <1>4. missing \in Nat /\ missing >= e + 1 - Len(old)
    <2> HIDE DEF e, old
    <2>1. e + 1 - Len(old) \in Int /\ 0 \in Int
      BY <1>2, <1>3
    <2>2. missing = IF e + 1 - Len(old) >= 0 THEN e + 1 - Len(old) ELSE 0
      BY <2>1, MaxOfTwo, Zenon
    <2> QED BY <2>1, <2>2
  <1> HIDE DEF missing
  <1>5. /\ b \in Seq(Nat) /\ Len(b) = Len(old) + missing
        /\ \A x \in 1..Len(old) : b[x] = old[x]
    <2>1. old \in Seq(Nat) /\ next_blk \in Nat /\ missing \in Nat
      BY <1>3, <1>4
    <2>2. /\ b \in Seq(Nat) /\ Len(b) = Len(old) + missing
          /\ \A x \in 1..Len(old) : b[x] = old[x]
          /\ \A x \in 1..Len(b) : x \notin 1..Len(old) =>
                b[x] = next_blk + (x - Len(old)) - 1 /\ next_blk <= b[x] /\ b[x] < next_blk + missing
      BY <2>1, GrownBlocks, Zenon
    <2> QED BY <2>2, Zenon
  <1> HIDE DEF b
  <1>6. Len(b) \in Nat /\ Len(b) >= e + 1 /\ Len(b) >= Len(old)
    <2> HIDE DEF e, old
    <2> QED BY <1>2, <1>3, <1>4, <1>5
  <1>7. /\ size \in Nat /\ f.size <= size
        /\ s + done > e => offset + n <= size
    <2> HIDE DEF f, s, e, n
    <2>1. f.size \in Int /\ offset + n \in Int
      BY <1>0, <1>3
    <2>2. Grown(f.size, offset + n) = IF f.size >= offset + n THEN f.size ELSE offset + n
      BY <2>1, MaxOfTwo, Zenon DEF Grown
    <2> QED BY <1>0, <1>3, <2>2
  <1> HIDE DEF size
  <1>8. /\ DOMAIN inodes' = DOMAIN inodes
        /\ inodes'[i].blocks = b /\ inodes'[i].size = size
        /\ \A j \in DOMAIN inodes \ {i} : inodes'[j] = inodes[j]
    <2>1. inodes = [j \in DOMAIN inodes |-> inodes[j]]
      BY DEF TableInv
    <2>2. /\ DOMAIN inodes' = DOMAIN inodes
          /\ inodes'[i] = [f EXCEPT !.blocks = b, !.size = size]
          /\ \A j \in DOMAIN inodes \ {i} : inodes'[j] = inodes[j]
      BY <1>1, <2>1, Zenon
    <2> HIDE DEF f
    <2>3. f \in [type : {f.type}, blocks : Seq(Nat), size : {f.size}, children : {f.children}]
      BY DEF TableInv, IsInode, f
    <2>4. LET g == [f EXCEPT !.blocks = b, !.size = size] IN g.blocks = b /\ g.size = size
      BY <2>3, Zenon
    <2> QED BY <2>2, <2>4, Zenon
  <1> HIDE DEF old, f
  <1>9. \A k \in put : k \in s .. e /\ k \in Nat /\ k + 1 \in 1..Len(b)
    <2> HIDE DEF n
    <2>1. done <= e - s + 1
      BY DEF n
    <2> HIDE DEF s, e
    <2> QED BY <1>2, <1>6, <2>1
  <1>10. ASSUME NEW j \in DOMAIN inodes, NEW x \in 1..Len(inodes'[j].blocks)
         PROVE  inodes'[j].blocks[x] \in Blks
    <2>1. inodes'[j].blocks \in Seq(Nat) /\ inodes'[j].blocks[x] < next_blk'
      BY <1>8 DEF TableInv, IsInode
    <2>2. inodes'[j].blocks[x] \in Nat
      BY <2>1, SeqLen, Zenon
    <2>3. next_blk' \in Nat /\ next_blk' <= MaxBlk
      BY <1>1, <1>3, <1>4
    <2> QED BY <2>1, <2>2, <2>3, InBlks, Zenon
  <1>11. \A j \in DOMAIN inodes : DOMAIN inodes'[j].blocks = 1..Len(inodes'[j].blocks)
    BY <1>8, SeqLen DEF TableInv, IsInode
  <1>12. ASSUME NEW x \in 1..Len(b)
         PROVE  /\ x - 1 \in put => store'[b[x]] = Changed(b, x - 1, offset, buf)
                /\ x - 1 \notin put => store'[b[x]] = store[b[x]]
    <2>1. b[x] \in Blks
      BY <1>8, <1>10
    <2>2. ASSUME NEW k \in put, b[k + 1] = b[x] PROVE k = x - 1
      <3>1. k \in Nat /\ k + 1 \in 1..Len(b)
        BY <1>9, Zenon
      <3>2. x = k + 1
        <4>1. k + 1 \in DOMAIN inodes'[i].blocks /\ x \in DOMAIN inodes'[i].blocks
          BY <1>8, <1>11, <3>1, Zenon
        <4>2. inodes'[i].blocks[k + 1] = inodes'[i].blocks[x]
          BY <1>8, <2>2, Zenon
        <4>3. \A y, z \in DOMAIN inodes'[i].blocks :
                 inodes'[i].blocks[y] = inodes'[i].blocks[z] => y = z
          BY <1>8 DEF BlocksOwned
        <4> QED BY <4>1, <4>2, <4>3, Zenon
      <3> QED BY <3>1, <3>2
    <2>3. CASE x - 1 \in put
      <3>1. (x - 1) + 1 = x
        OBVIOUS
      <3>2. block(b[x]) = x - 1
        BY <2>2, <2>3, <3>1, Zenon
      <3> HIDE DEF block, put
      <3> QED BY <1>1, <2>1, <2>3, <3>1, <3>2, Zenon
    <2>4. CASE x - 1 \notin put
      <3>1. ~\E k \in put : b[k + 1] = b[x]
        BY <2>2, <2>4, Zenon
      <3> HIDE DEF block, put
      <3> QED BY <1>1, <2>1, <2>4, <3>1, Zenon
    <2> QED BY <2>3, <2>4, Zenon
  <1>13. ASSUME NEW j \in DOMAIN inodes \ {i}, NEW x \in 1..Len(inodes[j].blocks)
         PROVE  store'[inodes[j].blocks[x]] = store[inodes[j].blocks[x]]
    <2> DEFINE c == inodes[j].blocks[x]
    <2>1. c \in Blks /\ c = inodes'[j].blocks[x] /\ x \in DOMAIN inodes'[j].blocks
      BY <1>8, <1>10, <1>11
    <2> HIDE DEF c
    <2>2. ASSUME NEW k \in put, b[k + 1] = c PROVE FALSE
      <3>1. k + 1 \in DOMAIN inodes'[i].blocks
        BY <1>8, <1>9, <1>11, Zenon
      <3>2. inodes'[i].blocks[k + 1] = inodes'[j].blocks[x]
        BY <1>8, <2>1, <2>2, Zenon
      <3> QED BY <1>8, <2>1, <3>1, <3>2, Zenon DEF BlocksOwned
    <2>3. store'[c] = store[c]
      <3> HIDE DEF put, block
      <3> QED BY <1>1, <2>1, <2>2, Zenon
    <2> QED BY <2>3 DEF c

  <1>14. \A p \in Positions : p \in Nat
    BY <1>0 DEF Positions
  <1>15. /\ written'[i] = [p \in Positions |-> IF hit(p) THEN buf[p - offset + 1]
                                               ELSE written[i][p]]
         /\ written' = [j \in Inos |-> written'[j]]
         /\ \A j \in Inos \ {i} : written'[j] = written[j]
    <2>1. written = [j \in Inos |-> written[j]]
      BY DEF StoreInv
    <2> HIDE DEF hit
    <2> QED BY <1>1, <1>3, <2>1, Zenon
  <1>16. StoreInv'
    <2>1. next_blk' <= MaxBlk
      BY <1>1
    <2>2. store' = [c \in Blks |-> store'[c]]
      <3> HIDE DEF put, block
      <3> QED BY <1>1, Zenon
    <2>3. ASSUME NEW c \in Blks PROVE store'[c] = [o \in 1..BLOCK_SZ |-> store'[c][o]]
      <3> HIDE DEF put, block
      <3>1. store'[c] = store[c] \/ store'[c] = Changed(b, block(c), offset, buf)
        BY <1>1, Zenon
      <3>2. store[c] = [o \in 1..BLOCK_SZ |-> store[c][o]]
        BY DEF StoreInv
      <3>3. Changed(b, block(c), offset, buf) =
              [o \in 1..BLOCK_SZ |-> Changed(b, block(c), offset, buf)[o]]
        BY Zenon DEF Changed
      <3> QED BY <3>1, <3>2, <3>3, Zenon
    <2>4. \A j \in DOMAIN inodes' : j \in Inos /\ inodes'[j].size \in Nat
      BY <1>3, <1>7, <1>8, Zenon DEF StoreInv
    <2>5. \A j \in Inos \ DOMAIN inodes' : written'[j] = Unwritten
      BY <1>8, <1>15, Zenon DEF StoreInv
    <2>6. Unwritten' = Unwritten
      BY DEF Unwritten, Nothing, Positions
    <2> QED BY <1>15, <2>1, <2>2, <2>3, <2>4, <2>5, <2>6, Zenon DEF StoreInv
  <1>17. ASSUME NEW j \in DOMAIN inodes \ {i} PROVE BytesAt(j)'
    <2> SUFFICES ASSUME NEW p \in Positions, written'[j][p] # Nothing
                 PROVE  /\ p < inodes'[j].size
                        /\ p \div BLOCK_SZ < Len(inodes'[j].blocks)
                        /\ ByteAt(j, p)' = written'[j][p]
      BY Zenon DEF BytesAt
    <2>1. inodes'[j] = inodes[j] /\ written'[j] = written[j]
      BY <1>8, <1>15 DEF StoreInv
    <2>2. /\ p < inodes[j].size
          /\ p \div BLOCK_SZ < Len(inodes[j].blocks)
          /\ ByteAt(j, p) = written[j][p]
      BY <2>1, Zenon DEF DataInv, BytesAt
    <2>3. (p \div BLOCK_SZ) + 1 \in 1..Len(inodes[j].blocks)
      <3>1. p \div BLOCK_SZ \in Nat
        BY <1>14, BlockOf, Zenon
      <3>2. Len(inodes[j].blocks) \in Nat
        BY SeqLen DEF TableInv, IsInode
      <3> QED BY <2>2, <3>1, <3>2, NextCell, Zenon
    <2>4. ByteAt(j, p)' = ByteAt(j, p)
      BY <1>13, <2>1, <2>3, Zenon DEF ByteAt
    <2> QED BY <2>1, <2>2, <2>4, Zenon
  <1>18. BytesAt(i)'
    <2> SUFFICES ASSUME NEW p \in Positions, written'[i][p] # Nothing
                 PROVE  /\ p < size
                        /\ p \div BLOCK_SZ < Len(b)
                        /\ ByteAt(i, p)' = written'[i][p]
      BY <1>8, Zenon DEF BytesAt
    <2> DEFINE k == p \div BLOCK_SZ
               r == p % BLOCK_SZ
    <2>1. p \in Nat /\ k \in Nat
      BY <1>14, BlockOf, Zenon
    <2>2. written'[i][p] = IF hit(p) THEN buf[p - offset + 1] ELSE written[i][p]
      <3> HIDE DEF hit
      <3> QED BY <1>15, Zenon
    <2>3. ByteAt(i, p)' = store'[b[k + 1]][r + 1]
      BY <1>8, Zenon DEF ByteAt
    <2>4. CASE hit(p)
      <3>1. k \in put /\ k \in s .. e /\ p \in offset .. offset + n - 1
        BY <1>9, <2>4, Zenon
      <3>2. p < size
        <4>1. p < f.size \/ s + done > e
          BY <2>4, Zenon
        <4> HIDE DEF k, f, s, e, n, put
        <4>2. p < offset + n
          BY <1>0, <2>1, <3>1
        <4>3. f.size \in Nat /\ size \in Nat /\ offset + n \in Nat
          BY <1>0, <1>3, <1>7
        <4> QED BY <1>7, <2>1, <4>1, <4>2, <4>3
      <3> HIDE DEF put
      <3>3. k < Len(b) /\ k + 1 \in 1..Len(b) /\ (k + 1) - 1 = k
        <4> HIDE DEF k, s, e
        <4> QED BY <1>2, <1>6, <2>1, <3>1
      <3>4. store'[b[k + 1]] = Changed(b, k, offset, buf)
        <4> HIDE DEF k
        <4> QED BY <1>12, <3>1, <3>3, Zenon
      <3>5. Changed(b, k, offset, buf)[r + 1] = buf[p - offset + 1]
        <4>1. /\ Len(buf) \in Nat \ {0} /\ p \in Nat
              /\ p \div BLOCK_SZ \in StartBlk(offset) .. EndBlk(offset, Len(buf))
              /\ p \in offset .. offset + Len(buf) - 1
          BY <2>1, <3>1
        <4> QED BY <4>1, <1>byte, Zenon
      <3> QED BY <2>2, <2>3, <2>4, <3>2, <3>3, <3>4, <3>5, Zenon
    <2>5. CASE ~hit(p)
      <3>1. written'[i][p] = written[i][p]
        BY <2>2, <2>5, Zenon
      <3>2. p < f.size /\ k < Len(old) /\ store[old[k + 1]][r + 1] = written[i][p]
        BY <3>1, Zenon DEF DataInv, BytesAt, ByteAt, old, f
      <3>3. /\ p < size /\ k < Len(b)
            /\ k + 1 \in 1..Len(old) /\ k + 1 \in 1..Len(b) /\ (k + 1) - 1 = k
        <4> HIDE DEF k
        <4>1. p < size
          BY <1>3, <1>7, <2>1, <3>2
        <4>2. k < Len(b) /\ k + 1 \in 1..Len(old) /\ k + 1 \in 1..Len(b) /\ (k + 1) - 1 = k
          BY <1>3, <1>6, <2>1, <3>2
        <4> QED BY <4>1, <4>2
      <3>4. b[k + 1] = old[k + 1]
        BY <1>5, <3>3, Zenon
      <3>5. CASE k \in put
        <4>1. p \notin offset .. offset + n - 1
          BY <2>5, <3>2, <3>5, Zenon
        <4>2. k \in s .. e
          BY <1>9, <3>5, Zenon
        <4>3. Changed(b, k, offset, buf)[r + 1] = store[b[k + 1]][r + 1]
          <5>1. /\ Len(buf) \in Nat \ {0} /\ p \in Nat
                /\ p \div BLOCK_SZ \in StartBlk(offset) .. EndBlk(offset, Len(buf))
                /\ p \notin offset .. offset + Len(buf) - 1
            BY <2>1, <4>1, <4>2
          <5> QED BY <5>1, <1>byte, Zenon
        <4>4. store'[b[k + 1]] = Changed(b, k, offset, buf)
          <5> HIDE DEF k, put
          <5>1. k + 1 \in 1..Len(b) /\ (k + 1) - 1 = k
            BY <3>3
          <5> QED BY <1>12, <3>5, <5>1, Zenon
        <4> QED BY <2>3, <3>1, <3>2, <3>3, <3>4, <4>3, <4>4, Zenon
      <3>6. CASE k \notin put
        <4>1. store'[b[k + 1]] = store[b[k + 1]]
          <5> HIDE DEF k, put
          <5>1. k + 1 \in 1..Len(b) /\ (k + 1) - 1 = k
            BY <3>3
          <5> QED BY <1>12, <3>6, <5>1, Zenon
        <4> QED BY <2>3, <3>1, <3>2, <3>3, <3>4, <4>1, Zenon
      <3> QED BY <3>5, <3>6
    <2> QED BY <2>4, <2>5
  <1>19. DataInv'
    BY <1>8, <1>17, <1>18, Zenon DEF DataInv
  <1> QED BY <1>16, <1>19

\* A step on directories or calls leaves the bytes of every file alone; a file
\* that enters the table is empty.
LEMMA BytesKept ==
    ASSUME StoreInv, DataInv, UNCHANGED <<next_blk, store, written>>,
           DOMAIN inodes \subseteq DOMAIN inodes',
           \A i \in DOMAIN inodes' :
              \/ /\ i \in DOMAIN inodes
                 /\ inodes'[i].blocks = inodes[i].blocks /\ inodes'[i].size = inodes[i].size
              \/ i \in Inos \ DOMAIN inodes /\ inodes'[i].size = 0
    PROVE  StoreInv' /\ DataInv'
  <1>1. \A i \in DOMAIN inodes' : i \in Inos /\ inodes'[i].size \in Nat
    BY DEF StoreInv
  <1>2. StoreInv'
    BY <1>1 DEF StoreInv, Unwritten
  <1>3. ASSUME NEW i \in DOMAIN inodes' PROVE BytesAt(i)'
    <2>1. CASE i \in DOMAIN inodes /\ inodes'[i].blocks = inodes[i].blocks
               /\ inodes'[i].size = inodes[i].size
      <3>1. BytesAt(i)
        BY <2>1 DEF DataInv
      <3> QED BY <2>1, <3>1, Zenon DEF BytesAt, ByteAt
    <2>2. CASE i \in Inos \ DOMAIN inodes
      <3>1. written'[i] = Unwritten
        BY <2>2 DEF StoreInv
      <3>2. \A p \in Positions : Unwritten[p] = Nothing
        BY DEF Unwritten
      <3> QED BY <3>1, <3>2, Zenon DEF BytesAt
    <2> QED BY <2>1, <2>2
  <1> QED BY <1>2, <1>3 DEF DataInv

\* unlink drops an inode and with it what was written to it.
LEMMA DropBytes ==
    ASSUME StoreInv, DataInv, UNCHANGED <<next_blk, store>>, NEW i \in Inos,
           DOMAIN inodes' = DOMAIN inodes \ {i},
           \A j \in DOMAIN inodes' : inodes'[j] = inodes[j],
           written' = [written EXCEPT ![i] = Unwritten]
    PROVE  StoreInv' /\ DataInv'
  <1>1. written = [j \in Inos |-> written[j]]
    BY DEF StoreInv
  <1>2. /\ written' = [j \in Inos |-> written'[j]]
        /\ written'[i] = Unwritten
        /\ \A j \in Inos \ {i} : written'[j] = written[j]
    BY <1>1, Zenon
  <1>3. StoreInv'
    <2>1. next_blk' <= MaxBlk /\ store' = [b \in Blks |-> store'[b]]
          /\ \A b \in Blks : store'[b] = [o \in 1..BLOCK_SZ |-> store'[b][o]]
      BY DEF StoreInv
    <2>2. \A j \in DOMAIN inodes' : j \in Inos /\ inodes'[j].size \in Nat
      BY DEF StoreInv
    <2>3. \A j \in Inos \ DOMAIN inodes' : written'[j] = Unwritten
      BY <1>2 DEF StoreInv
    <2>4. Unwritten' = Unwritten
      BY DEF Unwritten, Nothing, Positions
    <2> QED BY <1>2, <2>1, <2>2, <2>3, <2>4, Zenon DEF StoreInv
  <1>4. ASSUME NEW j \in DOMAIN inodes' PROVE BytesAt(j)'
    <2>1. inodes'[j] = inodes[j] /\ written'[j] = written[j]
      BY <1>2 DEF StoreInv
    <2>2. BytesAt(j)
      BY DEF DataInv
    <2> QED BY <2>1, <2>2, Zenon DEF BytesAt, ByteAt
  <1> QED BY <1>3, <1>4 DEF DataInv

\* truncate: the bytes below the new size stay, the others are forgotten.
LEMMA TruncateBytes ==
    ASSUME TableInv, StoreInv, DataInv, NEW i \in DOMAIN inodes, NEW size \in Nat,
           Truncated(i, size), store' = store
    PROVE  StoreInv' /\ DataInv'
  <1> DEFINE old == inodes[i].blocks
             keep == CeilDiv(size, BLOCK_SZ)
             b == SubSeq(old, 1, Min({keep, Len(old)}))
  <1>1. /\ inodes' = [inodes EXCEPT ![i].blocks = b, ![i].size = size]
        /\ next_blk' = next_blk
        /\ written' = [written EXCEPT ![i] =
                         [p \in Positions |-> IF p < size THEN written[i][p] ELSE Nothing]]
    BY Zenon DEF Truncated, Forget
  <1>2. /\ old \in Seq(Nat) /\ Len(old) \in Nat /\ i \in Inos
    <2>1. old \in Seq(Nat)
      BY DEF TableInv, IsInode
    <2> QED BY <2>1, SeqLen DEF StoreInv
  <1>3. keep \in Int
    BY SimpleFSAssumption DEF CeilDiv
  <1>4. /\ b \in Seq(Nat) /\ Len(b) \in Nat
        /\ \A x \in 1..Len(b) : b[x] = old[x]
        /\ \A x \in 1..Len(old) : x <= keep => x \in 1..Len(b)
    <2> HIDE DEF keep, old
    <2>1. b \in Seq(Nat) /\ Len(b) <= Len(old) /\ \A x \in 1..Len(b) : b[x] = old[x]
      BY <1>2, <1>3, KeptBlocks, Zenon
    <2>2. \A x \in 1..Len(old) : x <= keep => x \in 1..Len(b)
      BY <1>2, <1>3, KeptAll, Zenon
    <2> QED BY <2>1, <2>2, SeqLen, Zenon
  <1> HIDE DEF b
  <1>5. /\ DOMAIN inodes' = DOMAIN inodes
        /\ inodes'[i].blocks = b /\ inodes'[i].size = size
        /\ \A j \in DOMAIN inodes \ {i} : inodes'[j] = inodes[j]
    <2> DEFINE f == inodes[i]
    <2>1. inodes = [j \in DOMAIN inodes |-> inodes[j]]
      BY DEF TableInv
    <2>2. f \in [type : {f.type}, blocks : Seq(Nat), size : {f.size}, children : {f.children}]
      BY DEF TableInv, IsInode
    <2>3. /\ DOMAIN inodes' = DOMAIN inodes
          /\ inodes'[i] = [f EXCEPT !.blocks = b, !.size = size]
          /\ \A j \in DOMAIN inodes \ {i} : inodes'[j] = inodes[j]
      BY <1>1, <2>1, Zenon
    <2> HIDE DEF f
    <2>4. LET g == [f EXCEPT !.blocks = b, !.size = size] IN g.blocks = b /\ g.size = size
      BY <2>2, Zenon
    <2> QED BY <2>3, <2>4, Zenon
  <1>6. /\ written' = [j \in Inos |-> written'[j]]
        /\ written'[i] = [p \in Positions |-> IF p < size THEN written[i][p] ELSE Nothing]
        /\ \A j \in Inos \ {i} : written'[j] = written[j]
    <2>1. written = [j \in Inos |-> written[j]]
      BY DEF StoreInv
    <2> QED BY <1>1, <1>2, <2>1, Zenon
  <1>7. StoreInv'
    <2>1. next_blk' <= MaxBlk /\ store' = [c \in Blks |-> store'[c]]
          /\ \A c \in Blks : store'[c] = [o \in 1..BLOCK_SZ |-> store'[c][o]]
      BY <1>1 DEF StoreInv
    <2>2. \A j \in DOMAIN inodes' : j \in Inos /\ inodes'[j].size \in Nat
      BY <1>5 DEF StoreInv
    <2>3. \A j \in Inos \ DOMAIN inodes' : written'[j] = Unwritten
      BY <1>5, <1>6 DEF StoreInv
    <2>4. Unwritten' = Unwritten
      BY DEF Unwritten, Nothing, Positions
    <2> QED BY <1>6, <2>1, <2>2, <2>3, <2>4, Zenon DEF StoreInv
  <1>8. ASSUME NEW j \in DOMAIN inodes \ {i} PROVE BytesAt(j)'
    <2>1. inodes'[j] = inodes[j] /\ written'[j] = written[j]
      BY <1>5, <1>6 DEF StoreInv
    <2>2. BytesAt(j)
      BY DEF DataInv
    <2> QED BY <2>1, <2>2, Zenon DEF BytesAt, ByteAt
  <1>9. BytesAt(i)'
    <2> SUFFICES ASSUME NEW p \in Positions, written'[i][p] # Nothing
                 PROVE  /\ p < size
                        /\ p \div BLOCK_SZ < Len(b)
                        /\ store[b[(p \div BLOCK_SZ) + 1]][(p % BLOCK_SZ) + 1] = written'[i][p]
      BY <1>5, Zenon DEF BytesAt, ByteAt
    <2> DEFINE k == p \div BLOCK_SZ
    <2>1. p < size /\ written'[i][p] = written[i][p]
      BY <1>6, Zenon
    <2>2. k < Len(old) /\ store[old[k + 1]][(p % BLOCK_SZ) + 1] = written[i][p]
      BY <2>1, Zenon DEF DataInv, BytesAt, ByteAt
    <2>3. p \in Nat
      BY SimpleFSAssumption DEF Positions
    <2>4. k \in Nat /\ keep \in Nat /\ k < keep
      BY <2>1, <2>3, BlockOf, CeilCovers, Zenon
    <2> HIDE DEF k, keep
    <2>5. k + 1 \in 1..Len(old) /\ k + 1 <= keep
      BY <1>2, <2>2, <2>4
    <2>6. k + 1 \in 1..Len(b)
      BY <1>4, <2>5, Zenon
    <2>7. b[k + 1] = old[k + 1]
      BY <1>4, <2>6, Zenon
    <2>8. k < Len(b)
      BY <1>4, <2>4, <2>6
    <2> QED BY <2>1, <2>2, <2>7, <2>8, Zenon DEF k
  <1> QED BY <1>5, <1>7, <1>8, <1>9, Zenon DEF DataInv

--------------------------------------------------------------------------------
(* What read_data returns. *)

\* The bytes of block k, and all from block k on, by the recursion of read_data.
Part(i, k, offset, n) ==
    IF k >= Len(inodes[i].blocks) THEN <<>>
    ELSE SubSeq(store[inodes[i].blocks[k + 1]], BlkOff(k, offset) + 1, BlkEnd(k, offset, n))
Reads(i, offset, n, F) ==
    F = [bi \in StartBlk(offset) .. EndBlk(offset, n) + 1 |->
            IF bi > EndBlk(offset, n) THEN <<>> ELSE Part(i, bi, offset, n) \o F[bi + 1]]

\* The same without recursion: the bytes at the positions from the first one of
\* block k up to the end of the access or of the last block the file has.
Pos(k, offset) == k * BLOCK_SZ + BlkOff(k, offset)
Stop(i, offset, n) ==
    IF offset + n <= Len(inodes[i].blocks) * BLOCK_SZ
    THEN offset + n ELSE Len(inodes[i].blocks) * BLOCK_SZ
Left(i, k, offset, n) ==
    IF Pos(k, offset) < Stop(i, offset, n) THEN Stop(i, offset, n) - Pos(k, offset) ELSE 0
Rest(i, k, offset, n) == [x \in 1..Left(i, k, offset, n) |-> ByteAt(i, Pos(k, offset) + (x - 1))]

\* One block takes its part off what is left.
LEMMA LeftStep ==
    ASSUME TableInv, NEW i \in DOMAIN inodes, NEW offset \in Nat, NEW n \in Nat \ {0},
           NEW k \in StartBlk(offset) .. EndBlk(offset, n)
    PROVE  /\ Left(i, k, offset, n) \in Nat /\ Left(i, k + 1, offset, n) \in Nat
           /\ k >= Len(inodes[i].blocks) =>
                 Left(i, k, offset, n) = 0 /\ Left(i, k + 1, offset, n) = 0
           /\ k < Len(inodes[i].blocks) =>
                 /\ Left(i, k, offset, n) =
                       (BlkEnd(k, offset, n) - BlkOff(k, offset)) + Left(i, k + 1, offset, n)
                 /\ Left(i, k + 1, offset, n) # 0 =>
                       Pos(k + 1, offset) = k * BLOCK_SZ + BlkEnd(k, offset, n)
           /\ k = EndBlk(offset, n) => Left(i, k + 1, offset, n) = 0
  <1> DEFINE s == StartBlk(offset)
             e == EndBlk(offset, n)
             len == Len(inodes[i].blocks)
             c == k * BLOCK_SZ
             top == len * BLOCK_SZ
             off == BlkOff(k, offset)
             end == BlkEnd(k, offset, n)
             pos == Pos(k, offset)
             nxt == Pos(k + 1, offset)
             stop == Stop(i, offset, n)
  <1>0. BLOCK_SZ \in Nat \ {0}
    BY SimpleFSAssumption
  <1>1. /\ s \in Nat /\ e \in Nat /\ s <= e /\ e * BLOCK_SZ \in Nat
        /\ e * BLOCK_SZ < offset + n /\ offset + n <= e * BLOCK_SZ + BLOCK_SZ
    BY AccessEnds, Zenon
  <1>2. /\ k \in Nat /\ c \in Nat /\ off \in Nat /\ end \in Nat
        /\ off < end /\ end <= BLOCK_SZ
        /\ (k = e => c + end = offset + n) /\ (k # e => end = BLOCK_SZ)
    BY PartOfBlock, Zenon
  <1>3. len \in Nat /\ top \in Nat
    <2>1. len \in Nat
      BY SeqLen DEF TableInv, IsInode
    <2> HIDE DEF len
    <2> QED BY <1>0, <2>1
  <1>4. pos = c + off /\ nxt = c + BLOCK_SZ
    <2>1. pos = c + off
      BY DEF Pos
    <2>2. s <= k
      <3> HIDE DEF s, e
      <3>1. k \in s .. e
        BY DEF s, e
      <3> QED BY <1>1, <3>1
    <2>3. BlkOff(k + 1, offset) = 0
      <3>1. k + 1 # s
        <4> HIDE DEF s
        <4> QED BY <1>1, <1>2, <2>2
      <3> QED BY <3>1, Zenon DEF BlkOff
    <2>4. (k + 1) * BLOCK_SZ = c + BLOCK_SZ
      BY <1>0, <1>2
    <2> HIDE DEF c
    <2>5. nxt = c + BLOCK_SZ
      <3>1. nxt = (c + BLOCK_SZ) + 0
        BY <2>3, <2>4, Zenon DEF Pos
      <3> QED BY <1>0, <1>2, <3>1
    <2> QED BY <2>1, <2>5
  <1>5. stop = IF offset + n <= top THEN offset + n ELSE top
    BY DEF Stop
  <1>6. /\ Left(i, k, offset, n) = (IF pos < stop THEN stop - pos ELSE 0)
        /\ Left(i, k + 1, offset, n) = (IF nxt < stop THEN stop - nxt ELSE 0)
    BY Zenon DEF Left
  <1>7. k <= e
    <2> HIDE DEF s, e
    <2>1. k \in s .. e
      BY DEF s, e
    <2> QED BY <1>1, <2>1
  <1>8. k < e => c + BLOCK_SZ <= e * BLOCK_SZ
    <2> HIDE DEF e
    <2> QED BY <1>1, <1>2, MulLess
  <1>9. k < len => c + BLOCK_SZ <= top
    <2> HIDE DEF len
    <2> QED BY <1>2, <1>3, MulLess
  <1>10. k >= len => top <= c
    <2> HIDE DEF len
    <2>1. len < k => top + BLOCK_SZ <= c
      BY <1>2, <1>3, MulLess
    <2> QED BY <1>0, <1>2, <1>3, <2>1
  <1> HIDE DEF s, e, len, c, top, off, end, pos, nxt, stop
  <1>11. /\ Left(i, k, offset, n) \in Nat /\ Left(i, k + 1, offset, n) \in Nat
         /\ k = e => Left(i, k + 1, offset, n) = 0
    <2>1. stop \in Nat /\ pos \in Nat /\ nxt \in Nat /\ stop <= offset + n
      BY <1>0, <1>2, <1>3, <1>4, <1>5
    <2>2. k = e => stop <= nxt
      BY <1>0, <1>2, <1>4, <2>1
    <2> QED BY <1>6, <2>1, <2>2
  <1>12. k >= len => Left(i, k, offset, n) = 0 /\ Left(i, k + 1, offset, n) = 0
    BY <1>0, <1>2, <1>3, <1>4, <1>5, <1>6, <1>10
  <1>13. ASSUME k < len
         PROVE  /\ Left(i, k, offset, n) = (end - off) + Left(i, k + 1, offset, n)
                /\ Left(i, k + 1, offset, n) # 0 => nxt = c + end
    <2>1. CASE k = e
      <3>1. stop = c + end
        BY <1>0, <1>2, <1>3, <1>5, <1>9, <1>13, <2>1
      <3> QED BY <1>0, <1>2, <1>4, <1>6, <2>1, <3>1
    <2>2. CASE k # e
      <3>1. stop \in Nat /\ c + BLOCK_SZ <= stop
        BY <1>0, <1>1, <1>2, <1>3, <1>5, <1>7, <1>8, <1>9, <1>13, <2>2
      <3> QED BY <1>0, <1>2, <1>4, <1>6, <2>2, <3>1
    <2> QED BY <2>1, <2>2
  <1> QED BY <1>11, <1>12, <1>13, Zenon DEF len, end, off, nxt, c, e

\* What the blocks hold.
Bytes == {store[c][o] : c \in Blks, o \in 1..BLOCK_SZ}

LEMMA ByteInBlock ==
    ASSUME TableInv, StoreInv, NEW i \in DOMAIN inodes, NEW p \in Nat,
           p < Len(inodes[i].blocks) * BLOCK_SZ
    PROVE  ByteAt(i, p) \in Bytes
  <1> DEFINE b == inodes[i].blocks
             d == p \div BLOCK_SZ
             r == p % BLOCK_SZ
  <1>0. BLOCK_SZ \in Nat
    BY SimpleFSAssumption
  <1>1. b \in Seq(Nat) /\ Len(b) \in Nat
    <2>1. b \in Seq(Nat)
      BY DEF TableInv, IsInode
    <2> QED BY <2>1, SeqLen
  <1>2. d \in Nat /\ d * BLOCK_SZ \in Nat /\ r \in 0..(BLOCK_SZ - 1) /\ p = d * BLOCK_SZ + r
    BY BlockOf, Zenon
  <1>3. d + 1 \in 1..Len(b)
    <2> HIDE DEF d, r, b
    <2>0. p < Len(b) * BLOCK_SZ
      BY DEF b
    <2>1. Len(b) < d => Len(b) * BLOCK_SZ + BLOCK_SZ <= d * BLOCK_SZ
      BY <1>1, <1>2, MulLess
    <2>2. Len(b) = d => Len(b) * BLOCK_SZ = d * BLOCK_SZ
      OBVIOUS
    <2>3. Len(b) * BLOCK_SZ \in Nat
      BY <1>0, <1>1
    <2>4. d < Len(b)
      BY <1>0, <1>1, <1>2, <2>0, <2>1, <2>2, <2>3
    <2> QED BY <1>1, <1>2, <2>4
  <1>4. b[d + 1] \in Blks
    <2>1. b[d + 1] \in Nat /\ b[d + 1] < next_blk
      <3> HIDE DEF d
      <3>1. b[d + 1] \in Nat
        BY <1>1, <1>3, SeqLen
      <3> QED BY <1>3, <3>1, Zenon DEF TableInv, IsInode
    <2> HIDE DEF b, d
    <2> QED BY <2>1, InBlks, Zenon DEF TableInv, StoreInv
  <1>5. r + 1 \in 1..BLOCK_SZ
    <2> HIDE DEF r
    <2> QED BY <1>0, <1>2
  <1>6. \A c \in Blks : \A o \in 1..BLOCK_SZ : store[c][o] \in Bytes
    BY DEF Bytes
  <1>7. ByteAt(i, p) = store[b[d + 1]][r + 1]
    BY DEF ByteAt
  <1> HIDE DEF b, d, r
  <1> QED BY <1>4, <1>5, <1>6, <1>7, Zenon

LEMMA RestSeq ==
    ASSUME TableInv, StoreInv, NEW i \in DOMAIN inodes, NEW offset \in Nat, NEW n \in Nat,
           NEW k, Pos(k, offset) \in Nat, Left(i, k, offset, n) \in Nat
    PROVE  /\ Rest(i, k, offset, n) \in Seq(Bytes)
           /\ Len(Rest(i, k, offset, n)) = Left(i, k, offset, n)
           /\ \A x \in 1..Left(i, k, offset, n) :
                 Rest(i, k, offset, n)[x] = ByteAt(i, Pos(k, offset) + (x - 1))
  <1> DEFINE left == Left(i, k, offset, n)
             pos == Pos(k, offset)
             stop == Stop(i, offset, n)
             top == Len(inodes[i].blocks) * BLOCK_SZ
             at(x) == ByteAt(i, pos + (x - 1))
  <1>1. stop = (IF offset + n <= top THEN offset + n ELSE top) /\ top \in Nat
    <2>1. Len(inodes[i].blocks) \in Nat
      BY SeqLen DEF TableInv, IsInode
    <2> QED BY <2>1, SimpleFSAssumption DEF Stop
  <1>2. left = IF pos < stop THEN stop - pos ELSE 0
    BY Zenon DEF Left
  <1>3. ASSUME NEW x \in 1..left PROVE at(x) \in Bytes
    <2> DEFINE p == pos + (x - 1)
    <2>1. p \in Nat /\ p < top
      <3> HIDE DEF left, pos, stop, top
      <3>1. pos \in Nat /\ left \in Nat
        BY DEF pos, left
      <3>2. pos < stop /\ left = stop - pos
        BY <1>2, <1>3, <3>1
      <3> QED BY <1>1, <1>3, <3>1, <3>2
    <2> HIDE DEF p
    <2>2. ByteAt(i, p) \in Bytes
      BY <2>1, ByteInBlock, Zenon DEF top
    <2> QED BY <2>2 DEF p
  <1>4. Rest(i, k, offset, n) = [x \in 1..left |-> at(x)]
    BY DEF Rest
  <1>5. left \in Nat
    OBVIOUS
  <1> HIDE DEF left, at
  <1>6. /\ [x \in 1..left |-> at(x)] \in Seq(Bytes)
        /\ Len([x \in 1..left |-> at(x)]) = left
        /\ \A x \in 1..left : [y \in 1..left |-> at(y)][x] = at(x)
    BY <1>3, <1>5
  <1> QED BY <1>4, <1>6, Zenon DEF left, at, pos

\* One turn of read_data's loop.
LEMMA RestStep ==
    ASSUME TableInv, StoreInv, NEW i \in DOMAIN inodes, NEW offset \in Nat,
           NEW n \in Nat \ {0}, NEW k \in StartBlk(offset) .. EndBlk(offset, n)
    PROVE  Part(i, k, offset, n) \o Rest(i, k + 1, offset, n) = Rest(i, k, offset, n)
  <1> DEFINE b == inodes[i].blocks
             c == k * BLOCK_SZ
             off == BlkOff(k, offset)
             end == BlkEnd(k, offset, n)
             pos == Pos(k, offset)
             nxt == Pos(k + 1, offset)
             now == Left(i, k, offset, n)
             then == Left(i, k + 1, offset, n)
             rest == Rest(i, k + 1, offset, n)
             all == Rest(i, k, offset, n)
             part == Part(i, k, offset, n)
  <1>0. BLOCK_SZ \in Nat \ {0}
    BY SimpleFSAssumption
  <1>1. /\ now \in Nat /\ then \in Nat
        /\ k >= Len(b) => now = 0 /\ then = 0
        /\ k < Len(b) => now = (end - off) + then /\ (then # 0 => nxt = c + end)
    BY LeftStep, Zenon
  <1>2. /\ k \in Nat /\ c \in Nat /\ off \in Nat /\ end \in Nat
        /\ off < end /\ end <= BLOCK_SZ
    BY PartOfBlock, Zenon
  <1>3. pos = c + off /\ pos \in Nat /\ nxt \in Nat
    <2>1. pos = c + off
      BY DEF Pos
    <2>2. BlkOff(k + 1, offset) \in Nat
      BY <1>0 DEF BlkOff
    <2>3. (k + 1) * BLOCK_SZ \in Nat
      BY <1>0, <1>2
    <2>4. nxt \in Nat
      <3> DEFINE u == BlkOff(k + 1, offset)
                 v == (k + 1) * BLOCK_SZ
      <3>1. nxt = v + u
        BY DEF Pos
      <3> HIDE DEF u, v, nxt
      <3> QED BY <2>2, <2>3, <3>1 DEF u, v
    <2> HIDE DEF c, off, pos
    <2> QED BY <1>2, <2>1, <2>4
  <1>4. /\ all \in Seq(Bytes) /\ Len(all) = now
        /\ \A x \in 1..now : all[x] = ByteAt(i, pos + (x - 1))
    <2>1. n \in Nat
      OBVIOUS
    <2> HIDE DEF now, pos
    <2>2. Pos(k, offset) \in Nat /\ Left(i, k, offset, n) \in Nat
      BY <1>1, <1>3 DEF now, pos
    <2> QED BY <2>1, <2>2, RestSeq DEF now, pos
  <1>5. /\ rest \in Seq(Bytes) /\ Len(rest) = then
        /\ \A x \in 1..then : rest[x] = ByteAt(i, nxt + (x - 1))
    <2>1. n \in Nat
      OBVIOUS
    <2> HIDE DEF then, nxt
    <2>2. Pos(k + 1, offset) \in Nat /\ Left(i, k + 1, offset, n) \in Nat
      BY <1>1, <1>3 DEF then, nxt
    <2> QED BY <2>1, <2>2, RestSeq DEF then, nxt
  <1>6. CASE k >= Len(b)
    <2>1. part = <<>>
      BY <1>6, Zenon DEF Part
    <2>2. all = <<>> /\ rest = <<>>
      <3> HIDE DEF all, rest, now, then
      <3> QED BY <1>1, <1>4, <1>5, <1>6, NoElements
    <2>3. <<>> \o <<>> = <<>>
      OBVIOUS
    <2> QED BY <2>1, <2>2, <2>3, Zenon
  <1>7. CASE k < Len(b)
    <2> DEFINE blk == store[b[k + 1]]
    <2>0. Len(b) \in Nat /\ c + BLOCK_SZ <= Len(b) * BLOCK_SZ
      <3>1. Len(b) \in Nat
        BY SeqLen DEF TableInv, IsInode
      <3> HIDE DEF b
      <3> QED BY <1>2, <1>7, <3>1, MulLess
    <2>1. part = SubSeq(blk, off + 1, end)
      <3>1. ~(k >= Len(b))
        <4> HIDE DEF b
        <4> QED BY <1>2, <1>7, <2>0
      <3> QED BY <3>1, Zenon DEF Part
    <2>2. ASSUME NEW x \in 1..BLOCK_SZ
          PROVE  blk[x] = ByteAt(i, c + (x - 1)) /\ blk[x] \in Bytes
      <3> DEFINE p == c + (x - 1)
      <3> HIDE DEF c, b
      <3>1. p \in Nat /\ c <= p /\ p < c + BLOCK_SZ /\ p < Len(b) * BLOCK_SZ /\ x = (p - c) + 1
        BY <1>0, <1>2, <2>0, SMT
      <3> HIDE DEF p
      <3>2. p \div BLOCK_SZ = k /\ p % BLOCK_SZ = p - c
        BY <1>2, <3>1, InBlock, Zenon DEF c
      <3>3. ByteAt(i, p) = blk[x]
        BY <3>1, <3>2, Zenon DEF ByteAt, b
      <3>4. ByteAt(i, p) \in Bytes
        BY <3>1, ByteInBlock, Zenon DEF b
      <3> QED BY <3>3, <3>4 DEF p
    <2> HIDE DEF blk
    <2>3. /\ part \in Seq(Bytes) /\ Len(part) = end - off
          /\ \A x \in 1..(end - off) : part[x] = blk[off + x]
      <3> HIDE DEF off, end, part, b, c
      <3>1. \A x \in off + 1 .. end : blk[x] \in Bytes
        BY <1>0, <1>2, <2>2
      <3>2. /\ SubSeq(blk, off + 1, end) \in Seq(Bytes)
            /\ Len(SubSeq(blk, off + 1, end)) =
                  IF off + 1 <= end THEN end - (off + 1) + 1 ELSE 0
            /\ \A x \in 1 .. end - (off + 1) + 1 :
                  SubSeq(blk, off + 1, end)[x] = blk[(off + 1) + x - 1]
        <4>1. off + 1 \in Int /\ end \in Int
          BY <1>2
        <4> QED BY <3>1, <4>1, CutOut
      <3>3. part = SubSeq(blk, off + 1, end)
        BY <2>1
      <3> HIDE DEF part
      <3>4. end - (off + 1) + 1 = end - off /\ off + 1 <= end
        BY <1>2
      <3>5. \A x \in 1..(end - off) : (off + 1) + x - 1 = off + x
        BY <1>2
      <3> QED BY <3>2, <3>3, <3>4, <3>5, Zenon
    <2>4. /\ part \o rest \in Seq(Bytes)
          /\ Len(part \o rest) = (end - off) + then
          /\ \A x \in 1 .. (end - off) + then :
                (part \o rest)[x] = IF x <= end - off THEN part[x] ELSE rest[x - (end - off)]
      <3> HIDE DEF part, rest, off, end, then
      <3>1. /\ part \o rest \in Seq(Bytes)
            /\ Len(part \o rest) = Len(part) + Len(rest)
            /\ \A x \in 1 .. Len(part) + Len(rest) : (part \o rest)[x] =
                  IF x <= Len(part) THEN part[x] ELSE rest[x - Len(part)]
        BY <1>5, <2>3, Joined, Zenon
      <3> QED BY <1>5, <2>3, <3>1, Zenon
    <2> HIDE DEF part, rest, all, b
    <2>5. ASSUME NEW x \in 1..now PROVE (part \o rest)[x] = all[x]
      <3>0. now = (end - off) + then
        BY <1>1, <1>7 DEF b
      <3>1. CASE x <= end - off
        <4> HIDE DEF off, end, now, then, pos, c
        <4>1. (part \o rest)[x] = part[x] /\ x \in 1..(end - off)
          <5>1. x \in 1..(end - off) /\ x \in 1 .. (end - off) + then
            BY <1>1, <1>2, <3>0, <3>1
          <5> QED BY <2>4, <3>1, <5>1, Zenon
        <4>2. part[x] = blk[off + x] /\ off + x \in 1..BLOCK_SZ
          BY <1>0, <1>2, <2>3, <4>1
        <4>3. blk[off + x] = ByteAt(i, c + ((off + x) - 1))
          BY <2>2, <4>2, Zenon
        <4>4. c + ((off + x) - 1) = pos + (x - 1)
          BY <1>2, <1>3
        <4> QED BY <1>4, <4>1, <4>2, <4>3, <4>4, Zenon
      <3>2. CASE x > end - off
        <4> DEFINE y == x - (end - off)
        <4> HIDE DEF off, end, now, then, pos, c, nxt
        <4>1. y \in 1..then /\ ~(x <= end - off) /\ x \in 1 .. (end - off) + then
          BY <1>1, <1>2, <3>0, <3>2
        <4>2. (part \o rest)[x] = rest[y]
          BY <2>4, <4>1, Zenon
        <4>3. nxt = c + end
          <5>1. then # 0
            BY <1>1, <4>1
          <5> QED BY <1>1, <1>7, <5>1, Zenon DEF b, nxt, c, end, then
        <4>4. nxt + (y - 1) = pos + (x - 1)
          BY <1>2, <1>3, <4>3
        <4>5. rest[y] = ByteAt(i, nxt + (y - 1))
          BY <1>5, <4>1, Zenon
        <4> QED BY <1>4, <4>2, <4>4, <4>5, Zenon
      <3> HIDE DEF off, end, now
      <3>3. x <= end - off \/ x > end - off
        BY <1>1, <1>2
      <3> QED BY <3>1, <3>2, <3>3, Zenon
    <2>6. Len(part \o rest) = now
      BY <1>1, <1>7, <2>4, Zenon DEF b
    <2> HIDE DEF now
    <2> QED BY <1>4, <2>4, <2>5, <2>6, SameElements, Zenon DEF part, rest, all
  <1> QED
    <2>1. Len(b) \in Nat
      BY SeqLen DEF TableInv, IsInode
    <2> HIDE DEF b
    <2>2. k >= Len(b) \/ k < Len(b)
      BY <1>2, <2>1
    <2> QED BY <1>6, <1>7, <2>2, Zenon

\* The recursion of read_data is the sequence of all these bytes.
LEMMA ReadIs ==
    ASSUME TableInv, StoreInv, NEW i \in DOMAIN inodes, NEW offset \in Nat,
           NEW n \in Nat \ {0}
    PROVE  (CHOOSE F : Reads(i, offset, n, F))[StartBlk(offset)]
              = Rest(i, StartBlk(offset), offset, n)
  <1> DEFINE s == StartBlk(offset)
             e == EndBlk(offset, n)
             part(k) == Part(i, k, offset, n)
             rest(k) == Rest(i, k, offset, n)
             G == [k \in s .. e + 1 |-> rest(k)]
             F == CHOOSE H : Reads(i, offset, n, H)
  <1>1. s \in Nat /\ e \in Nat /\ s <= e
    BY AccessEnds, Zenon
  <1>2. \A k \in s .. e : part(k) \o rest(k + 1) = rest(k)
    BY RestStep, Zenon
  <1>3. rest(e + 1) = <<>>
    <2>1. e \in s .. e
      <3> HIDE DEF s, e
      <3> QED BY <1>1
    <2>2. Left(i, e + 1, offset, n) = 0
      <3> HIDE DEF e
      <3>1. e = EndBlk(offset, n) /\ e \in StartBlk(offset) .. EndBlk(offset, n)
        BY <2>1 DEF e
      <3> QED BY <3>1, LeftStep, Zenon
    <2>3. rest(e + 1) = [x \in 1..0 |-> ByteAt(i, Pos(e + 1, offset) + (x - 1))]
      BY <2>2, Zenon DEF Rest
    <2>4. DOMAIN rest(e + 1) = 1..0
      BY <2>3, Zenon
    <2> DEFINE at(x) == ByteAt(i, Pos(e + 1, offset) + (x - 1))
    <2> HIDE DEF at
    <2>5. [x \in 1..0 |-> at(x)] = <<>>
      OBVIOUS
    <2> QED BY <2>3, <2>5, Zenon DEF at
  <1> HIDE DEF s, e, part, rest
  <1>4. Reads(i, offset, n, G)
    <2>1. ASSUME NEW k \in s .. e + 1
          PROVE  rest(k) = IF k > e THEN <<>> ELSE part(k) \o G[k + 1]
      <3>1. CASE k > e
        <4>1. k = e + 1
          BY <1>1, <3>1
        <4> QED BY <1>3, <3>1, <4>1
      <3>2. CASE ~(k > e)
        <4>1. k \in s .. e /\ k + 1 \in s .. e + 1
          BY <1>1, <3>2
        <4>2. G[k + 1] = rest(k + 1)
          BY <4>1, Zenon
        <4> QED BY <1>2, <3>2, <4>1, <4>2, Zenon
      <3> QED BY <3>1, <3>2, Zenon
    <2>2. G = [k \in s .. e + 1 |-> IF k > e THEN <<>> ELSE part(k) \o G[k + 1]]
      <3> DEFINE H == [k \in s .. e + 1 |-> IF k > e THEN <<>> ELSE part(k) \o G[k + 1]]
      <3>1. \A k \in s .. e + 1 : G[k] = H[k]
        BY <2>1, Zenon
      <3> QED BY <3>1, Zenon
    <2> QED BY <2>2, Zenon DEF Reads, s, e, part
  <1>5. F = [k \in s .. e + 1 |-> IF k > e THEN <<>> ELSE part(k) \o F[k + 1]]
    <2>1. Reads(i, offset, n, F)
      BY <1>4, Zenon
    <2> QED BY <2>1, Zenon DEF Reads, s, e, part
  <1> HIDE DEF F, G
  <1>6. F[e + 1] = <<>>
    <2>1. e + 1 \in s .. e + 1 /\ e + 1 > e
      BY <1>1
    <2> QED BY <1>5, <2>1, Zenon
  <1>7. \A k \in s .. e : F[k] = part(k) \o F[k + 1]
    <2> TAKE k \in s .. e
    <2>1. k \in s .. e + 1 /\ ~(k > e)
      BY <1>1
    <2> QED BY <1>5, <2>1, Zenon
  \* m blocks before the end
  <1> DEFINE T == {m \in 0 .. (e + 1) - s : F[(e + 1) - m] # rest((e + 1) - m)}
  <1>8. T = {}
    <2> SUFFICES ASSUME T # {} PROVE FALSE
      OBVIOUS
    <2>1. T \in SUBSET Nat
      BY <1>1
    <2>2. PICK m \in T : \A l \in T : m <= l
      BY <2>1, LeastExists, Zenon
    <2>3. m \in Nat /\ m <= (e + 1) - s /\ F[(e + 1) - m] # rest((e + 1) - m)
      BY <1>1, <2>2
    <2>4. m # 0
      <3> SUFFICES ASSUME m = 0 PROVE FALSE
        OBVIOUS
      <3>1. (e + 1) - m = e + 1
        BY <1>1
      <3> QED BY <1>3, <1>6, <2>3, <3>1, Zenon
    <2> DEFINE k == (e + 1) - m
    <2>5. k \in s .. e /\ (e + 1) - (m - 1) = k + 1
          /\ m - 1 \in 0 .. (e + 1) - s /\ ~(m <= m - 1)
      BY <1>1, <2>3, <2>4
    <2>6. F[k + 1] = rest(k + 1)
      <3>1. m - 1 \notin T
        BY <2>2, <2>5, Zenon
      <3>2. F[(e + 1) - (m - 1)] = rest((e + 1) - (m - 1))
        BY <2>5, <3>1, Zenon
      <3> QED BY <2>5, <3>2, Zenon
    <2>7. F[k] = part(k) \o F[k + 1] /\ part(k) \o rest(k + 1) = rest(k)
      <3> HIDE DEF k
      <3> QED BY <1>2, <1>7, <2>5, Zenon
    <2> QED BY <2>3, <2>6, <2>7, Zenon
  <1>9. F[s] = rest(s)
    <2>1. (e + 1) - s \in 0 .. (e + 1) - s /\ (e + 1) - ((e + 1) - s) = s
      BY <1>1
    <2>2. F[(e + 1) - ((e + 1) - s)] = rest((e + 1) - ((e + 1) - s))
      BY <1>8, <2>1, Zenon
    <2> QED BY <2>1, <2>2, Zenon
  <1> QED BY <1>9, Zenon DEF F, s, rest

\* read_data in full.
LEMMA ReadDataIs ==
    ASSUME TableInv, StoreInv, NEW i \in DOMAIN inodes, NEW offset \in Nat,
           NEW max_len \in Nat \ {0}
    PROVE  /\ offset >= inodes[i].size => ReadData(i, offset, max_len) = <<>>
           /\ offset < inodes[i].size =>
                 LET n == Min({max_len, inodes[i].size - offset})
                     left == Left(i, StartBlk(offset), offset, n)
                 IN  /\ n \in Nat \ {0} /\ n <= max_len /\ offset + n <= inodes[i].size
                     /\ n = max_len \/ offset + n = inodes[i].size
                     /\ Len(ReadData(i, offset, max_len)) = left
                     /\ left = (IF offset < Stop(i, offset, n)
                                THEN Stop(i, offset, n) - offset ELSE 0)
                     /\ \A x \in 1..left :
                           ReadData(i, offset, max_len)[x] = ByteAt(i, offset + (x - 1))
  <1> DEFINE size == inodes[i].size
             n == Min({max_len, size - offset})
             s == StartBlk(offset)
  <1>0. size \in Nat
    BY DEF StoreInv
  <1>1. ASSUME offset >= size PROVE ReadData(i, offset, max_len) = <<>>
    BY <1>1, Zenon DEF ReadData
  <1>2. ASSUME offset < size
        PROVE  /\ n \in Nat \ {0} /\ n <= max_len /\ offset + n <= size
               /\ n = max_len \/ offset + n = size
               /\ Len(ReadData(i, offset, max_len)) = Left(i, s, offset, n)
               /\ Left(i, s, offset, n) =
                     (IF offset < Stop(i, offset, n) THEN Stop(i, offset, n) - offset ELSE 0)
               /\ \A x \in 1..Left(i, s, offset, n) :
                     ReadData(i, offset, max_len)[x] = ByteAt(i, offset + (x - 1))
    <2> HIDE DEF size
    <2>1. n = IF max_len <= size - offset THEN max_len ELSE size - offset
      <3>1. max_len \in Int /\ size - offset \in Int
        BY <1>0
      <3> QED BY <3>1, MinOfTwo
    <2>2. /\ n \in Nat \ {0} /\ n <= max_len /\ offset + n <= size
          /\ n = max_len \/ offset + n = size
      BY <1>0, <1>2, <2>1
    <2>3. ~(offset >= size)
      BY <1>0, <1>2
    <2>4. ReadData(i, offset, max_len) = (CHOOSE F : Reads(i, offset, n, F))[s]
      BY <2>3, Zenon DEF ReadData, Reads, Part, size
    <2> HIDE DEF n
    <2>5. ReadData(i, offset, max_len) = Rest(i, s, offset, n)
      BY <2>2, <2>4, ReadIs, Zenon
    <2>6. s \in s .. EndBlk(offset, n) /\ s \in Nat
      <3>1. s \in Nat /\ EndBlk(offset, n) \in Nat /\ s <= EndBlk(offset, n)
        BY <2>2, AccessEnds, Zenon
      <3> HIDE DEF s
      <3> QED BY <3>1
    <2>7. Pos(s, offset) = offset
      <3> HIDE DEF s
      <3>1. s = StartBlk(offset) /\ s \in StartBlk(offset) .. EndBlk(offset, n)
        BY <2>6 DEF s
      <3> QED BY <2>2, <3>1, PartOfBlock, Zenon DEF Pos
    <2>8. Left(i, s, offset, n) \in Nat
      BY <2>2, <2>6, LeftStep, Zenon
    <2>9. Left(i, s, offset, n) =
             (IF offset < Stop(i, offset, n) THEN Stop(i, offset, n) - offset ELSE 0)
      BY <2>7, Zenon DEF Left
    <2>10. /\ Len(Rest(i, s, offset, n)) = Left(i, s, offset, n)
           /\ \A x \in 1..Left(i, s, offset, n) :
                 Rest(i, s, offset, n)[x] = ByteAt(i, Pos(s, offset) + (x - 1))
      <3>1. n \in Nat /\ Pos(s, offset) \in Nat
        BY <2>2, <2>7, Zenon
      <3> QED BY <2>8, <3>1, RestSeq
    <2> QED BY <2>2, <2>5, <2>7, <2>9, <2>10, Zenon
  <1> QED BY <1>1, <1>2, Zenon

LEMMA DataReadBack ==
    ASSUME TableInv, StoreInv, DataInv
    PROVE  ReadBack
  <1> SUFFICES ASSUME NEW i \in DOMAIN inodes, NEW offset \in Positions,
                      NEW max_len \in 1 .. MaxPos - offset
               PROVE  LET data == ReadData(i, offset, max_len) IN
                      /\ Len(data) <= max_len
                      /\ \A k \in 1 .. max_len :
                            written[i][offset + k - 1] # Nothing =>
                               k <= Len(data) /\ data[k] = written[i][offset + k - 1]
    BY Zenon DEF ReadBack
  <1> DEFINE data == ReadData(i, offset, max_len)
             size == inodes[i].size
             len == Len(inodes[i].blocks)
  <1>0. BLOCK_SZ \in Nat \ {0} /\ MaxPos \in Nat
    BY SimpleFSAssumption
  <1>1. offset \in Nat /\ max_len \in Nat \ {0} /\ offset + max_len <= MaxPos
    BY <1>0 DEF Positions
  <1>2. size \in Nat /\ len \in Nat
    <2>1. len \in Nat
      BY SeqLen DEF TableInv, IsInode
    <2> QED BY <2>1 DEF StoreInv
  <1>3. ASSUME NEW k \in 1 .. max_len, written[i][offset + k - 1] # Nothing
        PROVE  /\ offset + k - 1 < size
               /\ offset + k - 1 < len * BLOCK_SZ
               /\ ByteAt(i, offset + k - 1) = written[i][offset + k - 1]
    <2> DEFINE p == offset + k - 1
    <2>1. p \in Positions /\ p \in Nat
      BY <1>0, <1>1 DEF Positions
    <2>2. written[i][p] # Nothing
      BY <1>3
    <2> HIDE DEF p
    <2>3. p < size /\ p \div BLOCK_SZ < len /\ ByteAt(i, p) = written[i][p]
      BY <2>1, <2>2, Zenon DEF DataInv, BytesAt
    <2>4. p < len * BLOCK_SZ
      <3> DEFINE d == p \div BLOCK_SZ
                 r == p % BLOCK_SZ
      <3>1. d \in Nat /\ d * BLOCK_SZ \in Nat /\ r \in 0..(BLOCK_SZ - 1) /\ p = d * BLOCK_SZ + r
        BY <2>1, BlockOf, Zenon
      <3>2. d < len
        BY <2>3
      <3> HIDE DEF d, r, len
      <3>3. d * BLOCK_SZ + BLOCK_SZ <= len * BLOCK_SZ /\ len * BLOCK_SZ \in Int
        BY <1>2, <3>1, <3>2, MulLess
      <3> QED BY <1>0, <3>1, <3>3
    <2> QED BY <2>3, <2>4 DEF p
  <1>4. CASE offset >= size
    <2>1. data = <<>>
      BY <1>1, <1>4, ReadDataIs, Zenon
    <2>2. Len(data) <= max_len
      <3>1. Len(data) = 0
        BY <2>1, NoElements, Zenon
      <3> HIDE DEF data
      <3> QED BY <1>1, <3>1
    <2>3. \A k \in 1 .. max_len : ~(written[i][offset + k - 1] # Nothing)
      <3> HIDE DEF size
      <3>1. \A k \in 1 .. max_len : ~(offset + k - 1 < size)
        BY <1>1, <1>2, <1>4
      <3> QED BY <1>3, <3>1, Zenon
    <2> QED BY <2>2, <2>3, Zenon
  <1>5. CASE offset < size
    <2> DEFINE n == Min({max_len, size - offset})
               left == Left(i, StartBlk(offset), offset, n)
               stop == Stop(i, offset, n)
               top == len * BLOCK_SZ
    <2>1. /\ n \in Nat \ {0} /\ n <= max_len /\ offset + n <= size
          /\ n = max_len \/ offset + n = size
          /\ Len(data) = left
          /\ left = (IF offset < stop THEN stop - offset ELSE 0)
          /\ \A x \in 1..left : data[x] = ByteAt(i, offset + (x - 1))
      BY <1>1, <1>5, ReadDataIs, Zenon
    <2>2. stop = (IF offset + n <= top THEN offset + n ELSE top)
      BY Zenon DEF Stop
    <2>3. top \in Nat
      <3> HIDE DEF len
      <3> QED BY <1>0, <1>2
    <2> HIDE DEF n, left, stop, top, data, size
    <2>4. Len(data) <= max_len
      BY <1>1, <2>1, <2>2, <2>3
    <2>5. ASSUME NEW k \in 1 .. max_len, written[i][offset + k - 1] # Nothing
          PROVE  k <= Len(data) /\ data[k] = written[i][offset + k - 1]
      <3>1. /\ offset + k - 1 < size
            /\ offset + k - 1 < top
            /\ ByteAt(i, offset + k - 1) = written[i][offset + k - 1]
        BY <1>3, <2>5, Zenon DEF top
      <3>2. k <= left /\ k \in 1..left
        BY <1>1, <1>2, <2>1, <2>2, <2>3, <3>1
      <3>3. offset + (k - 1) = offset + k - 1
        BY <1>1
      <3> QED BY <2>1, <3>1, <3>2, <3>3, Zenon
    <2> QED BY <2>4, <2>5, Zenon DEF data
  <1> QED
    <2> HIDE DEF size
    <2>1. offset >= size \/ offset < size
      BY <1>1, <1>2
    <2> QED BY <1>4, <1>5, <2>1, Zenon

--------------------------------------------------------------------------------
(* The steps. *)

\* New entries of a directory: its blocks and its size stay.
LEMMA EntryBytes ==
    ASSUME TableInv, StoreInv, DataInv, NEW dir \in DOMAIN inodes, NEW kids,
           SetChildren(dir, kids), UNCHANGED <<next_blk, store, written>>
    PROVE  StoreInv' /\ DataInv'
  <1> DEFINE f == inodes[dir]
  <1>1. /\ inodes' = [inodes EXCEPT ![dir].children = kids]
        /\ inodes = [j \in DOMAIN inodes |-> inodes[j]]
    BY DEF SetChildren, TableInv
  <1>2. /\ DOMAIN inodes' = DOMAIN inodes
        /\ inodes'[dir] = [f EXCEPT !.children = kids]
        /\ \A d \in DOMAIN inodes \ {dir} : inodes'[d] = inodes[d]
    BY <1>1, Zenon
  <1>3. f \in [type : {f.type}, blocks : Seq(Nat), size : {f.size}, children : {f.children}]
    BY DEF TableInv, IsInode
  <1> HIDE DEF f
  <1>4. LET g == [f EXCEPT !.children = kids] IN g.blocks = f.blocks /\ g.size = f.size
    BY <1>3
  <1>5. \A i \in DOMAIN inodes' :
           /\ i \in DOMAIN inodes
           /\ inodes'[i].blocks = inodes[i].blocks /\ inodes'[i].size = inodes[i].size
    BY <1>2, <1>4, Zenon DEF f
  <1> QED BY <1>2, <1>5, BytesKept, Zenon

\* Lookups, new numbers and changes of directories.
LEMMA NameBytes ==
    ASSUME TableInv, StoreInv, DataInv, NEW t \in Threads,
           \/ \E op, path : Lookup(t, op, path)
           \/ AllocIno(t) \/ AddEntry(t) \/ RemoveEntry(t)
    PROVE  StoreInv' /\ DataInv'
  <1>1. UNCHANGED <<next_blk, store, written>>
    BY Zenon DEF Lookup, AllocIno, AddEntry, RemoveEntry, dataVars
  <1>2. \/ UNCHANGED inodes
        \/ IsDir(call[t].dir) /\ \E kids : SetChildren(call[t].dir, kids)
    BY Zenon DEF Lookup, AllocIno, AddEntry, RemoveEntry
  <1>3. CASE UNCHANGED inodes
    BY <1>1, <1>3, BytesKept
  <1>4. CASE IsDir(call[t].dir) /\ \E kids : SetChildren(call[t].dir, kids)
    BY <1>1, <1>4, EntryBytes, Zenon DEF IsDir
  <1> QED BY <1>2, <1>3, <1>4, Zenon

LEMMA InsertBytes ==
    ASSUME FSInv, FreshInv, StoreInv, DataInv, NEW t \in Threads, InsertInode(t)
    PROVE  StoreInv' /\ DataInv'
  <1> DEFINE ino == call[t].ino
             f == IF call[t].op = "mkdir" THEN NewDir ELSE NewFile
  <1>1. ino \in Inos \ DOMAIN inodes
    BY InsertFresh, Zenon
  <1>2. /\ UNCHANGED <<next_blk, store, written>>
        /\ inodes' = [i \in DOMAIN inodes \cup {ino} |-> IF i = ino THEN f ELSE inodes[i]]
    BY Zenon DEF InsertInode, dataVars
  <1>3. f.size = 0
    BY DEF NewDir, NewFile, NewInode
  <1> HIDE DEF f, ino
  <1>4. /\ DOMAIN inodes' = DOMAIN inodes \cup {ino}
        /\ inodes'[ino] = f
        /\ \A i \in DOMAIN inodes \ {ino} : inodes'[i] = inodes[i]
    BY <1>2
  <1>5. /\ DOMAIN inodes \subseteq DOMAIN inodes'
        /\ \A i \in DOMAIN inodes' :
              \/ /\ i \in DOMAIN inodes
                 /\ inodes'[i].blocks = inodes[i].blocks /\ inodes'[i].size = inodes[i].size
              \/ i \in Inos \ DOMAIN inodes /\ inodes'[i].size = 0
    BY <1>1, <1>3, <1>4
  <1> QED BY <1>2, <1>5, BytesKept, Zenon

LEMMA RemoveBytes ==
    ASSUME FSInv, FreshInv, StoreInv, DataInv, NEW t \in Threads, RemoveInode(t)
    PROVE  StoreInv' /\ DataInv'
  <1> DEFINE ino == call[t].ino
  <1>1. /\ pc[t] = "drop" /\ UNCHANGED <<next_blk, store>>
        /\ inodes' = [i \in DOMAIN inodes \ {ino} |-> inodes[i]]
        /\ written' = [written EXCEPT ![ino] = Unwritten]
    BY DEF RemoveInode
  <1>2. /\ DOMAIN inodes' = DOMAIN inodes \ {ino}
        /\ \A i \in DOMAIN inodes' : inodes'[i] = inodes[i]
    BY <1>1, Zenon
  <1>3. ino \in Inos
    <2>1. ino \in Nat /\ ino < next_ino /\ next_ino \in Nat /\ next_ino <= MaxIno + 1
      BY <1>1 DEF FSInv, InoInv, FreshInv
    <2> HIDE DEF ino
    <2> QED BY <2>1, SimpleFSAssumption, SMTT(20) DEF Inos, Root
  <1> QED BY <1>1, <1>2, <1>3, DropBytes, Zenon

LEMMA CutBytes ==
    ASSUME TableInv, StoreInv, DataInv,
           \/ \E t \in Threads : TruncateOpened(t)
           \/ \E i \in Inos, size \in 0 .. MaxPos : Truncate(i, size)
    PROVE  StoreInv' /\ DataInv'
  <1>1. \/ UNCHANGED <<inodes, next_blk, store, written>>
        \/ store' = store /\ \E i \in DOMAIN inodes, size \in 0 .. MaxPos : Truncated(i, size)
    <2>1. ASSUME NEW t \in Threads, TruncateOpened(t) PROVE <1>1
      <3>1. 0 \in 0 .. MaxPos
        BY SimpleFSAssumption
      <3> QED BY <2>1, <3>1, Zenon DEF TruncateOpened
    <2>2. ASSUME NEW i \in Inos, NEW size \in 0 .. MaxPos, Truncate(i, size) PROVE <1>1
      BY <2>2, Zenon DEF Truncate
    <2> QED BY <2>1, <2>2, Zenon
  <1>2. CASE UNCHANGED <<inodes, next_blk, store, written>>
    BY <1>2, BytesKept
  <1>3. ASSUME store' = store, NEW i \in DOMAIN inodes, NEW size \in 0 .. MaxPos,
               Truncated(i, size)
        PROVE  StoreInv' /\ DataInv'
    <2>1. size \in Nat
      BY SimpleFSAssumption
    <2> QED BY <1>3, <2>1, TruncateBytes, Zenon
  <1> QED BY <1>1, <1>2, <1>3, Zenon

LEMMA PutBytes ==
    ASSUME FSInv, FSInv', StoreInv, DataInv, NEW i \in Inos, NEW offset \in Positions,
           NEW buf \in Bufs, NEW done \in 0 .. MaxPos, IsFile(i),
           done <= EndBlk(offset, Len(buf)) - StartBlk(offset) + 1,
           WriteData(i, offset, buf, done)
    PROVE  StoreInv' /\ DataInv'
  <1>1. TableInv /\ TableInv' /\ BlocksOwned'
    BY DEF FSInv
  <1>2. i \in DOMAIN inodes /\ offset \in Nat /\ buf \in Seq(Nat) /\ done \in Nat
    <2>1. i \in DOMAIN inodes /\ buf \in Seq(Nat)
      BY SimpleFSAssumption, Zenon DEF IsFile
    <2>2. offset \in Nat /\ done \in Nat
      BY SimpleFSAssumption DEF Positions
    <2> QED BY <2>1, <2>2, Zenon
  <1>3. Len(buf) \in Nat \ {0}
    <2>1. buf # <<>>
      BY SimpleFSAssumption
    <2> QED BY <1>2, <2>1, NoElements
  <1> QED BY <1>1, <1>2, <1>3, WriteBytes, Zenon

LEMMA InitBytes == Init => StoreInv /\ DataInv
  <1> SUFFICES ASSUME Init PROVE StoreInv /\ DataInv
    OBVIOUS
  <1>1. DOMAIN inodes = {Root} /\ inodes[Root].size = 0 /\ Root \in Inos
    <2>1. DOMAIN inodes = {Root} /\ inodes[Root] = NewDir
      BY Zenon DEF Init
    <2> QED BY <2>1, SimpleFSAssumption DEF NewDir, NewInode, Inos, Root
  <1>2. /\ store = [b \in Blks |-> store[b]]
        /\ \A b \in Blks : store[b] = [o \in 1..BLOCK_SZ |-> store[b][o]]
        /\ written = [i \in Inos |-> written[i]]
        /\ \A i \in Inos : written[i] = Unwritten
    BY DEF Init
  <1>3. StoreInv
    <2>1. next_blk <= MaxBlk /\ \A i \in DOMAIN inodes : i \in Inos /\ inodes[i].size \in Nat
      BY <1>1, SimpleFSAssumption DEF Init
    <2> QED BY <1>2, <2>1, Zenon DEF StoreInv
  <1>4. DataInv
    <2>1. \A p \in Positions : Unwritten[p] = Nothing
      BY DEF Unwritten
    <2> QED BY <1>1, <1>2, <2>1, Zenon DEF DataInv, BytesAt
  <1> QED BY <1>3, <1>4

LEMMA BytesHold == Spec => [](StoreInv /\ DataInv)
  <1>1. FSInv /\ FSInv' /\ FreshInv /\ StoreInv /\ DataInv /\ [Next]_vars => StoreInv' /\ DataInv'
    <2> SUFFICES ASSUME FSInv, FSInv', FreshInv, StoreInv, DataInv, [Next]_vars
                 PROVE  StoreInv' /\ DataInv'
      OBVIOUS
    <2>1. TableInv
      BY DEF FSInv
    <2>2. CASE UNCHANGED vars
      BY <2>2, BytesKept DEF vars
    <2>3. CASE Next
      BY <2>1, <2>3, NameBytes, InsertBytes, RemoveBytes, CutBytes, PutBytes, Zenon
         DEF Next, CallStep
    <2> QED BY <2>2, <2>3
  <1> QED BY InvHolds, FreshHolds, InitBytes, <1>1, PTL DEF Spec

--------------------------------------------------------------------------------

\* alloc_block, truncate, write_data and unlink: for any files, sizes, offsets
\* and failed fetches, no block number is in two places of the inode table.
THEOREM NoSharedBlock == Spec => []BlocksOwned
  <1>1. FSInv => BlocksOwned
    BY DEF FSInv
  <1> QED BY InvHolds, <1>1, PTL

\* create_file, create_dir and unlink, with any number of callers between their
\* critical sections: every name leads to an inode in the table or about to be
\* inserted, and no two names lead to the same one.
THEOREM NoDanglingName == Spec => []NamesLead
  <1>1. FSInv => NamesLead
    BY DEF FSInv
  <1> QED BY InvHolds, <1>1, PTL

\* write_data and read_data: for any block size, offsets and lengths, files with
\* holes, truncations, unlinks and fetches that fail midway, read_data returns the
\* last byte written at each position and never more than was asked for.
THEOREM ReadsBack == Spec => []ReadBack
  <1>1. FSInv /\ StoreInv /\ DataInv => ReadBack
    BY DataReadBack, Zenon DEF FSInv
  <1> QED BY InvHolds, BytesHold, <1>1, PTL
================================================================================
