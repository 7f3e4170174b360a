---------------------------- MODULE KernLockProofs ----------------------------
(***************************************************************************)
(* For any set of threads, any ids, any capacity and any nesting: the      *)
(* KernLock of locking.rs keeps its fields typed, admits one thread at a   *)
(* time, and implements the abstract re-entrant lock.                      *)
(***************************************************************************)
EXTENDS KernLock, SequenceTheorems, TLAPS

\* Labels of a thread that won the compare_exchange and has not released.
InsideLabels == {"initStack", "initDepth", "initOwner", "loadDepth", "push", "incr",
                 "panicked", "pop", "decr", "clearStack", "clearDepth",
                 "clearOwner", "clearFlag"}

\* ... of those, the ones before owner_tid is set or after it is cleared,
UnownedLabels == {"initStack", "initDepth", "initOwner", "clearFlag"}

\* ... the ones where the outermost enter or leave is being carried out,
OuterLabels == {"initStack", "initDepth", "initOwner",
                "clearStack", "clearDepth", "clearOwner", "clearFlag"}

\* ... and the ones where depth is not yet set or already cleared.
NoDepthLabels == {"initStack", "initDepth", "clearOwner", "clearFlag"}

\* The stack of a holder whose nested ids are n.
StackOf(n) == [i \in Slots |-> IF i <= Len(n) THEN n[i] ELSE 0]

ControlInv(t) ==
    /\ pc[t] = "cas" => nest[t] = <<>>
    /\ pc[t] \in InsideLabels => nest[t] # <<>>
    /\ pc[t] # "idle" => arg[t] \in Ids
    /\ nest[t] # <<>> => flag
    /\ owner_tid = t <=> nest[t] # <<>> /\ pc[t] \notin UnownedLabels

DepthInv(t) ==
    nest[t] # <<>> =>
        /\ pc[t] \in OuterLabels => Len(nest[t]) = 1
        /\ IF pc[t] \in NoDepthLabels THEN depth = 0 ELSE depth = Len(nest[t])
        /\ pc[t] \in {"push", "incr"} => ld[t] = depth /\ depth < Cap
        /\ pc[t] \in {"pop", "decr"} => ld[t] = depth /\ depth > 1
        /\ pc[t] = "panicked" => depth = Cap

StackInv(t) ==
    nest[t] # <<>> =>
        /\ pc[t] \in {"initStack", "clearDepth", "clearOwner", "clearFlag"}
             => holder_stack = EmptyStack
        /\ pc[t] = "initStack" => nest[t] = <<arg[t]>>
        /\ pc[t] \in {"idle", "initDepth", "initOwner", "loadDepth", "push", "panicked",
                      "pop", "clearStack"}
             => holder_stack = StackOf(nest[t])
        /\ pc[t] = "incr"
             => holder_stack = [StackOf(nest[t]) EXCEPT ![Len(nest[t]) + 1] = arg[t]]
        /\ pc[t] = "decr"
             => holder_stack = [StackOf(nest[t]) EXCEPT ![Len(nest[t])] = 0]

\* The inductive invariant.
LockInv ==
    /\ TypeOK
    /\ MutualExclusion
    /\ ReleasedClean
    /\ \A t \in Threads : ControlInv(t) /\ DepthInv(t) /\ StackInv(t)

-------------------------------------------------------------------------------
(* Facts about the sequence of nested ids and the stack it describes. *)

\* Undoing the latest enter: one id less, the others in place.
LEMMA FrontFacts ==
    ASSUME NEW S, NEW s \in Seq(S), s # <<>>
    PROVE  /\ Len(s) \in Nat /\ Len(s) >= 1
           /\ SubSeq(s, 1, Len(s) - 1) \in Seq(S)
           /\ Len(SubSeq(s, 1, Len(s) - 1)) = Len(s) - 1
           /\ \A i \in 1..(Len(s) - 1) : SubSeq(s, 1, Len(s) - 1)[i] = s[i]
           /\ SubSeq(s, 1, Len(s) - 1) = <<>> <=> Len(s) = 1
  <1> DEFINE n == Len(s) - 1
             f == SubSeq(s, 1, n)
  <1>1. Len(s) \in Nat /\ Len(s) >= 1
    BY EmptySeq
  <1>2. n \in Int /\ 1 \in Int /\ \A i \in 1..n : s[i] \in S
    BY <1>1, LenProperties
  <1>3. /\ f \in Seq(S)
        /\ Len(f) = IF 1 <= n THEN n - 1 + 1 ELSE 0
        /\ \A i \in 1..(n - 1 + 1) : f[i] = s[1 + i - 1]
    <2> HIDE DEF n
    <2> QED BY <1>2, SubSeqProperties
  <1>4. Len(s) = 1 => f = <<>>
    BY SubSeqEmpty
  <1>5. Len(<<>>) = 0
    BY EmptySeq
  <1>6. Len(f) = n
    <2>1. Len(f) = IF 1 <= n THEN n - 1 + 1 ELSE 0
      BY <1>3
    <2>2. n \in Nat
      BY <1>1
    <2> HIDE DEF f, n
    <2> QED BY <2>1, <2>2
  <1>7. \A i \in 1..n : f[i] = s[i]
    <2> SUFFICES ASSUME NEW i \in 1..n PROVE f[i] = s[i]
      OBVIOUS
    <2>1. i \in 1..(n - 1 + 1) /\ 1 + i - 1 = i
      BY <1>1
    <2> HIDE DEF f
    <2> QED BY <1>3, <2>1
  <1>8. f = <<>> => Len(s) = 1
    <2> HIDE DEF f
    <2> QED BY <1>1, <1>5, <1>6
  <1>9. QED
    BY <1>1, <1>3, <1>4, <1>6, <1>7, <1>8

\* A first enter stacks its id in slot 1.
LEMMA StackOfSingle ==
    ASSUME NEW e \in Ids
    PROVE  /\ <<e>> \in Seq(Ids) /\ <<e>> # <<>> /\ Len(<<e>>) = 1
           /\ StackOf(<<e>>) = [EmptyStack EXCEPT ![1] = e]
  <1>1. <<e>> \in Seq(Ids) /\ Len(<<e>>) = 1 /\ <<e>>[1] = e
    OBVIOUS
  <1>2. <<e>> # <<>>
    BY <1>1, EmptySeq
  <1>3. StackOf(<<e>>) = [EmptyStack EXCEPT ![1] = e]
    BY <1>1, KernLockAssumption DEF StackOf, EmptyStack, Slots
  <1>4. QED
    BY <1>1, <1>2, <1>3

\* Writing slot depth and then raising depth stacks the new id.
LEMMA StackOfAppend ==
    ASSUME NEW s \in Seq(Ids), NEW e \in Ids
    PROVE  StackOf(Append(s, e)) = [StackOf(s) EXCEPT ![Len(s) + 1] = e]
  <1> DEFINE a == Append(s, e)
  <1>1. /\ Len(s) \in Nat /\ Len(a) = Len(s) + 1 /\ a[Len(s) + 1] = e
        /\ \A i \in 1..Len(s) : a[i] = s[i]
    BY AppendProperties, LenProperties
  <1> HIDE DEF a
  <1>2. ASSUME NEW i \in Slots
        PROVE  StackOf(a)[i] = [StackOf(s) EXCEPT ![Len(s) + 1] = e][i]
    BY <1>1, KernLockAssumption DEF StackOf, Slots
  <1>3. QED
    BY <1>2, Zenon DEF StackOf, a

\* Clearing the top slot and then lowering depth unstacks the latest id.
LEMMA StackOfFront ==
    ASSUME NEW s \in Seq(Ids), s # <<>>
    PROVE  StackOf(SubSeq(s, 1, Len(s) - 1)) = [StackOf(s) EXCEPT ![Len(s)] = 0]
  <1> DEFINE f == SubSeq(s, 1, Len(s) - 1)
  <1>1. /\ Len(s) \in Nat /\ Len(s) >= 1 /\ Len(f) = Len(s) - 1
        /\ \A i \in 1..(Len(s) - 1) : f[i] = s[i]
    BY FrontFacts
  <1> HIDE DEF f
  <1>2. ASSUME NEW i \in Slots
        PROVE  StackOf(f)[i] = [StackOf(s) EXCEPT ![Len(s)] = 0][i]
    BY <1>1, KernLockAssumption DEF StackOf, Slots
  <1>3. QED
    BY <1>2, Zenon DEF StackOf, f

\* A new lock, free and empty, satisfies the invariant.
LEMMA InitEstablishesLockInv == Init => LockInv
  <1> SUFFICES ASSUME Init PROVE LockInv
    OBVIOUS
  <1>1. TypeOK
    <2>1. nest \in [Threads -> Seq(Ids)]
      BY EmptySeq DEF Init
    <2>2. flag \in BOOLEAN /\ trying \in [Threads -> BOOLEAN]
      BY Zenon DEF Init
    <2>3. depth \in 0..Cap /\ ld \in [Threads -> 0..Cap]
      BY KernLockAssumption DEF Init
    <2>4. holder_stack \in [Slots -> Ids \cup {0}]
      BY DEF Init, EmptyStack
    <2>5. owner_tid \in Threads \cup {NoTid} /\ pc \in [Threads -> Labels]
          /\ arg \in [Threads -> Ids \cup {0}]
      BY DEF Init, Labels
    <2>6. QED
      BY <2>1, <2>2, <2>3, <2>4, <2>5 DEF TypeOK
  <1>2. MutualExclusion /\ ReleasedClean
    BY DEF Init, MutualExclusion, ReleasedClean
  <1>3. ASSUME NEW t \in Threads PROVE ControlInv(t) /\ DepthInv(t) /\ StackInv(t)
    BY KernLockAssumption DEF Init, ControlInv, DepthInv, StackInv, InsideLabels
  <1>4. QED
    BY <1>1, <1>2, <1>3 DEF LockInv

\* Every step of every thread keeps the invariant.
LEMMA NextKeepsLockInv == LockInv /\ [Next]_vars => LockInv'
  <1> SUFFICES ASSUME LockInv, [Next]_vars PROVE LockInv'
    OBVIOUS
  <1> USE KernLockAssumption DEF LockInv, Step, lock, locals, Fits, FlagFree, LastLevel
  <1>1. ASSUME NEW t \in Threads, NEW id \in Ids, NEW try \in BOOLEAN, Enter(t, id, try)
        PROVE LockInv'
    <2>1. TypeOK'
      BY <1>1 DEF Enter, TypeOK, ControlInv, DepthInv, Labels, Slots, EmptyStack,
          InsideLabels
    <2>2. MutualExclusion'
      BY <1>1 DEF Enter, TypeOK, MutualExclusion, ControlInv, InsideLabels
    <2>3. ReleasedClean'
      BY <1>1 DEF Enter, TypeOK, ReleasedClean, ControlInv, DepthInv, StackInv,
          InsideLabels, UnownedLabels, NoDepthLabels
    <2>4. ASSUME NEW u \in Threads PROVE ControlInv(u)'
      BY <1>1 DEF Enter, TypeOK, MutualExclusion, ControlInv, InsideLabels, UnownedLabels
    <2>5. ASSUME NEW u \in Threads PROVE DepthInv(u)'
      BY <1>1 DEF Enter, TypeOK, MutualExclusion, ControlInv, DepthInv, InsideLabels,
          OuterLabels, NoDepthLabels
    <2>6. ASSUME NEW u \in Threads PROVE StackInv(u)'
      BY <1>1, SMTT(30) DEF Enter, TypeOK, MutualExclusion, ControlInv, DepthInv, StackInv, StackOf,
          InsideLabels, OuterLabels, NoDepthLabels, EmptyStack, Slots
    <2>7. QED
      BY <2>1, <2>2, <2>3, <2>4, <2>5, <2>6
  <1>2. ASSUME NEW t \in Threads, ReenterLoad(t) PROVE LockInv'
    <2>1. TypeOK'
      BY <1>2 DEF ReenterLoad, TypeOK, ControlInv, DepthInv, Labels, Slots, EmptyStack,
          InsideLabels
    <2>2. MutualExclusion'
      BY <1>2 DEF ReenterLoad, TypeOK, MutualExclusion, ControlInv, InsideLabels
    <2>3. ReleasedClean'
      BY <1>2 DEF ReenterLoad, TypeOK, ReleasedClean, ControlInv, DepthInv, StackInv,
          InsideLabels, UnownedLabels, NoDepthLabels
    <2>4. ASSUME NEW u \in Threads PROVE ControlInv(u)'
      BY <1>2 DEF ReenterLoad, TypeOK, MutualExclusion, ControlInv, InsideLabels,
          UnownedLabels
    <2>5. ASSUME NEW u \in Threads PROVE DepthInv(u)'
      BY <1>2 DEF ReenterLoad, TypeOK, MutualExclusion, ControlInv, DepthInv, InsideLabels,
          OuterLabels, NoDepthLabels
    <2>6. ASSUME NEW u \in Threads PROVE StackInv(u)'
      BY <1>2 DEF ReenterLoad, TypeOK, MutualExclusion, ControlInv, DepthInv, StackInv,
          StackOf, InsideLabels, OuterLabels, NoDepthLabels, EmptyStack, Slots
    <2>7. QED
      BY <2>1, <2>2, <2>3, <2>4, <2>5, <2>6
  <1>3. ASSUME NEW t \in Threads, ReenterPush(t) PROVE LockInv'
    <2>1. TypeOK'
      BY <1>3 DEF ReenterPush, TypeOK, ControlInv, DepthInv, Labels, Slots, EmptyStack,
          InsideLabels
    <2>2. MutualExclusion'
      BY <1>3 DEF ReenterPush, TypeOK, MutualExclusion, ControlInv, InsideLabels
    <2>3. ReleasedClean'
      BY <1>3 DEF ReenterPush, TypeOK, ReleasedClean, ControlInv, DepthInv, StackInv,
          InsideLabels, UnownedLabels, NoDepthLabels
    <2>4. ASSUME NEW u \in Threads PROVE ControlInv(u)'
      BY <1>3 DEF ReenterPush, TypeOK, MutualExclusion, ControlInv, InsideLabels,
          UnownedLabels
    <2>5. ASSUME NEW u \in Threads PROVE DepthInv(u)'
      BY <1>3 DEF ReenterPush, TypeOK, MutualExclusion, ControlInv, DepthInv, InsideLabels,
          OuterLabels, NoDepthLabels
    <2>6. ASSUME NEW u \in Threads PROVE StackInv(u)'
      <3>1. nest[t] # <<>> /\ pc'[t] = "incr" /\ UNCHANGED <<nest, arg>>
        BY <1>3 DEF ReenterPush, TypeOK, ControlInv, InsideLabels
      <3>2. holder_stack' = [StackOf(nest[t]) EXCEPT ![Len(nest[t]) + 1] = arg[t]]
        BY <1>3, <3>1, Zenon DEF ReenterPush, DepthInv, StackInv, NoDepthLabels
      <3>3. CASE u = t
        BY <3>1, <3>2, <3>3 DEF StackInv
      <3>4. CASE u # t
        BY <3>1, <3>4 DEF MutualExclusion, StackInv
      <3>5. QED
        BY <3>3, <3>4
    <2>7. QED
      BY <2>1, <2>2, <2>3, <2>4, <2>5, <2>6
  <1>4. ASSUME NEW t \in Threads, ReenterIncr(t) PROVE LockInv'
    <2>1. TypeOK'
      BY <1>4 DEF ReenterIncr, TypeOK, ControlInv, DepthInv, Labels, Slots, EmptyStack,
          InsideLabels
    <2>2. MutualExclusion'
      BY <1>4 DEF ReenterIncr, TypeOK, MutualExclusion, ControlInv, InsideLabels
    <2>3. ReleasedClean'
      BY <1>4 DEF ReenterIncr, TypeOK, ReleasedClean, ControlInv, DepthInv, StackInv,
          InsideLabels, UnownedLabels, NoDepthLabels
    <2>4. ASSUME NEW u \in Threads PROVE ControlInv(u)'
      BY <1>4 DEF ReenterIncr, TypeOK, MutualExclusion, ControlInv, InsideLabels,
          UnownedLabels
    <2>5. ASSUME NEW u \in Threads PROVE DepthInv(u)'
      BY <1>4 DEF ReenterIncr, TypeOK, MutualExclusion, ControlInv, DepthInv, InsideLabels,
          OuterLabels, NoDepthLabels
    <2>6. ASSUME NEW u \in Threads PROVE StackInv(u)'
      <3>1. arg[t] \in Ids /\ nest[t] \in Seq(Ids) /\ nest[t] # <<>>
        BY <1>4 DEF ReenterIncr, TypeOK, ControlInv, InsideLabels
      <3>2. nest'[t] = Append(nest[t], arg[t])
        BY <1>4 DEF ReenterIncr, TypeOK
      <3>3. holder_stack' = StackOf(nest'[t])
        <4>1. holder_stack = [StackOf(nest[t]) EXCEPT ![Len(nest[t]) + 1] = arg[t]]
          BY <1>4, <3>1 DEF ReenterIncr, StackInv
        <4>2. QED
          BY <1>4, <3>1, <3>2, <4>1, StackOfAppend, Zenon DEF ReenterIncr
      <3>4. QED
        BY <1>4, <3>1, <3>3 DEF ReenterIncr, TypeOK, MutualExclusion, ControlInv, DepthInv,
            StackInv, InsideLabels, OuterLabels, NoDepthLabels
    <2>7. QED
      BY <2>1, <2>2, <2>3, <2>4, <2>5, <2>6
  <1>5. ASSUME NEW t \in Threads, AcquireCas(t) PROVE LockInv'
    <2>1. TypeOK'
      BY <1>5 DEF AcquireCas, TypeOK, ControlInv, DepthInv, Labels, Slots, EmptyStack,
          InsideLabels
    <2>2. MutualExclusion'
      BY <1>5 DEF AcquireCas, TypeOK, MutualExclusion, ControlInv, InsideLabels
    <2>3. ReleasedClean'
      BY <1>5 DEF AcquireCas, TypeOK, ReleasedClean, ControlInv, DepthInv, StackInv,
          InsideLabels, UnownedLabels, NoDepthLabels
    <2>4. ASSUME NEW u \in Threads PROVE ControlInv(u)'
      BY <1>5 DEF AcquireCas, TypeOK, MutualExclusion, ControlInv, InsideLabels,
          UnownedLabels
    <2>5. ASSUME NEW u \in Threads PROVE DepthInv(u)'
      BY <1>5, StackOfSingle DEF AcquireCas, TypeOK, MutualExclusion, ReleasedClean,
          ControlInv, DepthInv, InsideLabels, OuterLabels, NoDepthLabels
    <2>6. ASSUME NEW u \in Threads PROVE StackInv(u)'
      BY <1>5, StackOfSingle DEF AcquireCas, TypeOK, MutualExclusion, ReleasedClean,
          ControlInv, DepthInv, StackInv, InsideLabels, OuterLabels, NoDepthLabels
    <2>7. QED
      BY <2>1, <2>2, <2>3, <2>4, <2>5, <2>6
  <1>6. ASSUME NEW t \in Threads, TryFail(t) PROVE LockInv'
    <2>1. TypeOK'
      BY <1>6 DEF TryFail, TypeOK, ControlInv, DepthInv, Labels, Slots, EmptyStack,
          InsideLabels
    <2>2. MutualExclusion'
      BY <1>6 DEF TryFail, TypeOK, MutualExclusion, ControlInv, InsideLabels
    <2>3. ReleasedClean'
      BY <1>6 DEF TryFail, TypeOK, ReleasedClean, ControlInv, DepthInv, StackInv,
          InsideLabels, UnownedLabels, NoDepthLabels
    <2>4. ASSUME NEW u \in Threads PROVE ControlInv(u)'
      BY <1>6 DEF TryFail, TypeOK, MutualExclusion, ControlInv, InsideLabels, UnownedLabels
    <2>5. ASSUME NEW u \in Threads PROVE DepthInv(u)'
      BY <1>6 DEF TryFail, TypeOK, MutualExclusion, ControlInv, DepthInv, InsideLabels,
          OuterLabels, NoDepthLabels
    <2>6. ASSUME NEW u \in Threads PROVE StackInv(u)'
      BY <1>6 DEF TryFail, TypeOK, MutualExclusion, ControlInv, DepthInv, StackInv,
          StackOf, InsideLabels, OuterLabels, NoDepthLabels, EmptyStack, Slots
    <2>7. QED
      BY <2>1, <2>2, <2>3, <2>4, <2>5, <2>6
  <1>7. ASSUME NEW t \in Threads, AcquireStack(t) PROVE LockInv'
    <2>1. TypeOK'
      BY <1>7 DEF AcquireStack, TypeOK, ControlInv, DepthInv, Labels, Slots, EmptyStack,
          InsideLabels
    <2>2. MutualExclusion'
      BY <1>7 DEF AcquireStack, TypeOK, MutualExclusion, ControlInv, InsideLabels
    <2>3. ReleasedClean'
      BY <1>7 DEF AcquireStack, TypeOK, ReleasedClean, ControlInv, DepthInv, StackInv,
          InsideLabels, UnownedLabels, NoDepthLabels
    <2>4. ASSUME NEW u \in Threads PROVE ControlInv(u)'
      BY <1>7 DEF AcquireStack, TypeOK, MutualExclusion, ControlInv, InsideLabels,
          UnownedLabels
    <2>5. ASSUME NEW u \in Threads PROVE DepthInv(u)'
      BY <1>7 DEF AcquireStack, TypeOK, MutualExclusion, ControlInv, DepthInv,
          InsideLabels, OuterLabels, NoDepthLabels
    <2>6. ASSUME NEW u \in Threads PROVE StackInv(u)'
      <3>1. nest[t] # <<>> /\ pc'[t] = "initDepth" /\ nest' = nest
        BY <1>7 DEF AcquireStack, TypeOK, ControlInv, InsideLabels
      <3>2. arg[t] \in Ids /\ nest[t] = <<arg[t]>>
        BY <1>7, <3>1 DEF AcquireStack, ControlInv, StackInv
      <3>3. holder_stack' = StackOf(nest[t])
        BY <1>7, <3>2, StackOfSingle, Zenon DEF AcquireStack
      <3>4. CASE u = t
        BY <3>1, <3>3, <3>4 DEF StackInv
      <3>5. CASE u # t
        BY <3>1, <3>5 DEF MutualExclusion, StackInv
      <3>6. QED
        BY <3>4, <3>5
    <2>7. QED
      BY <2>1, <2>2, <2>3, <2>4, <2>5, <2>6
  <1>8. ASSUME NEW t \in Threads, AcquireDepth(t) PROVE LockInv'
    <2>1. TypeOK'
      BY <1>8 DEF AcquireDepth, TypeOK, ControlInv, DepthInv, Labels, Slots, EmptyStack,
          InsideLabels
    <2>2. MutualExclusion'
      BY <1>8 DEF AcquireDepth, TypeOK, MutualExclusion, ControlInv, InsideLabels
    <2>3. ReleasedClean'
      BY <1>8 DEF AcquireDepth, TypeOK, ReleasedClean, ControlInv, DepthInv, StackInv,
          InsideLabels, UnownedLabels, NoDepthLabels
    <2>4. ASSUME NEW u \in Threads PROVE ControlInv(u)'
      BY <1>8 DEF AcquireDepth, TypeOK, MutualExclusion, ControlInv, InsideLabels,
          UnownedLabels
    <2>5. ASSUME NEW u \in Threads PROVE DepthInv(u)'
      BY <1>8 DEF AcquireDepth, TypeOK, MutualExclusion, ControlInv, DepthInv,
          InsideLabels, OuterLabels, NoDepthLabels
    <2>6. ASSUME NEW u \in Threads PROVE StackInv(u)'
      BY <1>8 DEF AcquireDepth, TypeOK, MutualExclusion, ControlInv, DepthInv, StackInv,
          StackOf, InsideLabels, OuterLabels, NoDepthLabels, EmptyStack, Slots
    <2>7. QED
      BY <2>1, <2>2, <2>3, <2>4, <2>5, <2>6
  <1>9. ASSUME NEW t \in Threads, AcquireOwner(t) PROVE LockInv'
    <2>1. TypeOK'
      BY <1>9 DEF AcquireOwner, TypeOK, ControlInv, DepthInv, Labels, Slots, EmptyStack,
          InsideLabels
    <2>2. MutualExclusion'
      BY <1>9 DEF AcquireOwner, TypeOK, MutualExclusion, ControlInv, InsideLabels
    <2>3. ReleasedClean'
      BY <1>9 DEF AcquireOwner, TypeOK, ReleasedClean, ControlInv, DepthInv, StackInv,
          InsideLabels, UnownedLabels, NoDepthLabels
    <2>4. ASSUME NEW u \in Threads PROVE ControlInv(u)'
      BY <1>9 DEF AcquireOwner, TypeOK, MutualExclusion, ControlInv, InsideLabels,
          UnownedLabels
    <2>5. ASSUME NEW u \in Threads PROVE DepthInv(u)'
      BY <1>9 DEF AcquireOwner, TypeOK, MutualExclusion, ControlInv, DepthInv,
          InsideLabels, OuterLabels, NoDepthLabels
    <2>6. ASSUME NEW u \in Threads PROVE StackInv(u)'
      BY <1>9 DEF AcquireOwner, TypeOK, MutualExclusion, ControlInv, DepthInv, StackInv,
          StackOf, InsideLabels, OuterLabels, NoDepthLabels, EmptyStack, Slots
    <2>7. QED
      BY <2>1, <2>2, <2>3, <2>4, <2>5, <2>6
  <1>10. ASSUME NEW t \in Threads, Leave(t) PROVE LockInv'
    <2>1. TypeOK'
      BY <1>10 DEF Leave, TypeOK, ControlInv, DepthInv, Labels, Slots, EmptyStack,
          InsideLabels
    <2>2. MutualExclusion'
      BY <1>10 DEF Leave, TypeOK, MutualExclusion, ControlInv, InsideLabels
    <2>3. ReleasedClean'
      BY <1>10 DEF Leave, TypeOK, ReleasedClean, ControlInv, DepthInv, StackInv,
          InsideLabels, UnownedLabels, NoDepthLabels
    <2>4. ASSUME NEW u \in Threads PROVE ControlInv(u)'
      BY <1>10 DEF Leave, TypeOK, MutualExclusion, ControlInv, InsideLabels, UnownedLabels
    <2>5. ASSUME NEW u \in Threads PROVE DepthInv(u)'
      <3>1. Len(nest[t]) \in Nat \ {0}
        BY <1>10, EmptySeq DEF Leave, TypeOK
      <3>2. depth = Len(nest[t])
        BY <1>10 DEF Leave, DepthInv, NoDepthLabels
      <3>3. CASE u = t
        BY <1>10, <3>1, <3>2, <3>3 DEF Leave, TypeOK, DepthInv, OuterLabels, NoDepthLabels
      <3>4. CASE u # t
        BY <1>10, <3>4 DEF Leave, TypeOK, MutualExclusion, DepthInv
      <3>5. QED
        BY <3>3, <3>4
    <2>6. ASSUME NEW u \in Threads PROVE StackInv(u)'
      BY <1>10 DEF Leave, TypeOK, MutualExclusion, ControlInv, DepthInv, StackInv, StackOf,
          InsideLabels, OuterLabels, NoDepthLabels, EmptyStack, Slots
    <2>7. QED
      BY <2>1, <2>2, <2>3, <2>4, <2>5, <2>6
  <1>11. ASSUME NEW t \in Threads, LeavePop(t) PROVE LockInv'
    <2>1. TypeOK'
      BY <1>11 DEF LeavePop, TypeOK, ControlInv, DepthInv, Labels, Slots, EmptyStack,
          InsideLabels
    <2>2. MutualExclusion'
      BY <1>11 DEF LeavePop, TypeOK, MutualExclusion, ControlInv, InsideLabels
    <2>3. ReleasedClean'
      BY <1>11 DEF LeavePop, TypeOK, ReleasedClean, ControlInv, DepthInv, StackInv,
          InsideLabels, UnownedLabels, NoDepthLabels
    <2>4. ASSUME NEW u \in Threads PROVE ControlInv(u)'
      BY <1>11 DEF LeavePop, TypeOK, MutualExclusion, ControlInv, InsideLabels,
          UnownedLabels
    <2>5. ASSUME NEW u \in Threads PROVE DepthInv(u)'
      BY <1>11 DEF LeavePop, TypeOK, MutualExclusion, ControlInv, DepthInv, InsideLabels,
          OuterLabels, NoDepthLabels
    <2>6. ASSUME NEW u \in Threads PROVE StackInv(u)'
      <3>1. nest[t] # <<>> /\ pc'[t] = "decr" /\ nest' = nest
        BY <1>11 DEF LeavePop, TypeOK, ControlInv, InsideLabels
      <3>2. holder_stack' = [StackOf(nest[t]) EXCEPT ![Len(nest[t])] = 0]
        BY <1>11, <3>1, Zenon DEF LeavePop, DepthInv, StackInv, NoDepthLabels
      <3>3. CASE u = t
        BY <3>1, <3>2, <3>3 DEF StackInv
      <3>4. CASE u # t
        BY <3>1, <3>4 DEF MutualExclusion, StackInv
      <3>5. QED
        BY <3>3, <3>4
    <2>7. QED
      BY <2>1, <2>2, <2>3, <2>4, <2>5, <2>6
  <1>12. ASSUME NEW t \in Threads, LeaveDecr(t) PROVE LockInv'
    <2>1. TypeOK'
      BY <1>12 DEF LeaveDecr, TypeOK, ControlInv, DepthInv, Labels, Slots, EmptyStack,
          InsideLabels
    <2>2. MutualExclusion'
      BY <1>12, FrontFacts DEF LeaveDecr, TypeOK, MutualExclusion, ControlInv, DepthInv,
          NoDepthLabels, InsideLabels
    <2>3. ReleasedClean'
      BY <1>12 DEF LeaveDecr, TypeOK, ReleasedClean, ControlInv, DepthInv, StackInv,
          InsideLabels, UnownedLabels, NoDepthLabels
    <2>4. ASSUME NEW u \in Threads PROVE ControlInv(u)'
      BY <1>12, FrontFacts DEF LeaveDecr, TypeOK, MutualExclusion, ControlInv, DepthInv,
          NoDepthLabels, InsideLabels, UnownedLabels
    <2>5. ASSUME NEW u \in Threads PROVE DepthInv(u)'
      BY <1>12 DEF LeaveDecr, TypeOK, MutualExclusion, ControlInv, DepthInv, InsideLabels,
          OuterLabels, NoDepthLabels
    <2>6. ASSUME NEW u \in Threads PROVE StackInv(u)'
      <3>1. /\ nest[t] # <<>> /\ nest[t] \in Seq(Ids) /\ pc'[t] = "idle"
            /\ nest'[t] = SubSeq(nest[t], 1, Len(nest[t]) - 1)
            /\ \A w \in Threads : w # t => nest'[w] = nest[w]
        BY <1>12 DEF LeaveDecr, TypeOK, ControlInv, InsideLabels
      <3>2. holder_stack' = [StackOf(nest[t]) EXCEPT ![Len(nest[t])] = 0]
        BY <1>12, <3>1 DEF LeaveDecr, StackInv
      <3>3. holder_stack' = StackOf(nest'[t])
        BY <3>1, <3>2, StackOfFront, Zenon
      <3>4. CASE u = t
        BY <3>1, <3>3, <3>4, Zenon DEF StackInv
      <3>5. CASE u # t
        BY <3>1, <3>5 DEF MutualExclusion, StackInv
      <3>6. QED
        BY <3>4, <3>5
    <2>7. QED
      BY <2>1, <2>2, <2>3, <2>4, <2>5, <2>6
  <1>13. ASSUME NEW t \in Threads, ReleaseStack(t) PROVE LockInv'
    <2>1. TypeOK'
      BY <1>13 DEF ReleaseStack, TypeOK, ControlInv, DepthInv, Labels, Slots, EmptyStack,
          InsideLabels
    <2>2. MutualExclusion'
      BY <1>13 DEF ReleaseStack, TypeOK, MutualExclusion, ControlInv, InsideLabels
    <2>3. ReleasedClean'
      BY <1>13 DEF ReleaseStack, TypeOK, ReleasedClean, ControlInv, DepthInv, StackInv,
          InsideLabels, UnownedLabels, NoDepthLabels
    <2>4. ASSUME NEW u \in Threads PROVE ControlInv(u)'
      BY <1>13 DEF ReleaseStack, TypeOK, MutualExclusion, ControlInv, InsideLabels,
          UnownedLabels
    <2>5. ASSUME NEW u \in Threads PROVE DepthInv(u)'
      BY <1>13 DEF ReleaseStack, TypeOK, MutualExclusion, ControlInv, DepthInv,
          InsideLabels, OuterLabels, NoDepthLabels
    <2>6. ASSUME NEW u \in Threads PROVE StackInv(u)'
      BY <1>13 DEF ReleaseStack, TypeOK, MutualExclusion, ControlInv, DepthInv, StackInv,
          StackOf, InsideLabels, OuterLabels, NoDepthLabels, EmptyStack, Slots
    <2>7. QED
      BY <2>1, <2>2, <2>3, <2>4, <2>5, <2>6
  <1>14. ASSUME NEW t \in Threads, ReleaseDepth(t) PROVE LockInv'
    <2>1. TypeOK'
      BY <1>14 DEF ReleaseDepth, TypeOK, ControlInv, DepthInv, Labels, Slots, EmptyStack,
          InsideLabels
    <2>2. MutualExclusion'
      BY <1>14 DEF ReleaseDepth, TypeOK, MutualExclusion, ControlInv, InsideLabels
    <2>3. ReleasedClean'
      BY <1>14 DEF ReleaseDepth, TypeOK, ReleasedClean, ControlInv, DepthInv, StackInv,
          InsideLabels, UnownedLabels, NoDepthLabels
    <2>4. ASSUME NEW u \in Threads PROVE ControlInv(u)'
      BY <1>14 DEF ReleaseDepth, TypeOK, MutualExclusion, ControlInv, InsideLabels,
          UnownedLabels
    <2>5. ASSUME NEW u \in Threads PROVE DepthInv(u)'
      BY <1>14 DEF ReleaseDepth, TypeOK, MutualExclusion, ControlInv, DepthInv,
          InsideLabels, OuterLabels, NoDepthLabels
    <2>6. ASSUME NEW u \in Threads PROVE StackInv(u)'
      BY <1>14 DEF ReleaseDepth, TypeOK, MutualExclusion, ControlInv, DepthInv, StackInv,
          StackOf, InsideLabels, OuterLabels, NoDepthLabels, EmptyStack, Slots
    <2>7. QED
      BY <2>1, <2>2, <2>3, <2>4, <2>5, <2>6
  <1>15. ASSUME NEW t \in Threads, ReleaseOwner(t) PROVE LockInv'
    <2>1. TypeOK'
      BY <1>15 DEF ReleaseOwner, TypeOK, ControlInv, DepthInv, Labels, Slots, EmptyStack,
          InsideLabels
    <2>2. MutualExclusion'
      BY <1>15 DEF ReleaseOwner, TypeOK, MutualExclusion, ControlInv, InsideLabels
    <2>3. ReleasedClean'
      BY <1>15 DEF ReleaseOwner, TypeOK, ReleasedClean, ControlInv, DepthInv, StackInv,
          InsideLabels, UnownedLabels, NoDepthLabels
    <2>4. ASSUME NEW u \in Threads PROVE ControlInv(u)'
      BY <1>15 DEF ReleaseOwner, TypeOK, MutualExclusion, ControlInv, InsideLabels,
          UnownedLabels
    <2>5. ASSUME NEW u \in Threads PROVE DepthInv(u)'
      BY <1>15 DEF ReleaseOwner, TypeOK, MutualExclusion, ControlInv, DepthInv,
          InsideLabels, OuterLabels, NoDepthLabels
    <2>6. ASSUME NEW u \in Threads PROVE StackInv(u)'
      BY <1>15 DEF ReleaseOwner, TypeOK, MutualExclusion, ControlInv, DepthInv, StackInv,
          StackOf, InsideLabels, OuterLabels, NoDepthLabels, EmptyStack, Slots
    <2>7. QED
      BY <2>1, <2>2, <2>3, <2>4, <2>5, <2>6
  <1>16. ASSUME NEW t \in Threads, ReleaseFlag(t) PROVE LockInv'
    <2>0. \A u \in Threads : nest'[u] = <<>>
      <3>1. nest[t] \in Seq(Ids) /\ nest[t] # <<>> /\ Len(nest[t]) = 1
        BY <1>16 DEF ReleaseFlag, TypeOK, ControlInv, DepthInv, InsideLabels, OuterLabels
      <3>2. SubSeq(nest[t], 1, Len(nest[t]) - 1) = <<>>
        BY <3>1, FrontFacts, Zenon
      <3>3. \A u \in Threads : u # t => nest[u] = <<>>
        BY <3>1 DEF MutualExclusion
      <3>4. QED
        BY <1>16, <3>2, <3>3 DEF ReleaseFlag, TypeOK
    <2>1. TypeOK'
      BY <1>16, FrontFacts, Zenon DEF ReleaseFlag, TypeOK, ControlInv, DepthInv, Labels, Slots,
          EmptyStack, InsideLabels
    <2>2. MutualExclusion'
      BY <2>0 DEF MutualExclusion
    <2>3. ReleasedClean'
      BY <1>16, FrontFacts DEF ReleaseFlag, TypeOK, MutualExclusion, ReleasedClean,
          ControlInv, DepthInv, StackInv, InsideLabels, UnownedLabels, NoDepthLabels
    <2>4. ASSUME NEW u \in Threads PROVE ControlInv(u)'
      BY <1>16, FrontFacts DEF ReleaseFlag, TypeOK, MutualExclusion, ControlInv, DepthInv,
          OuterLabels, InsideLabels, UnownedLabels
    <2>5. ASSUME NEW u \in Threads PROVE DepthInv(u)'
      BY <2>0, SMTT(30) DEF DepthInv
    <2>6. ASSUME NEW u \in Threads PROVE StackInv(u)'
      BY <2>0 DEF StackInv
    <2>7. QED
      BY <2>1, <2>2, <2>3, <2>4, <2>5, <2>6
  <1>17. ASSUME UNCHANGED vars PROVE LockInv'
    BY <1>17 DEF vars, TypeOK, MutualExclusion, ReleasedClean, ControlInv, DepthInv,
        StackInv
  <1>18. QED
    BY <1>1, <1>2, <1>3, <1>4, <1>5, <1>6, <1>7, <1>8, <1>9, <1>10, <1>11, <1>12, <1>13,
        <1>14, <1>15, <1>16, <1>17 DEF Next, Call, Progress

\* The invariant holds in every state of every behaviour.
LEMMA LockInvariant == Spec => []LockInv
  BY InitEstablishesLockInv, NextKeepsLockInv, PTL DEF Spec

-------------------------------------------------------------------------------
(* Theorems *)

\* The fields of the lock keep their types; depth stays within holder_stack
\* because only the holder changes it, after the assert of enter.
THEOREM TypeCorrect == Spec => []TypeOK
  BY LockInvariant, PTL DEF LockInv

\* At most one thread is between the winning compare_exchange of enter and the
\* Release store of leave.
THEOREM MutualExclusionHolds == Spec => []MutualExclusion
  BY LockInvariant, PTL DEF LockInv

\* A released lock holds nothing of its last owner: no stale owner_tid that
\* could let a thread enter without the compare_exchange.
THEOREM ReleasedCleanHolds == Spec => []ReleasedClean
  BY LockInvariant, PTL DEF LockInv

\* Between calls owner_tid, depth and holder_stack describe exactly the enters
\* the thread inside has open, so leave finds its id on top.
THEOREM HolderStackCorrectHolds == Spec => []HolderStackCorrect
  <1>1. LockInv => HolderStackCorrect
    <2> SUFFICES ASSUME LockInv, NEW t \in Threads, pc[t] = "idle", nest[t] # <<>>
                 PROVE  /\ owner_tid = t
                        /\ depth = Len(nest[t])
                        /\ \A i \in Slots :
                               holder_stack[i] = IF i <= depth THEN nest[t][i] ELSE 0
      BY DEF HolderStackCorrect
    <2>1. owner_tid = t
      BY DEF LockInv, ControlInv, UnownedLabels
    <2>2. depth = Len(nest[t])
      BY DEF LockInv, DepthInv, NoDepthLabels
    <2>3. holder_stack = StackOf(nest[t])
      BY DEF LockInv, StackInv
    <2>4. QED
      BY <2>1, <2>2, <2>3 DEF StackOf
  <1>2. QED
    BY <1>1, LockInvariant, PTL

\* The overflow assert of enter fires only with all Cap slots in use.
THEOREM PanicOnlyAtCapHolds == Spec => []PanicOnlyAtCap
  <1>1. LockInv => PanicOnlyAtCap
    BY DEF LockInv, PanicOnlyAtCap, ControlInv, DepthInv, InsideLabels, NoDepthLabels
  <1>2. QED
    BY <1>1, LockInvariant, PTL

\* No thread writes owner_tid, depth or holder_stack while another is inside.
THEOREM WritesByHolderOnlyHolds == Spec => WritesByHolderOnly
  <1> DEFINE fields == <<owner_tid, depth, holder_stack>>
  <1>1. ASSUME LockInv, [Next]_vars, NEW t \in Threads, nest[t] # <<>>, fields' # fields
        PROVE  pc'[t] # pc[t]
    <2>1. ASSUME NEW u \in Threads, Call(u) \/ Leave(u) PROVE fields' = fields
      BY <2>1 DEF Call, Enter, Leave, lock
    <2>2. ASSUME NEW u \in Threads, Progress(u), fields' # fields
          PROVE  pc[u] \in InsideLabels /\ pc'[u] # pc[u]
      <3>1. pc \in [Threads -> Labels]
        BY <1>1, Zenon DEF LockInv, TypeOK
      <3>2. ASSUME NEW from \in InsideLabels, NEW to, from # to, Step(u, from, to)
            PROVE  pc[u] \in InsideLabels /\ pc'[u] # pc[u]
        BY <3>1, <3>2, Zenon DEF Step
      <3>3. ~ReenterLoad(u) /\ ~AcquireCas(u) /\ ~TryFail(u) /\ ~ReleaseFlag(u)
        BY <2>2, Zenon DEF ReenterLoad, AcquireCas, TryFail, ReleaseFlag, lock
      <3>4. CASE ReenterPush(u) \/ ReenterIncr(u)
        BY <3>2, <3>4, Zenon DEF ReenterPush, ReenterIncr, InsideLabels
      <3>5. CASE AcquireStack(u) \/ AcquireDepth(u) \/ AcquireOwner(u)
        BY <3>2, <3>5, Zenon DEF AcquireStack, AcquireDepth, AcquireOwner, InsideLabels
      <3>6. CASE LeavePop(u) \/ LeaveDecr(u)
        BY <3>2, <3>6, Zenon DEF LeavePop, LeaveDecr, InsideLabels
      <3>7. CASE ReleaseStack(u) \/ ReleaseDepth(u) \/ ReleaseOwner(u)
        BY <3>2, <3>7, Zenon DEF ReleaseStack, ReleaseDepth, ReleaseOwner, InsideLabels
      <3> QED BY <2>2, <3>3, <3>4, <3>5, <3>6, <3>7, Zenon DEF Progress
    <2>3. ASSUME NEW u \in Threads, pc[u] \in InsideLabels PROVE u = t
      BY <1>1, <2>3 DEF LockInv, ControlInv, MutualExclusion
    <2>4. UNCHANGED vars => fields' = fields
      BY DEF vars, lock
    <2>5. QED
      BY <1>1, <2>1, <2>2, <2>3, <2>4 DEF Next
  <1>2. LockInv /\ [Next]_vars =>
          [\A t \in Threads : nest[t] # <<>> /\ fields' # fields => pc'[t] # pc[t]]_vars
    BY <1>1
  <1>3. QED
    BY <1>2, LockInvariant, PTL DEF Spec, WritesByHolderOnly

\* The stores and loads of enter, try_enter and leave implement the abstract
\* re-entrant lock: it acquires at the winning compare_exchange, nests and
\* unnests at the stores of depth, and releases at the store of flag.
THEOREM LockImplementsReentrantLock == Spec => ImplementsReentrantLock
  <1>1. Init => Abstract!Init
    BY DEF Init, Abstract!Init
  <1>2. ASSUME LockInv, [Next]_vars PROVE [Abstract!Next]_nest
    <2>1. ASSUME NEW t \in Threads, AcquireCas(t) PROVE Abstract!Next
      <3>1. \A u \in Threads : nest[u] = <<>>
        BY <1>2, <2>1 DEF AcquireCas, Step, FlagFree, LockInv, ControlInv
      <3>2. arg[t] \in Ids
        BY <1>2, <2>1 DEF AcquireCas, Step, FlagFree, LockInv, ControlInv
      <3>3. Abstract!Acquire(t, arg[t])
        BY <2>1, <3>1 DEF AcquireCas, Abstract!Acquire
      <3>4. QED
        BY <3>2, <3>3 DEF Abstract!Next
    <2>2. ASSUME NEW t \in Threads, ReenterIncr(t) PROVE Abstract!Next
      <3>1. arg[t] \in Ids /\ nest[t] # <<>>
        BY <1>2, <2>2 DEF ReenterIncr, Step, LockInv, ControlInv, InsideLabels
      <3>2. QED
        BY <2>2, <3>1, Zenon DEF ReenterIncr, Abstract!Reenter, Abstract!Next
    <2>3. ASSUME NEW t \in Threads, LeaveDecr(t) \/ ReleaseFlag(t) PROVE Abstract!Next
      <3>1. nest[t] # <<>>
        BY <1>2, <2>3 DEF LeaveDecr, ReleaseFlag, Step, LockInv, ControlInv, InsideLabels
      <3>2. QED
        BY <2>3, <3>1 DEF LeaveDecr, ReleaseFlag, Abstract!Leave, Abstract!Next
    <2>4. ASSUME NEW t \in Threads, Call(t) \/ Leave(t) PROVE nest' = nest
      BY <2>4, SMTT(30) DEF Call, Enter, Leave
    <2>5. ASSUME NEW t \in Threads, Progress(t) PROVE [Abstract!Next]_nest
      BY <2>1, <2>2, <2>3, <2>5
         DEF Progress, ReenterLoad, ReenterPush, TryFail, AcquireStack, AcquireDepth,
             AcquireOwner, LeavePop, ReleaseStack, ReleaseDepth, ReleaseOwner
    <2>6. UNCHANGED vars => nest' = nest
      BY DEF vars
    <2>7. QED
      BY <1>2, <2>4, <2>5, <2>6 DEF Next
  <1>3. QED
    BY <1>1, <1>2, LockInvariant, PTL DEF Spec, ImplementsReentrantLock, Abstract!Spec
===============================================================================
