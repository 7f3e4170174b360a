----------------------------- MODULE PthreadsProofs -----------------------------
(***************************************************************************)
(* For any consumers and producers: the mutex of litc.c excludes, no       *)
(* sleeper at it is forgotten, not even one that a broadcast moved there,  *)
(* and nobody leaves the barrier before everybody has come to it.  For any *)
(* threads, addresses and counts: no sleeper of the kernel's futex loses   *)
(* its entry, and those at one address are woken in the order they came.   *)
(***************************************************************************)
EXTENDS Pthreads, Futex, FiniteSetTheorems, TLAPS

\* x is in queue q, and nobody is in q twice.
In(q, x) == \E i \in 1..Len(q) : q[i] = x
NoDup(q) == \A i, j \in 1..Len(q) : q[i] = q[j] => i = j

LockLabels == {"lock", "upgrade", "sleep", "asleep"}
UnlockLabels == {"unlock", "wake"}
BarrierLabels == {"spin", "open", "reset"}
Labels == LockLabels \cup UnlockLabels \cup BarrierLabels \cup Holding
            \cup {"arrive", "condsleep", "condasleep", "next", "done"}

\* lock returns to a label of a holder, unlock to one of a thread without it.
LockReturns == {"check", "make", "relocked"}
UnlockReturns == {"arrive", "condsleep", "next"}

ControlTypes ==
    /\ pc \in [Threads -> Labels]
    /\ ret \in [Threads -> LockReturns \cup UnlockReturns \cup {"none"}]
    /\ \A t \in Threads : pc[t] \in LockLabels => ret[t] \in LockReturns
    /\ \A t \in Threads : pc[t] \in UnlockLabels => ret[t] \in UnlockReturns

DataTypes ==
    /\ locks \in {0, 1, 2}
    /\ bcast \in BOOLEAN
    /\ mq \in Seq(Threads) /\ cq \in Seq(Threads)
    /\ moveq \subseteq Threads

\* The futex queues hold exactly the threads asleep, each once; one that sleeps
\* in pthread_cond_wait is at the mutex only after a broadcast.
QueuesInv ==
    /\ NoDup(mq) /\ NoDup(cq)
    /\ \A t \in Threads : In(cq, t) => pc[t] = "condasleep" /\ ~In(mq, t)
    /\ \A t \in Threads : In(mq, t) => pc[t] = "asleep" \/ (pc[t] = "condasleep" /\ bcast)
    /\ \A t \in Threads : pc[t] = "asleep" => In(mq, t)
    /\ \A t \in Threads : pc[t] = "condasleep" => In(mq, t) \/ In(cq, t)

\* A consumer that was told to move the others is on its way to do so.
MoveInv ==
    \A t \in moveq : pc[t] = "relocked" \/ (pc[t] \in LockLabels /\ ret[t] = "relocked")

\* The threads at some of the labels of the barrier.
At(S) == {t \in Threads : pc[t] \in S}

\* A thread in the barrier has come once more than it has left.
CountInv ==
    /\ arrived \in [Threads -> Nat] /\ passed \in [Threads -> Nat]
    /\ \A t \in Threads :
          arrived[t] = IF pc[t] \in BarrierLabels THEN passed[t] + 1 ELSE passed[t]

\* Threads come: current counts them, all have left equally often, and the one
\* that opens is there only when everybody is.
Gathering ==
    /\ current = Cardinality(At({"spin", "open"}))
    /\ At({"reset"}) = {}
    /\ \A t, u \in Threads : passed[t] = passed[u]
    /\ \A t \in Threads : pc[t] = "open" => At({"spin", "open"}) = Threads
    /\ \A t, u \in At({"open"}) : t = u

\* Threads leave: current counts those still in and the top bit, all have come
\* equally often, and the one that starts over is the last.
Draining ==
    /\ current = m + Cardinality(At({"spin"}))
    /\ At({"open"}) = {}
    /\ \A t, u \in Threads : arrived[t] = arrived[u]
    /\ \A t, u \in At({"reset"}) : t = u
    /\ At({"spin"}) = {} <=> At({"reset"}) # {}

BarrierInv == CountInv /\ (Gathering \/ Draining)

\* The inductive invariant.
PthreadsInv ==
    /\ ControlTypes /\ DataTypes
    /\ QueuesInv
    /\ MutexExclusion
    /\ MoveInv
    /\ SleeperRemembered
    /\ BarrierInv

--------------------------------------------------------------------------------
(* Facts about queues. *)

LEMMA AppendIn ==
    ASSUME NEW S, NEW q \in Seq(S), NEW e \in S
    PROVE  /\ Append(q, e) \in Seq(S)
           /\ \A x : In(Append(q, e), x) <=> In(q, x) \/ x = e
           /\ NoDup(q) /\ ~In(q, e) => NoDup(Append(q, e))
  <1>1. /\ Append(q, e) \in Seq(S)
        /\ Len(Append(q, e)) = Len(q) + 1
        /\ \A i \in 1..Len(q) : Append(q, e)[i] = q[i]
        /\ Append(q, e)[Len(q) + 1] = e
        /\ Len(q) \in Nat
    OBVIOUS
  <1>2. \A i \in 1..(Len(q) + 1) : i \in 1..Len(q) \/ i = Len(q) + 1
    BY <1>1
  <1>3. ASSUME NEW x PROVE In(Append(q, e), x) <=> In(q, x) \/ x = e
    BY <1>1, <1>2 DEF In
  <1>4. NoDup(q) /\ ~In(q, e) => NoDup(Append(q, e))
    BY <1>1, <1>2 DEF In, NoDup
  <1> QED BY <1>1, <1>3, <1>4

LEMMA TailIn ==
    ASSUME NEW S, NEW q \in Seq(S), q # <<>>
    PROVE  /\ Head(q) \in S /\ In(q, Head(q))
           /\ Tail(q) \in Seq(S)
           /\ \A x : In(Tail(q), x) => In(q, x)
           /\ \A x : In(q, x) => x = Head(q) \/ In(Tail(q), x)
           /\ NoDup(q) => NoDup(Tail(q)) /\ ~In(Tail(q), Head(q))
  <1>1. /\ Head(q) \in S
        /\ Tail(q) \in Seq(S)
        /\ Len(Tail(q)) = Len(q) - 1
        /\ \A i \in 1..(Len(q) - 1) : Tail(q)[i] = q[i + 1]
    OBVIOUS
  <1>2. Len(q) \in Nat /\ Len(q) >= 1 /\ Head(q) = q[1]
    OBVIOUS
  <1>3. In(q, Head(q))
    BY <1>2 DEF In
  <1>4. ASSUME NEW x, In(Tail(q), x) PROVE In(q, x)
    <2>1. PICK i \in 1..(Len(q) - 1) : Tail(q)[i] = x
      BY <1>1, <1>4 DEF In
    <2>2. i + 1 \in 1..Len(q) /\ q[i + 1] = x
      BY <1>1, <1>2, <2>1
    <2> QED BY <2>2 DEF In
  <1>5. ASSUME NEW x, In(q, x), x # Head(q) PROVE In(Tail(q), x)
    <2>1. PICK i \in 1..Len(q) : q[i] = x
      BY <1>5 DEF In
    <2>2. i - 1 \in 1..(Len(q) - 1) /\ (i - 1) + 1 = i
      BY <1>2, <1>5, <2>1
    <2>3. Tail(q)[i - 1] = x
      BY <1>1, <2>1, <2>2
    <2> QED BY <1>1, <2>2, <2>3 DEF In
  <1>6. ASSUME NoDup(q) PROVE NoDup(Tail(q))
    <2> SUFFICES ASSUME NEW i \in 1..(Len(q) - 1), NEW j \in 1..(Len(q) - 1),
                        Tail(q)[i] = Tail(q)[j]
                 PROVE  i = j
      BY <1>1 DEF NoDup
    <2>1. i + 1 \in 1..Len(q) /\ j + 1 \in 1..Len(q) /\ q[i + 1] = q[j + 1]
      BY <1>1, <1>2
    <2>2. i + 1 = j + 1
      BY <1>6, <2>1 DEF NoDup
    <2> QED BY <1>2, <2>2
  <1>7. ASSUME NoDup(q), In(Tail(q), Head(q)) PROVE FALSE
    <2>1. PICK i \in 1..(Len(q) - 1) : Tail(q)[i] = Head(q)
      BY <1>1, <1>7 DEF In
    <2>2. i + 1 \in 1..Len(q) /\ 1 \in 1..Len(q) /\ q[i + 1] = q[1]
      BY <1>1, <1>2, <2>1
    <2>3. i + 1 = 1
      BY <1>7, <2>2 DEF NoDup
    <2> QED BY <2>3
  <1> QED BY <1>1, <1>3, <1>4, <1>5, <1>6, <1>7

LEMMA ConcatIn ==
    ASSUME NEW S, NEW p \in Seq(S), NEW q \in Seq(S)
    PROVE  /\ p \o q \in Seq(S)
           /\ \A x : In(p \o q, x) <=> In(p, x) \/ In(q, x)
           /\ NoDup(p) /\ NoDup(q) /\ (\A x : ~(In(p, x) /\ In(q, x))) => NoDup(p \o q)
  <1> DEFINE c == p \o q
  <1>1. /\ c \in Seq(S)
        /\ Len(c) = Len(p) + Len(q)
        /\ \A i \in 1..(Len(p) + Len(q)) : c[i] = IF i <= Len(p) THEN p[i] ELSE q[i - Len(p)]
    OBVIOUS
  <1>2. Len(p) \in Nat /\ Len(q) \in Nat
    OBVIOUS
  <1> HIDE DEF c
  <1>3. \A i \in 1..Len(p) : i \in 1..Len(c) /\ c[i] = p[i]
    BY <1>1, <1>2
  <1>4. ASSUME NEW i \in 1..Len(q)
        PROVE  i + Len(p) \in 1..Len(c) /\ c[i + Len(p)] = q[i]
    <2>1. /\ i + Len(p) \in 1..(Len(p) + Len(q))
          /\ ~(i + Len(p) <= Len(p))
          /\ (i + Len(p)) - Len(p) = i
      BY <1>2
    <2> QED BY <1>1, <2>1
  <1>5. \A i \in 1..Len(c) : \/ i \in 1..Len(p) /\ c[i] = p[i]
                             \/ i - Len(p) \in 1..Len(q) /\ c[i] = q[i - Len(p)]
    BY <1>1, <1>2
  <1>6. ASSUME NEW x PROVE In(c, x) <=> In(p, x) \/ In(q, x)
    BY <1>3, <1>4, <1>5, Zenon DEF In
  <1>7. ASSUME NoDup(p), NoDup(q), \A x : ~(In(p, x) /\ In(q, x)) PROVE NoDup(c)
    <2> SUFFICES ASSUME NEW i \in 1..Len(c), NEW j \in 1..Len(c), c[i] = c[j]
                 PROVE  i = j
      BY DEF NoDup
    <2>1. CASE i \in 1..Len(p) /\ c[i] = p[i] /\ j \in 1..Len(p) /\ c[j] = p[j]
      BY <1>7, <2>1, Zenon DEF NoDup
    <2>2. CASE /\ i - Len(p) \in 1..Len(q) /\ c[i] = q[i - Len(p)]
               /\ j - Len(p) \in 1..Len(q) /\ c[j] = q[j - Len(p)]
      <3>1. i - Len(p) = j - Len(p)
        BY <1>7, <2>2, Zenon DEF NoDup
      <3> QED BY <1>1, <1>2, <3>1
    <2>3. ASSUME NEW k \in 1..Len(p), NEW l \in 1..Len(q), p[k] = q[l] PROVE FALSE
      BY <1>7, <2>3 DEF In
    <2> QED BY <1>5, <2>1, <2>2, <2>3
  <1> QED BY <1>1, <1>6, <1>7 DEF c

LEMMA EmptyIn == NoDup(<<>>) /\ \A x : ~In(<<>>, x)
  BY DEF In, NoDup

--------------------------------------------------------------------------------
(* PthreadsInv is inductive. *)

\* The thread that a wake-up takes off the mutex or the condition variable.
LEMMA HeadAsleep ==
    ASSUME DataTypes, QueuesInv
    PROVE  /\ mq # <<>> => /\ Head(mq) \in Threads
                           /\ \/ pc[Head(mq)] = "asleep"
                              \/ pc[Head(mq)] = "condasleep" /\ bcast
           /\ cq # <<>> => Head(cq) \in Threads /\ pc[Head(cq)] = "condasleep"
  BY TailIn DEF DataTypes, QueuesInv

LEMMA ControlStep == PthreadsInv /\ [Next]_vars => ControlTypes'
  <1> SUFFICES ASSUME ControlTypes, DataTypes, QueuesInv, [Next]_vars PROVE ControlTypes'
    BY DEF PthreadsInv
  <1> USE DEF ControlTypes, Labels, LockLabels, UnlockLabels, BarrierLabels, Holding,
              LockReturns, UnlockReturns, Step, Goto, Call, Return
  <1>1. ASSUME NEW t \in Threads, LockFast(t) PROVE ControlTypes'
    BY <1>1 DEF LockFast
  <1>2. ASSUME NEW t \in Threads, LockUpgrade(t) PROVE ControlTypes'
    BY <1>2 DEF LockUpgrade
  <1>3. ASSUME NEW t \in Threads, LockSleep(t) PROVE ControlTypes'
    BY <1>3 DEF LockSleep
  <1>4. ASSUME NEW t \in Threads, UnlockSwap(t) PROVE ControlTypes'
    BY <1>4 DEF UnlockSwap
  <1>5. ASSUME NEW t \in Threads, UnlockWake(t) PROVE ControlTypes'
    <2>1. CASE mq = <<>>
      BY <1>5, <2>1 DEF UnlockWake
    <2>2. CASE mq # <<>>
      <3> DEFINE u == Head(mq)
      <3>1. u \in Threads /\ pc[u] \in {"asleep", "condasleep"}
        BY <2>2, HeadAsleep
      <3>2. /\ pc[t] = "wake"
            /\ pc' = [pc EXCEPT ![t] = ret[t], ![u] = Woken(u)]
            /\ ret' = [ret EXCEPT ![t] = "none",
                                  ![u] = IF pc[u] = "asleep" THEN @ ELSE "relocked"]
        BY <1>5, <2>2 DEF UnlockWake
      <3> HIDE DEF u
      <3> QED BY <3>1, <3>2 DEF Woken
    <2> QED BY <2>1, <2>2
  <1>6. ASSUME NEW t \in Threads, Check(t) PROVE ControlTypes'
    BY <1>6 DEF Check
  <1>7. ASSUME NEW t \in Threads, CondSleep(t) PROVE ControlTypes'
    BY <1>7 DEF CondSleep
  <1>8. ASSUME NEW t \in Threads, CondGive(t) \/ CondMark(t) PROVE ControlTypes'
    BY <1>8 DEF CondGive, CondMark, mutexVars
  <1>9. ASSUME NEW t \in Threads, Make(t) PROVE ControlTypes'
    BY <1>9 DEF Make
  <1>10. ASSUME NEW t \in Threads, CondBump(t) PROVE ControlTypes'
    BY <1>10 DEF CondBump, mutexVars
  <1>11. ASSUME NEW t \in Threads, CondWake(t) PROVE ControlTypes'
    <2>1. CASE cq = <<>>
      BY <1>11, <2>1 DEF CondWake
    <2>2. CASE cq # <<>>
      <3> DEFINE u == Head(cq)
      <3>1. u \in Threads /\ pc[u] = "condasleep"
        BY <2>2, HeadAsleep
      <3>2. /\ pc[t] \in {"wakeone", "wakeall"}
            /\ pc' = [pc EXCEPT ![t] = "unlock", ![u] = "lock"]
            /\ ret' = [ret EXCEPT ![t] = "next", ![u] = "relocked"]
        BY <1>11, <2>2 DEF CondWake
      <3> HIDE DEF u
      <3> QED BY <3>1, <3>2
    <2> QED BY <2>1, <2>2
  <1>12. ASSUME NEW t \in Threads, Again(t) \/ Arrive(t) PROVE ControlTypes'
    BY <1>12 DEF Again, Arrive, mutexVars
  <1>13. ASSUME NEW t \in Threads, Open(t) \/ Spin(t) \/ Reset(t) PROVE ControlTypes'
    BY <1>13 DEF Open, Spin, Reset, Leave, mutexVars
  <1>14. CASE UNCHANGED vars
    BY <1>14 DEF vars, mutexVars
  <1> QED BY <1>1, <1>2, <1>3, <1>4, <1>5, <1>6, <1>7, <1>8, <1>9, <1>10, <1>11, <1>12,
             <1>13, <1>14, Zenon DEF Next, ThreadStep, Finished

LEMMA DataStep == PthreadsInv /\ [Next]_vars => DataTypes'
  <1> SUFFICES ASSUME DataTypes, QueuesInv, [Next]_vars PROVE DataTypes'
    BY DEF PthreadsInv
  <1> DEFINE Locks == locks' \in {0, 1, 2}
             Shape == /\ bcast' = bcast \/ bcast' = TRUE
                      /\ \/ mq' = mq
                         \/ \E t \in Threads : mq' = Append(mq, t)
                         \/ mq # <<>> /\ mq' = Tail(mq)
                         \/ mq' = mq \o cq
                      /\ \/ cq' = cq
                         \/ \E t \in Threads : cq' = Append(cq, t)
                         \/ cq # <<>> /\ cq' = Tail(cq)
                         \/ cq' = <<>>
                      /\ \/ moveq' \subseteq moveq
                         \/ cq # <<>> /\ moveq' = moveq \cup {Head(cq)}
  <1>0. locks \in {0, 1, 2}
    BY DEF DataTypes
  <1>1. Locks /\ Shape
    <2>1. ASSUME NEW t \in Threads, LockFast(t) \/ LockUpgrade(t) \/ LockSleep(t)
          PROVE  Locks /\ Shape
      BY <1>0, <2>1 DEF LockFast, LockUpgrade, LockSleep, condVars
    <2>2. ASSUME NEW t \in Threads, UnlockSwap(t) \/ UnlockWake(t) \/ Check(t)
          PROVE  Locks /\ Shape
      BY <1>0, <2>2 DEF UnlockSwap, UnlockWake, Check, condVars, mutexVars
    <2>3. ASSUME NEW t \in Threads, CondSleep(t) \/ CondGive(t) \/ CondMark(t)
          PROVE  Locks /\ Shape
      BY <1>0, <2>3 DEF CondSleep, CondGive, CondMark, condVars, mutexVars
    <2>4. ASSUME NEW t \in Threads, Make(t) \/ CondBump(t) \/ CondWake(t) \/ Again(t)
          PROVE  Locks /\ Shape
      BY <1>0, <2>4 DEF Make, CondBump, CondWake, Again, condVars, mutexVars
    <2>5. ASSUME NEW t \in Threads, Arrive(t) \/ Open(t) \/ Spin(t) \/ Reset(t)
          PROVE  Locks /\ Shape
      BY <1>0, <2>5 DEF Arrive, Open, Spin, Reset, condVars, mutexVars
    <2>6. ASSUME UNCHANGED vars PROVE Locks /\ Shape
      BY <1>0, <2>6 DEF vars, condVars, mutexVars
    <2> HIDE DEF Locks, Shape
    <2> QED BY <2>1, <2>2, <2>3, <2>4, <2>5, <2>6, Zenon DEF Next, ThreadStep, Finished
  <1>2. Shape
    BY <1>1
  <1>3. mq \in Seq(Threads) /\ cq \in Seq(Threads) /\ moveq \subseteq Threads /\ bcast \in BOOLEAN
    BY DEF DataTypes
  <1>4. mq' \in Seq(Threads)
    <2>1. \A t \in Threads : Append(mq, t) \in Seq(Threads)
      BY <1>3, AppendIn
    <2>2. mq # <<>> => Tail(mq) \in Seq(Threads)
      BY <1>3, TailIn
    <2>3. mq \o cq \in Seq(Threads)
      BY <1>3, ConcatIn
    <2> QED BY <1>2, <1>3, <2>1, <2>2, <2>3, Zenon
  <1>5. cq' \in Seq(Threads)
    <2>1. \A t \in Threads : Append(cq, t) \in Seq(Threads)
      BY <1>3, AppendIn
    <2>2. cq # <<>> => Tail(cq) \in Seq(Threads)
      BY <1>3, TailIn
    <2>3. <<>> \in Seq(Threads)
      OBVIOUS
    <2> QED BY <1>2, <1>3, <2>1, <2>2, <2>3, Zenon
  <1>6. moveq' \subseteq Threads
    BY <1>2, <1>3, HeadAsleep
  <1>7. bcast' \in BOOLEAN
    BY <1>2, <1>3, Zenon
  <1> QED BY <1>1, <1>4, <1>5, <1>6, <1>7 DEF DataTypes

\* FUTEX_SLEEP puts the caller at the end of a queue, FUTEX_WAKE takes the first
\* one off, FUTEX_CNDGIVE moves everybody; nothing else puts a thread to sleep.
LEMMA QueuesStep == PthreadsInv /\ [Next]_vars => QueuesInv'
  <1> SUFFICES ASSUME ControlTypes, DataTypes, QueuesInv, [Next]_vars PROVE QueuesInv'
    BY DEF PthreadsInv
  <1>0. /\ pc \in [Threads -> Labels]
        /\ \A t \in Threads : pc[t] \in LockLabels => ret[t] \in LockReturns
        /\ \A t \in Threads : pc[t] \in UnlockLabels => ret[t] \in UnlockReturns
        /\ mq \in Seq(Threads) /\ cq \in Seq(Threads)
    BY DEF ControlTypes, DataTypes
  <1> USE <1>0 DEF LockLabels, UnlockLabels, LockReturns, UnlockReturns, Step, Goto, Call, Return
  <1> DEFINE Quiet == /\ UNCHANGED <<mq, cq, bcast>>
                      /\ \A x \in Threads : pc'[x] = "asleep" <=> pc[x] = "asleep"
                      /\ \A x \in Threads : pc'[x] = "condasleep" <=> pc[x] = "condasleep"
  <1>1. Quiet => QueuesInv'
    BY DEF QueuesInv
  <1>2. ASSUME NEW t \in Threads, LockFast(t) \/ LockUpgrade(t) \/ UnlockSwap(t) PROVE Quiet
    BY <1>2 DEF LockFast, LockUpgrade, UnlockSwap, condVars
  <1>3. ASSUME NEW t \in Threads,
               Check(t) \/ CondMark(t) \/ Make(t) \/ CondBump(t) \/ Again(t)
        PROVE  Quiet
    BY <1>3 DEF Check, CondMark, Make, CondBump, Again, mutexVars, condVars
  <1>4. ASSUME NEW t \in Threads, Arrive(t) \/ Open(t) \/ Spin(t) \/ Reset(t) PROVE Quiet
    BY <1>4 DEF Arrive, Open, Spin, Reset, Leave, mutexVars, condVars
  <1>5. ASSUME UNCHANGED vars PROVE Quiet
    BY <1>5 DEF vars, mutexVars, condVars
  <1> HIDE DEF Quiet
  <1>6. ASSUME NEW t \in Threads, LockSleep(t) PROVE QueuesInv'
    <2>1. CASE locks = 2
      <3>1. pc[t] = "sleep" /\ pc' = [pc EXCEPT ![t] = "asleep"] /\ mq' = Append(mq, t)
            /\ cq' = cq /\ bcast' = bcast
        BY <1>6, <2>1 DEF LockSleep, condVars
      <3>2. ~In(mq, t) /\ ~In(cq, t)
        BY <3>1 DEF QueuesInv
      <3>3. NoDup(mq') /\ \A x : In(mq', x) <=> In(mq, x) \/ x = t
        BY <3>1, <3>2, AppendIn DEF QueuesInv
      <3> QED BY <3>1, <3>2, <3>3 DEF QueuesInv
    <2>2. CASE locks # 2
      <3>1. Quiet
        BY <1>6, <2>2 DEF LockSleep, condVars, Quiet
      <3> QED BY <3>1, <1>1
    <2> QED BY <2>1, <2>2
  <1>7. ASSUME NEW t \in Threads, CondSleep(t) PROVE QueuesInv'
    <2>1. CASE gen = last[t]
      <3>1. pc[t] = "condsleep" /\ pc' = [pc EXCEPT ![t] = "condasleep"] /\ cq' = Append(cq, t)
            /\ mq' = mq /\ bcast' = bcast
        BY <1>7, <2>1 DEF CondSleep
      <3>2. ~In(mq, t) /\ ~In(cq, t)
        BY <3>1 DEF QueuesInv
      <3>3. NoDup(cq') /\ \A x : In(cq', x) <=> In(cq, x) \/ x = t
        BY <3>1, <3>2, AppendIn DEF QueuesInv
      <3> QED BY <3>1, <3>2, <3>3 DEF QueuesInv
    <2>2. CASE gen # last[t]
      <3>1. Quiet
        BY <1>7, <2>2 DEF CondSleep, Quiet
      <3> QED BY <3>1, <1>1
    <2> QED BY <2>1, <2>2
  <1>8. ASSUME NEW t \in Threads, UnlockWake(t) PROVE QueuesInv'
    <2>1. CASE mq = <<>>
      <3>1. Quiet
        BY <1>8, <2>1 DEF UnlockWake, condVars, Quiet
      <3> QED BY <3>1, <1>1
    <2>2. CASE mq # <<>>
      <3> DEFINE u == Head(mq)
      <3>1. u \in Threads /\ pc[u] \in {"asleep", "condasleep"} /\ ~In(cq, u)
        BY <2>2, HeadAsleep, TailIn DEF QueuesInv
      <3>2. /\ pc[t] = "wake"
            /\ pc' = [pc EXCEPT ![t] = ret[t], ![u] = Woken(u)]
            /\ mq' = Tail(mq) /\ cq' = cq /\ bcast' = bcast
        BY <1>8, <2>2 DEF UnlockWake, condVars
      <3>3. /\ NoDup(mq') /\ ~In(mq', u)
            /\ \A x : In(mq', x) => In(mq, x)
            /\ \A x : In(mq, x) => x = u \/ In(mq', x)
        BY <2>2, <3>2, TailIn DEF QueuesInv
      <3> HIDE DEF u
      <3>4. /\ \A x \in Threads \ {t, u} : pc'[x] = pc[x]
            /\ pc'[t] \in UnlockReturns /\ pc'[u] \in {"upgrade", "lock"}
        BY <3>1, <3>2 DEF Woken
      <3> QED BY <3>1, <3>2, <3>3, <3>4 DEF QueuesInv
    <2> QED BY <2>1, <2>2
  <1>9. ASSUME NEW t \in Threads, CondWake(t) PROVE QueuesInv'
    <2>1. CASE cq = <<>>
      <3>1. Quiet
        BY <1>9, <2>1 DEF CondWake, Quiet
      <3> QED BY <3>1, <1>1
    <2>2. CASE cq # <<>>
      <3> DEFINE u == Head(cq)
      <3>1. u \in Threads /\ pc[u] = "condasleep" /\ ~In(mq, u)
        BY <2>2, HeadAsleep, TailIn DEF QueuesInv
      <3>2. /\ pc[t] \in {"wakeone", "wakeall"}
            /\ pc' = [pc EXCEPT ![t] = "unlock", ![u] = "lock"]
            /\ cq' = Tail(cq) /\ mq' = mq /\ bcast' = bcast
        BY <1>9, <2>2 DEF CondWake
      <3>3. /\ NoDup(cq') /\ ~In(cq', u)
            /\ \A x : In(cq', x) => In(cq, x)
            /\ \A x : In(cq, x) => x = u \/ In(cq', x)
        BY <2>2, <3>2, TailIn DEF QueuesInv
      <3> HIDE DEF u
      <3> QED BY <3>1, <3>2, <3>3 DEF QueuesInv
    <2> QED BY <2>1, <2>2
  <1>10. ASSUME NEW t \in Threads, CondGive(t) PROVE QueuesInv'
    <2>1. CASE t \in moveq
      <3>1. /\ pc[t] = "relocked" /\ pc' = [pc EXCEPT ![t] = "mark"]
            /\ bcast' /\ mq' = mq \o cq /\ cq' = <<>>
        BY <1>10, <2>1 DEF CondGive
      <3>2. \A x : ~(In(mq, x) /\ In(cq, x))
        <4>1. \A x : In(mq, x) => x \in Threads
          BY DEF In
        <4> QED BY <4>1 DEF QueuesInv
      <3>3. NoDup(mq') /\ \A x : In(mq', x) <=> In(mq, x) \/ In(cq, x)
        BY <3>1, <3>2, ConcatIn DEF QueuesInv
      <3>4. NoDup(cq') /\ \A x : ~In(cq', x)
        BY <3>1, EmptyIn
      <3>5. \A x \in Threads : pc'[x] \in {"asleep", "condasleep"} <=> pc[x] \in {"asleep", "condasleep"}
        BY <3>1
      <3>6. \A x \in Threads : pc[x] \in {"asleep", "condasleep"} => pc'[x] = pc[x]
        BY <3>1
      <3> QED BY <3>1, <3>3, <3>4, <3>5, <3>6 DEF QueuesInv
    <2>2. CASE t \notin moveq
      <3>1. Quiet
        BY <1>10, <2>2 DEF CondGive, Quiet
      <3> QED BY <3>1, <1>1
    <2> QED BY <2>1, <2>2
  <1> QED BY <1>1, <1>2, <1>3, <1>4, <1>5, <1>6, <1>7, <1>8, <1>9, <1>10
          DEF Next, ThreadStep, Finished

\* Only lock makes a holder, where it finds the mutex free; only the holder frees it.
LEMMA MutexStep == PthreadsInv /\ [Next]_vars => MutexExclusion'
  <1> SUFFICES ASSUME ControlTypes, DataTypes, QueuesInv, MutexExclusion, [Next]_vars
               PROVE  MutexExclusion'
    BY DEF PthreadsInv
  <1>0. /\ pc \in [Threads -> Labels]
        /\ \A t \in Threads : pc[t] \in LockLabels => ret[t] \in LockReturns
        /\ \A t \in Threads : pc[t] \in UnlockLabels => ret[t] \in UnlockReturns
    BY DEF ControlTypes
  <1> USE <1>0 DEF LockLabels, UnlockLabels, LockReturns, UnlockReturns, Holding,
                   Step, Goto, Call, Return
  <1> DEFINE Quiet == /\ locks' = locks
                      /\ \A x \in Threads : pc'[x] \in Holding => pc[x] \in Holding
  <1>1. Quiet => MutexExclusion'
    BY DEF MutexExclusion
  <1>2. ASSUME NEW t \in Threads, LockFast(t) PROVE MutexExclusion'
    BY <1>2 DEF LockFast, MutexExclusion
  <1>3. ASSUME NEW t \in Threads, LockUpgrade(t) PROVE MutexExclusion'
    BY <1>3 DEF LockUpgrade, Lucky, MutexExclusion
  <1>4. ASSUME NEW t \in Threads, UnlockSwap(t) PROVE MutexExclusion'
    BY <1>4 DEF UnlockSwap, MutexExclusion
  <1>5. ASSUME NEW t \in Threads, CondMark(t) PROVE MutexExclusion'
    BY <1>5 DEF CondMark, MutexExclusion
  <1>6. ASSUME NEW t \in Threads, LockSleep(t) \/ CondSleep(t) \/ CondGive(t) PROVE Quiet
    BY <1>6 DEF LockSleep, CondSleep, CondGive
  <1>7. ASSUME NEW t \in Threads, Check(t) \/ Make(t) \/ CondBump(t) \/ Again(t) PROVE Quiet
    BY <1>7 DEF Check, Make, CondBump, Again, mutexVars
  <1>8. ASSUME NEW t \in Threads, Arrive(t) \/ Open(t) \/ Spin(t) \/ Reset(t) PROVE Quiet
    BY <1>8 DEF Arrive, Open, Spin, Reset, Leave, mutexVars
  <1>9. ASSUME NEW t \in Threads, UnlockWake(t) PROVE Quiet
    BY <1>9, HeadAsleep DEF UnlockWake, Woken
  <1>10. ASSUME NEW t \in Threads, CondWake(t) PROVE Quiet
    BY <1>10, HeadAsleep DEF CondWake
  <1>11. ASSUME UNCHANGED vars PROVE Quiet
    BY <1>11 DEF vars, mutexVars
  <1> HIDE DEF Quiet
  <1> QED BY <1>1, <1>2, <1>3, <1>4, <1>5, <1>6, <1>7, <1>8, <1>9, <1>10, <1>11, Zenon
          DEF Next, ThreadStep, Finished

\* From the broadcast that chose it to its FUTEX_CNDGIVE a consumer is locking.
LEMMA MoveStep == PthreadsInv /\ [Next]_vars => MoveInv'
  <1> SUFFICES ASSUME ControlTypes, DataTypes, QueuesInv, MoveInv, [Next]_vars PROVE MoveInv'
    BY DEF PthreadsInv
  <1>0. /\ pc \in [Threads -> Labels]
        /\ ret \in [Threads -> LockReturns \cup UnlockReturns \cup {"none"}]
        /\ moveq \subseteq Threads
    BY DEF ControlTypes, DataTypes
  <1> USE <1>0 DEF LockLabels, MoveInv, Step, Goto, Call, Return
  <1>1. ASSUME NEW t \in Threads, LockFast(t) \/ LockUpgrade(t) \/ LockSleep(t) PROVE MoveInv'
    BY <1>1 DEF LockFast, LockUpgrade, LockSleep, condVars
  <1>2. ASSUME NEW t \in Threads, UnlockSwap(t) \/ Check(t) \/ CondSleep(t) PROVE MoveInv'
    BY <1>2 DEF UnlockSwap, Check, CondSleep, condVars
  <1>3. ASSUME NEW t \in Threads, CondGive(t) \/ CondMark(t) \/ Again(t) PROVE MoveInv'
    BY <1>3 DEF CondGive, CondMark, Again, condVars
  <1>4. ASSUME NEW t \in Threads, Make(t) \/ CondBump(t) PROVE MoveInv'
    BY <1>4 DEF Make, CondBump, mutexVars, condVars
  <1>5. ASSUME NEW t \in Threads, Arrive(t) \/ Open(t) \/ Spin(t) \/ Reset(t) PROVE MoveInv'
    BY <1>5 DEF Arrive, Open, Spin, Reset, Leave, mutexVars, condVars
  <1>6. ASSUME NEW t \in Threads, UnlockWake(t) PROVE MoveInv'
    BY <1>6, HeadAsleep DEF UnlockWake, Woken, condVars
  <1>7. ASSUME NEW t \in Threads, CondWake(t) PROVE MoveInv'
    BY <1>7, HeadAsleep DEF CondWake
  <1>8. CASE UNCHANGED vars
    BY <1>8 DEF vars, mutexVars, condVars
  <1> QED BY <1>1, <1>2, <1>3, <1>4, <1>5, <1>6, <1>7, <1>8, Zenon DEF Next, ThreadStep, Finished

\* Steps that touch neither the mutex nor the broadcast, by a thread from which no
\* sleeper at the mutex expects anything.
Aside(t) ==
    /\ pc[t] \notin {"wake", "upgrade", "relocked", "mark", "lock"}
    /\ mq' = mq /\ locks' = locks /\ bcast' = bcast /\ moveq' = moveq
    /\ \A x \in Threads \ {t} : pc'[x] = pc[x] /\ ret'[x] = ret[x]

\* A step that may change pc and ret of t only.
LEMMA OthersStay ==
    ASSUME ControlTypes, NEW t \in Threads, NEW to, NEW back,
           pc' = [pc EXCEPT ![t] = to], ret' = ret \/ ret' = [ret EXCEPT ![t] = back]
    PROVE  \A x \in Threads \ {t} : pc'[x] = pc[x] /\ ret'[x] = ret[x]
  BY DEF ControlTypes

LEMMA AsideSteps ==
    ASSUME ControlTypes, NEW t \in Threads
    PROVE  /\ Check(t) \/ CondSleep(t) => Aside(t)
           /\ Make(t) \/ CondBump(t) \/ Again(t) => Aside(t)
           /\ Arrive(t) \/ Open(t) \/ Spin(t) \/ Reset(t) => Aside(t)
  <1> DEFINE From(from) ==
               /\ pc[t] \in from
               /\ \E to, back : /\ pc' = [pc EXCEPT ![t] = to]
                                /\ ret' = ret \/ ret' = [ret EXCEPT ![t] = back]
               /\ mq' = mq /\ locks' = locks /\ bcast' = bcast /\ moveq' = moveq
  <1>1. ASSUME NEW from, From(from),
               from \cap {"wake", "upgrade", "relocked", "mark", "lock"} = {}
        PROVE  Aside(t)
    BY <1>1, OthersStay, Zenon DEF Aside
  <1>2. Check(t) => From({"check"})
    BY Zenon DEF Check, Call, Goto
  <1>3. CondSleep(t) => From({"condsleep"})
    BY Zenon DEF CondSleep, Call, Goto
  <1>4. Make(t) => From({"make"})
    BY Zenon DEF Make, Call, Goto, condVars
  <1>5. CondBump(t) => From({"signal", "broadcast"})
    BY Zenon DEF CondBump, Step, Goto, mutexVars
  <1>6. Again(t) => From({"next"})
    BY Zenon DEF Again, Call, Goto, condVars
  <1>7. Arrive(t) => From({"arrive"})
    BY Zenon DEF Arrive, Step, Goto, mutexVars, condVars
  <1>8. Leave(t) => \E to : pc' = [pc EXCEPT ![t] = to]
    BY Zenon DEF Leave, Goto
  <1>9. Open(t) \/ Reset(t) => From({"open", "reset"})
    BY <1>8, Zenon DEF Open, Reset, mutexVars, condVars
  <1>10. Spin(t) => From({"spin"})
    BY <1>8, Zenon DEF Spin, Goto, mutexVars, condVars
  <1> HIDE DEF From
  <1>11. /\ From({"check"}) \/ From({"condsleep"}) \/ From({"make"}) => Aside(t)
         /\ From({"signal", "broadcast"}) \/ From({"next"}) => Aside(t)
         /\ From({"arrive"}) \/ From({"open", "reset"}) \/ From({"spin"}) => Aside(t)
    BY <1>1, Zenon
  <1> QED BY <1>2, <1>3, <1>4, <1>5, <1>6, <1>7, <1>9, <1>10, <1>11, Zenon

\* A step that ends a promise to look after the sleepers makes a new one.
LEMMA SleeperStep == PthreadsInv /\ [Next]_vars => SleeperRemembered'
  <1> SUFFICES ASSUME ControlTypes, DataTypes, QueuesInv, MoveInv, SleeperRemembered,
                      [Next]_vars, mq' # <<>>
               PROVE  SleeperRemembered'
    BY Zenon DEF PthreadsInv, SleeperRemembered
  <1>0. /\ pc \in [Threads -> Labels]
        /\ ret \in [Threads -> LockReturns \cup UnlockReturns \cup {"none"}]
        /\ moveq \subseteq Threads
    BY DEF ControlTypes, DataTypes
  <1> USE <1>0 DEF Step, Goto, Call, Return
  <1> DEFINE Promise(x) ==
               \/ pc[x] \in {"wake", "upgrade"}
               \/ /\ pc[x] \in {"relocked", "mark"} \/ (pc[x] = "lock" /\ ret[x] = "relocked")
                  /\ bcast \/ x \in moveq
  <1>1. mq # <<>> /\ locks # 2 => \E x \in Threads : Promise(x)
    BY DEF SleeperRemembered
  <1>2. locks' = 2 \/ (\E x \in Threads : Promise(x)') => SleeperRemembered'
    BY DEF SleeperRemembered
  <1> DEFINE Kept == /\ mq' = mq /\ locks' = locks
                     /\ \A x \in Threads : Promise(x) => Promise(x)'
  <1>3. Kept => SleeperRemembered'
    BY <1>1, <1>2
  <1>aside. ASSUME NEW t \in Threads, Aside(t) PROVE Kept
    BY <1>aside, Zenon DEF Aside
  <1>4. ASSUME NEW t \in Threads, LockFast(t) PROVE SleeperRemembered'
    <2>1. CASE locks = 0
      <3>1. mq' = mq /\ \A x \in Threads : Promise(x) => Promise(x)'
        BY <1>4, <2>1 DEF LockFast, condVars
      <3> QED BY <1>1, <1>2, <2>1, <3>1
    <2>2. CASE locks # 0
      <3>1. pc'[t] = "upgrade"
        BY <1>4, <2>2 DEF LockFast
      <3> QED BY <3>1 DEF SleeperRemembered
    <2> QED BY <2>1, <2>2
  <1>5. ASSUME NEW t \in Threads, LockUpgrade(t) PROVE SleeperRemembered'
    BY <1>5 DEF LockUpgrade, SleeperRemembered
  <1>6. ASSUME NEW t \in Threads, LockSleep(t) PROVE SleeperRemembered'
    BY <1>6 DEF LockSleep, SleeperRemembered
  <1>7. ASSUME NEW t \in Threads, UnlockSwap(t) PROVE SleeperRemembered'
    <2>1. CASE locks = 2
      <3>1. pc'[t] = "wake"
        BY <1>7, <2>1 DEF UnlockSwap
      <3> QED BY <3>1 DEF SleeperRemembered
    <2>2. CASE locks # 2
      <3>1. mq' = mq /\ \A x \in Threads : Promise(x) => Promise(x)'
        BY <1>7, <2>2 DEF UnlockSwap, condVars
      <3> QED BY <1>1, <1>2, <2>2, <3>1, Zenon
    <2> QED BY <2>1, <2>2
  <1>8. ASSUME NEW t \in Threads, UnlockWake(t) PROVE SleeperRemembered'
    <2>1. mq # <<>>
      BY <1>8 DEF UnlockWake
    <2>2. PICK u \in Threads : /\ u = Head(mq)
                               /\ pc[u] = "asleep" \/ (pc[u] = "condasleep" /\ bcast)
      BY <2>1, HeadAsleep
    <2>3. /\ pc[t] = "wake" /\ bcast' = bcast
          /\ pc' = [pc EXCEPT ![t] = ret[t], ![u] = Woken(u)]
          /\ ret' = [ret EXCEPT ![t] = "none",
                                ![u] = IF pc[u] = "asleep" THEN @ ELSE "relocked"]
      BY <1>8, <2>1, <2>2 DEF UnlockWake, condVars
    <2>4. Promise(u)'
      BY <2>2, <2>3 DEF Woken
    <2> QED BY <1>2, <2>4, Zenon
  <1>9. ASSUME NEW t \in Threads, CondGive(t) PROVE SleeperRemembered'
    <2>1. CASE t \in moveq
      <3>1. Promise(t)'
        BY <1>9, <2>1 DEF CondGive
      <3> QED BY <1>2, <3>1, Zenon
    <2>2. CASE t \notin moveq
      <3>1. Kept
        BY <1>9, <2>2 DEF CondGive
      <3> QED BY <1>3, <3>1, Zenon
    <2> QED BY <2>1, <2>2
  <1>10. ASSUME NEW t \in Threads, CondMark(t) PROVE SleeperRemembered'
    <2>1. CASE bcast
      BY <1>10, <2>1 DEF CondMark, SleeperRemembered
    <2>2. CASE ~bcast
      <3>1. t \notin moveq
        BY <1>10 DEF CondMark, MoveInv, LockLabels
      <3>2. Kept
        BY <1>10, <2>2, <3>1 DEF CondMark, condVars
      <3> QED BY <1>3, <3>2
    <2> QED BY <2>1, <2>2
  <1>11. ASSUME NEW t \in Threads, Check(t) \/ CondSleep(t) PROVE Kept
    BY <1>11, <1>aside, AsideSteps, Zenon
  <1>12. ASSUME NEW t \in Threads, Make(t) \/ CondBump(t) \/ Again(t) PROVE Kept
    BY <1>12, <1>aside, AsideSteps, Zenon
  <1>13. ASSUME NEW t \in Threads, CondWake(t) PROVE Kept
    BY <1>13, HeadAsleep DEF CondWake
  <1>14. ASSUME NEW t \in Threads, Arrive(t) \/ Open(t) \/ Spin(t) \/ Reset(t) PROVE Kept
    BY <1>14, <1>aside, AsideSteps, Zenon
  <1>15. ASSUME UNCHANGED vars PROVE Kept
    BY <1>15 DEF vars, mutexVars, condVars
  <1> HIDE DEF Kept
  <1> QED BY <1>3, <1>4, <1>5, <1>6, <1>7, <1>8, <1>9, <1>10, <1>11, <1>12, <1>13, <1>14,
             <1>15, Zenon DEF Next, ThreadStep, Finished

--------------------------------------------------------------------------------
(* The barrier. *)

LEMMA Counts ==
    /\ IsFiniteSet(Threads)
    /\ target = Cardinality(Threads) /\ target \in Nat /\ target >= 2
    /\ m \in Nat /\ target < m
  BY PthreadsAssumption DEF Threads, target

\* How many threads are at some labels.
LEMMA AtCount ==
    ASSUME NEW S
    PROVE  /\ IsFiniteSet(At(S))
           /\ Cardinality(At(S)) \in Nat /\ Cardinality(At(S)) <= target
           /\ Cardinality(At(S)) = target => At(S) = Threads
           /\ Cardinality(At(S)) = 0 <=> At(S) = {}
  <1>1. At(S) \in SUBSET Threads
    BY DEF At
  <1>2. /\ IsFiniteSet(At(S))
        /\ Cardinality(At(S)) <= Cardinality(Threads)
        /\ Cardinality(Threads) = Cardinality(At(S)) => Threads = At(S)
    BY <1>1, Counts, FS_Subset
  <1>3. Cardinality(At(S)) \in Nat
    BY <1>2, FS_CardinalityType
  <1>4. Cardinality(At(S)) = 0 <=> At(S) = {}
    BY <1>2, FS_EmptySet
  <1> QED BY <1>2, <1>3, <1>4, Counts, Zenon

\* While threads come the top bit is clear, while they leave it is set.
LEMMA Phases ==
    /\ Gathering => current \in Nat /\ current <= target /\ current < m
    /\ Draining => current \in Nat /\ current >= m
  <1>1. Gathering => current \in Nat /\ current <= target /\ current < m
    BY Counts, AtCount DEF Gathering
  <1>2. Draining => current \in Nat /\ current >= m
    BY Counts, AtCount DEF Draining
  <1> QED BY <1>1, <1>2

LEMMA ArriveStep ==
    ASSUME ControlTypes, BarrierInv, NEW t \in Threads, Arrive(t)
    PROVE  BarrierInv'
  <1> DEFINE W == At({"spin", "open"})
             to == IF current + 1 = target THEN "open" ELSE "spin"
  <1>1. /\ pc[t] = "arrive" /\ current < m
        /\ pc' = [pc EXCEPT ![t] = to]
        /\ current' = current + 1
        /\ arrived' = [arrived EXCEPT ![t] = @ + 1] /\ passed' = passed
    BY DEF Arrive, Step, Goto, MayArrive
  <1>2. pc \in [Threads -> Labels]
    BY DEF ControlTypes
  <1>3. Gathering /\ CountInv
    BY <1>1, Phases, Counts DEF BarrierInv
  <1>4. W' = W \cup {t} /\ t \notin W
    BY <1>1, <1>2 DEF At
  <1>5. current' = Cardinality(W')
    <2>1. Cardinality(W') = Cardinality(W) + 1
      BY <1>4, AtCount, FS_AddElement
    <2> QED BY <1>1, <1>3, <2>1 DEF Gathering
  <1>6. At({"reset"})' = {}
    BY <1>1, <1>2, <1>3 DEF At, Gathering
  <1>7. \A x \in Threads : pc[x] # "open"
    BY <1>3, <1>4 DEF Gathering
  <1>8. ASSUME NEW x \in Threads, pc'[x] = "open" PROVE x = t /\ W' = Threads
    <2>1. x = t /\ current + 1 = target
      BY <1>1, <1>2, <1>7, <1>8
    <2>2. W' \in SUBSET Threads
      BY DEF At
    <2>3. Cardinality(W') = Cardinality(Threads)
      BY <1>1, <1>5, <2>1, Counts
    <2> QED BY <2>1, <2>2, <2>3, Counts, FS_Subset
  <1>9. CountInv'
    BY <1>1, <1>2, <1>3 DEF CountInv, BarrierLabels
  <1>10. \A x, y \in At({"open"})' : x = y
    BY <1>8 DEF At
  <1>11. \A x, y \in Threads : passed'[x] = passed'[y]
    BY <1>1, <1>3 DEF Gathering
  <1>12. Gathering'
    BY <1>5, <1>6, <1>8, <1>10, <1>11 DEF Gathering
  <1> QED BY <1>9, <1>12 DEF BarrierInv

LEMMA OpenStep ==
    ASSUME ControlTypes, BarrierInv, NEW t \in Threads, Open(t)
    PROVE  BarrierInv'
  <1> DEFINE Spinning == At({"spin"})
  <1>1. /\ pc[t] = "open"
        /\ current' = (current - 1) + m
        /\ passed' = [passed EXCEPT ![t] = @ + 1] /\ arrived' = arrived
        /\ \E to \in {"arrive", "done"} : pc' = [pc EXCEPT ![t] = to]
    BY Zenon DEF Open, Leave, Goto
  <1>2. pc \in [Threads -> Labels]
    BY DEF ControlTypes
  <1>3. Gathering /\ CountInv
    BY <1>1 DEF BarrierInv, Draining, At
  <1>4. \A x \in Threads : pc[x] \in {"spin", "open"} /\ (pc[x] = "open" => x = t)
    BY <1>1, <1>3 DEF Gathering, At
  <1>5. Spinning' = Threads \ {t} /\ At({"open"})' = {} /\ At({"reset"})' = {}
    BY <1>1, <1>2, <1>4 DEF At
  <1>6. Cardinality(Spinning') = target - 1
    BY <1>5, Counts, FS_RemoveElement
  <1>7. current = target
    BY <1>1, <1>3, Counts DEF Gathering
  <1>8. current' = m + Cardinality(Spinning')
    BY <1>1, <1>6, <1>7, Counts
  <1>9. Spinning' # {}
    <2>1. Cardinality(Spinning') # 0
      BY <1>6, Counts
    <2> QED BY <2>1, FS_EmptySet
  <1>10. CountInv'
    BY <1>1, <1>2, <1>3 DEF CountInv, BarrierLabels
  <1>11. \A x, y \in Threads : arrived'[x] = arrived'[y]
    BY <1>1, <1>3, <1>4 DEF CountInv, BarrierLabels, Gathering
  <1>12. Draining'
    BY <1>5, <1>8, <1>9, <1>11 DEF Draining
  <1> QED BY <1>10, <1>12 DEF BarrierInv

LEMMA SpinStep ==
    ASSUME ControlTypes, BarrierInv, NEW t \in Threads, Spin(t)
    PROVE  BarrierInv'
  <1> DEFINE Spinning == At({"spin"})
  <1>1. pc[t] = "spin" /\ current >= m /\ current' = current - 1 /\ arrived' = arrived
    BY DEF Spin
  <1>2. pc \in [Threads -> Labels]
    BY DEF ControlTypes
  <1>3. Draining /\ CountInv
    BY <1>1, Phases, Counts DEF BarrierInv
  <1>4. t \in Spinning /\ At({"reset"}) = {}
    BY <1>1, <1>3 DEF At, Draining
  <1>5. PICK to \in {"reset", "arrive", "done"} :
           /\ pc' = [pc EXCEPT ![t] = to]
           /\ to = "reset" <=> current - 1 = m
           /\ passed' = IF to = "reset" THEN passed ELSE [passed EXCEPT ![t] = @ + 1]
    BY DEF Spin, Leave, Goto
  <1>6. Spinning' = Spinning \ {t} /\ At({"open"})' = {}
    BY <1>1, <1>2, <1>3, <1>5 DEF At, Draining
  <1>7. Cardinality(Spinning') = Cardinality(Spinning) - 1
    BY <1>4, <1>6, AtCount, FS_RemoveElement
  <1>8. current' = m + Cardinality(Spinning')
    <2>1. current = m + Cardinality(Spinning)
      BY <1>3, Zenon DEF Draining
    <2>2. Cardinality(Spinning) \in Nat /\ m \in Nat
      BY AtCount, Counts, Zenon
    <2> HIDE DEF Spinning
    <2> QED BY <1>1, <1>7, <2>1, <2>2
  <1>9. At({"reset"})' = IF to = "reset" THEN {t} ELSE {}
    BY <1>2, <1>4, <1>5 DEF At
  <1>10. Spinning' = {} <=> to = "reset"
    <2>1. Cardinality(Spinning') = 0 <=> to = "reset"
      <3>1. Cardinality(Spinning) \in Nat /\ m \in Nat
        BY AtCount, Counts, Zenon
      <3>2. current - 1 = m + (Cardinality(Spinning) - 1)
        BY <1>1, <1>7, <1>8, Zenon
      <3> HIDE DEF Spinning
      <3> QED BY <1>5, <1>7, <3>1, <3>2
    <2>2. IsFiniteSet(Spinning')
      <3>1. IsFiniteSet(Spinning)
        BY AtCount
      <3> QED BY <1>6, <3>1, FS_RemoveElement
    <2> QED BY <2>1, <2>2, FS_EmptySet
  <1>11. CountInv'
    BY <1>1, <1>2, <1>3, <1>5 DEF CountInv, BarrierLabels
  <1>12. \A x, y \in Threads : arrived'[x] = arrived'[y]
    BY <1>1, <1>3 DEF Draining
  <1>13. Draining'
    BY <1>6, <1>8, <1>9, <1>10, <1>12 DEF Draining
  <1> QED BY <1>11, <1>13 DEF BarrierInv

LEMMA ResetStep ==
    ASSUME ControlTypes, BarrierInv, NEW t \in Threads, Reset(t)
    PROVE  BarrierInv'
  <1>1. /\ pc[t] = "reset"
        /\ current' = 0
        /\ passed' = [passed EXCEPT ![t] = @ + 1] /\ arrived' = arrived
        /\ \E to \in {"arrive", "done"} : pc' = [pc EXCEPT ![t] = to]
    BY Zenon DEF Reset, Leave, Goto
  <1>2. pc \in [Threads -> Labels]
    BY DEF ControlTypes
  <1>3. Draining /\ CountInv
    BY <1>1 DEF BarrierInv, Gathering, At
  <1>4. \A x \in Threads : pc[x] \in BarrierLabels => x = t
    BY <1>1, <1>3 DEF Draining, At, BarrierLabels
  <1>5. \A x \in Threads : pc'[x] \notin BarrierLabels
    BY <1>1, <1>2, <1>4 DEF BarrierLabels
  <1>6. At({"spin", "open"})' = {} /\ At({"reset"})' = {} /\ At({"open"})' = {}
    BY <1>5 DEF At, BarrierLabels
  <1>7. CountInv'
    BY <1>1, <1>2, <1>3 DEF CountInv, BarrierLabels
  <1>8. \A x, y \in Threads : passed'[x] = passed'[y]
    BY <1>1, <1>3, <1>5, <1>7 DEF CountInv, Draining
  <1>9. Gathering'
    BY <1>1, <1>5, <1>6, <1>8, FS_EmptySet DEF Gathering, BarrierLabels
  <1> QED BY <1>7, <1>9 DEF BarrierInv

LEMMA BarrierStep == PthreadsInv /\ [Next]_vars => BarrierInv'
  <1> SUFFICES ASSUME ControlTypes, DataTypes, QueuesInv, BarrierInv, [Next]_vars
               PROVE  BarrierInv'
    BY DEF PthreadsInv
  <1>0. /\ pc \in [Threads -> Labels]
        /\ \A t \in Threads : pc[t] \in LockLabels => ret[t] \in LockReturns
        /\ \A t \in Threads : pc[t] \in UnlockLabels => ret[t] \in UnlockReturns
    BY DEF ControlTypes
  <1> USE <1>0 DEF LockLabels, UnlockLabels, LockReturns, UnlockReturns,
                   Step, Goto, Call, Return, barrierVars
  <1> DEFINE Quiet == /\ UNCHANGED <<current, arrived, passed>>
                      /\ \A x \in Threads : pc'[x] = "spin" <=> pc[x] = "spin"
                      /\ \A x \in Threads : pc'[x] = "open" <=> pc[x] = "open"
                      /\ \A x \in Threads : pc'[x] = "reset" <=> pc[x] = "reset"
  <1>1. ASSUME Quiet PROVE BarrierInv'
    <2>1. /\ At({"spin"})' = At({"spin"}) /\ At({"open"})' = At({"open"})
          /\ At({"reset"})' = At({"reset"}) /\ At({"spin", "open"})' = At({"spin", "open"})
      BY <1>1, Zenon DEF At
    <2>2. CountInv => CountInv'
      BY <1>1, Zenon DEF CountInv, BarrierLabels
    <2>3. Gathering => Gathering'
      BY <1>1, <2>1, Zenon DEF Gathering
    <2>4. Draining => Draining'
      BY <1>1, <2>1, Zenon DEF Draining
    <2> QED BY <2>2, <2>3, <2>4 DEF BarrierInv
  <1>2. ASSUME NEW t \in Threads, LockFast(t) \/ LockUpgrade(t) \/ LockSleep(t) PROVE Quiet
    BY <1>2 DEF LockFast, LockUpgrade, LockSleep
  <1>3. ASSUME NEW t \in Threads, UnlockSwap(t) \/ Check(t) \/ CondSleep(t) PROVE Quiet
    BY <1>3, Zenon DEF UnlockSwap, Check, CondSleep
  <1>4. ASSUME NEW t \in Threads, CondGive(t) \/ CondMark(t) \/ Make(t) PROVE Quiet
    BY <1>4, Zenon DEF CondGive, CondMark, Make
  <1>5. ASSUME NEW t \in Threads, CondBump(t) \/ Again(t) PROVE Quiet
    BY <1>5 DEF CondBump, Again
  <1>6. ASSUME NEW t \in Threads, UnlockWake(t) PROVE Quiet
    BY <1>6, HeadAsleep DEF UnlockWake, Woken
  <1>7. ASSUME NEW t \in Threads, CondWake(t) PROVE Quiet
    BY <1>7, HeadAsleep DEF CondWake
  <1>8. ASSUME UNCHANGED vars PROVE Quiet
    BY <1>8 DEF vars
  <1> HIDE DEF Quiet
  <1> QED BY <1>1, <1>2, <1>3, <1>4, <1>5, <1>6, <1>7, <1>8, ArriveStep, OpenStep, SpinStep,
             ResetStep, Zenon DEF Next, ThreadStep, Finished

--------------------------------------------------------------------------------

LEMMA InitInv == Init => PthreadsInv
  <1> SUFFICES ASSUME Init PROVE PthreadsInv
    OBVIOUS
  <1>1. ControlTypes
    BY DEF Init, ControlTypes, Labels, LockLabels, UnlockLabels, LockReturns
  <1>2. DataTypes
    <2>1. <<>> \in Seq(Threads)
      OBVIOUS
    <2> QED BY <2>1, Zenon DEF Init, DataTypes
  <1>3. QueuesInv
    BY EmptyIn DEF Init, QueuesInv
  <1>4. MutexExclusion /\ MoveInv /\ SleeperRemembered
    BY DEF Init, MutexExclusion, MoveInv, SleeperRemembered, Holding
  <1>5. CountInv
    BY DEF Init, CountInv, BarrierLabels
  <1>6. Gathering
    <2>1. At({"spin", "open"}) = {} /\ At({"reset"}) = {} /\ At({"open"}) = {}
      BY DEF Init, At
    <2> QED BY <2>1, FS_EmptySet, Zenon DEF Init, Gathering
  <1> QED BY <1>1, <1>2, <1>3, <1>4, <1>5, <1>6 DEF PthreadsInv, BarrierInv

LEMMA InvHolds == Spec => []PthreadsInv
  <1>1. PthreadsInv /\ [Next]_vars => PthreadsInv'
    BY ControlStep, DataStep, QueuesStep, MutexStep, MoveStep, SleeperStep, BarrierStep
    DEF PthreadsInv
  <1> QED BY InitInv, <1>1, PTL DEF Spec

\* pthread_mutex_lock and pthread_mutex_unlock: for any threads, at most one is
\* between the return of lock and the swap in unlock, and locks is not 0 then.
THEOREM MutualExclusion == Spec => []MutexExclusion
  <1>1. PthreadsInv => MutexExclusion
    BY DEF PthreadsInv
  <1> QED BY InvHolds, <1>1, PTL

\* pthread_mutex_unlock and the store of 2 in pthread_cond_wait: with threads
\* asleep at the mutex it is marked, or somebody is on the way to mark it or to
\* wake one of them.
THEOREM NoSleeperForgotten == Spec => []SleeperRemembered
  <1>1. PthreadsInv => SleeperRemembered
    BY DEF PthreadsInv
  <1> QED BY InvHolds, <1>1, PTL

\* pthread_barrier_wait: for any number of threads from two up to the top bit and
\* any number of rounds, nobody has left more rounds than anybody else has come to.
THEOREM BarrierHolds == Spec => []BarrierTogether
  <1>1. PthreadsInv => BarrierTogether
    <2> SUFFICES ASSUME BarrierInv, NEW t \in Threads, NEW u \in Threads
                 PROVE  passed[t] <= arrived[u]
      BY DEF PthreadsInv, BarrierTogether
    <2>1. /\ passed[t] \in Nat /\ arrived[t] \in Nat /\ passed[u] \in Nat /\ arrived[u] \in Nat
          /\ passed[t] <= arrived[t] /\ passed[u] <= arrived[u]
      BY DEF BarrierInv, CountInv
    <2>2. passed[t] = passed[u] \/ arrived[t] = arrived[u]
      BY DEF BarrierInv, Gathering, Draining
    <2> QED BY <2>1, <2>2
  <1> QED BY InvHolds, <1>1, PTL

--------------------------------------------------------------------------------
(* FutexBucket of futex.rs. *)

Entry == [addr : Addrs, thread : Waiters, live : BOOLEAN]

FutexTypes ==
    /\ waiters \in Seq(Entry)
    /\ flag \in [Waiters -> BOOLEAN] /\ token \in [Waiters -> BOOLEAN]
    /\ place \in [FutexThreads -> {"idle", "compare", "push", "parked", "check", "wake"}]
    /\ call \in [Waiters -> [addr : Addrs \cup {{}}, expected : Words]]
    /\ \A t \in Waiters : place[t] \in {"compare", "push"} => call[t].addr \in Addrs
    /\ before \subseteq Waiters \X Waiters

\* A sleeper that was not woken has one live entry, everyone else has none; a
\* thread that was woken in its sleep has a token to come out with.
EntryInv ==
    \A t \in Waiters :
        /\ Asleep(t) => \E i \in 1..Len(waiters) : Live(t) = {i}
        /\ ~Asleep(t) => Live(t) = {}
        /\ place[t] = "parked" /\ flag[t] => token[t]
        /\ flag[t] => place[t] \in {"parked", "check"}

\* The entries of the sleepers stand in the list in the order of arrival.
OrderInv ==
    \A t, u \in Waiters : <<t, u>> \in before =>
        /\ Asleep(t) /\ Asleep(u)
        /\ \A i \in Live(t), j \in Live(u) : i < j

\* The inductive invariant.
FutexInv == FutexTypes /\ EntryInv /\ OrderInv

LEMMA LeastExists ==
    ASSUME NEW T \in SUBSET Nat, T # {}
    PROVE  \E n \in T : \A y \in T : n <= y
  <1>1. IsWellFoundedOn(OpToRel(<, Nat), Nat)
    BY NatLessThanWellFounded, Zenon
  <1>2. PICK n \in T : \A y \in T : ~(<<y, n>> \in OpToRel(<, Nat))
    BY <1>1, WFMin, Zenon
  <1>3. \A y \in T : ~(y < n)
    BY <1>2, Zenon DEF OpToRel
  <1> QED BY <1>3

\* A set that holds 0 and, with a number below n, the next one.
LEMMA UpTo ==
    ASSUME NEW n \in Nat, NEW G, 0 \in G, \A k \in 1..n : k - 1 \in G => k \in G
    PROVE  \A k \in 0..n : k \in G
  <1> DEFINE T == {k \in 0..n : k \notin G}
  <1> SUFFICES ASSUME T # {} PROVE FALSE
    OBVIOUS
  <1>1. PICK k \in T : \A y \in T : k <= y
    <2>1. T \in SUBSET Nat
      OBVIOUS
    <2> HIDE DEF T
    <2> QED BY <2>1, LeastExists, Zenon
  <1>2. k # 0
    BY <1>1
  <1>3. k \in 1..n /\ k - 1 \in 0..n /\ ~(k <= k - 1)
    BY <1>1, <1>2
  <1>4. k - 1 \in G
    BY <1>1, <1>3
  <1> QED BY <1>1, <1>3, <1>4

LEMMA Ordered ==
    /\ \A a, b \in Nat : a < b => ~(b < a) /\ a # b /\ a <= b
    /\ \A a, b \in Nat : ~(b < a) /\ a # b => a < b
  OBVIOUS

LEMMA PositionsNat == \A n \in Nat : \A i \in 1..n : i \in Nat
  OBVIOUS

LEMMA ToNext ==
    ASSUME NEW n \in Nat
    PROVE  /\ 1..(n - 1) \subseteq 1..n /\ 1..n \subseteq 1..(n + 1)
           /\ \A i \in 1..n : i = n \/ i \in 1..(n - 1)
           /\ \A i \in 1..(n + 1) : i \in 1..n \/ i = n + 1
           /\ n + 1 \in 1..(n + 1) /\ n + 1 \notin 1..n
  OBVIOUS

LEMMA Below ==
    \A a, b, c \in Nat : a <= b /\ b \in 0..(0 + c - 1) => a \in 0..(0 + c - 1)
  OBVIOUS

LEMMA CountsNat == \A c \in 0..MaxCount : c \in Nat
  BY FutexAssumption

LEMMA Appended ==
    ASSUME NEW E, NEW l \in Seq(E), NEW e \in E
    PROVE  /\ Append(l, e) \in Seq(E) /\ Len(Append(l, e)) = Len(l) + 1
           /\ \A i \in 1..Len(l) : Append(l, e)[i] = l[i]
           /\ Append(l, e)[Len(l) + 1] = e /\ DOMAIN Append(l, e) = 1..(Len(l) + 1)
  OBVIOUS

\* F is the scan of Without up to position n.
Scan(l, S, F, n) ==
    F = [k \in 0..n |-> IF k = 0 THEN <<>>
                        ELSE IF k \in S THEN F[k - 1] ELSE Append(F[k - 1], l[k])]

LEMMA ScanExists ==
    ASSUME NEW E, NEW l \in Seq(E), NEW S
    PROVE  \E F : Scan(l, S, F, Len(l)) /\ Without(l, S) = F[Len(l)]
  <1> DEFINE G == {n \in Nat : \E F : Scan(l, S, F, n)}
  <1>1. 0 \in G
    <2>1. Scan(l, S, [k \in 0..0 |-> <<>>], 0)
      BY DEF Scan
    <2> QED BY <2>1
  <1>2. ASSUME NEW n \in 1..Len(l), n - 1 \in G PROVE n \in G
    <2>1. PICK F : Scan(l, S, F, n - 1)
      BY <1>2
    <2> DEFINE final == IF n \in S THEN F[n - 1] ELSE Append(F[n - 1], l[n])
               H == [k \in 0..n |-> IF k < n THEN F[k] ELSE final]
    <2>2. n \in Nat /\ n - 1 \in 0..n /\ n - 1 < n /\ n # 0
      OBVIOUS
    <2>3. \A k \in 0..(n - 1) :
             F[k] = IF k = 0 THEN <<>>
                    ELSE IF k \in S THEN F[k - 1] ELSE Append(F[k - 1], l[k])
      BY <2>1, Zenon DEF Scan
    <2>4. ASSUME NEW k \in 0..n
          PROVE  H[k] = IF k = 0 THEN <<>>
                        ELSE IF k \in S THEN H[k - 1] ELSE Append(H[k - 1], l[k])
      <3>1. H[k] = IF k < n THEN F[k] ELSE final
        BY Zenon
      <3>2. k # 0 => k - 1 \in 0..n /\ k - 1 < n
        BY <2>2
      <3>3. k # 0 => H[k - 1] = F[k - 1]
        BY <3>2, Zenon
      <3> HIDE DEF H
      <3>4. CASE k < n
        <4>1. k \in 0..(n - 1)
          BY <3>4
        <4> QED BY <2>3, <3>1, <3>3, <3>4, <4>1, Zenon
      <3>5. CASE ~(k < n)
        <4>1. k = n
          BY <3>5
        <4> QED BY <2>2, <3>1, <3>3, <3>5, <4>1, Zenon
      <3> QED BY <3>4, <3>5
    <2>5. Scan(l, S, H, n)
      BY <2>4, Zenon DEF Scan
    <2> QED BY <2>2, <2>5
  <1>3. Len(l) \in Nat /\ Len(l) \in 0..Len(l)
    OBVIOUS
  <1> HIDE DEF G
  <1>4. Len(l) \in G
    BY <1>1, <1>2, <1>3, UpTo, Zenon
  <1>5. Scan(l, S, (CHOOSE F : Scan(l, S, F, Len(l))), Len(l))
    BY <1>4, Zenon DEF G
  <1>6. Without(l, S) = (CHOOSE F : Scan(l, S, F, Len(l)))[Len(l)]
    BY DEF Without, Scan
  <1> QED BY <1>5, <1>6, Zenon

\* r is what is left of the first n entries of l without those at S: entry j of
\* r is entry g[j] of l, and the order is that of l.
Left(l, S, r, n, g) ==
    /\ g \in [1..Len(r) -> 1..n]
    /\ \A j \in 1..Len(r) : r[j] = l[g[j]] /\ g[j] \notin S
    /\ \A j, k \in 1..Len(r) : j < k => g[j] < g[k]
    /\ \A i \in 1..n : i \notin S => \E j \in 1..Len(r) : g[j] = i

\* retain keeps the entries that stay in their order.
LEMMA WithoutIs ==
    ASSUME NEW E, NEW l \in Seq(E), NEW S
    PROVE  /\ Without(l, S) \in Seq(E)
           /\ \E g : Left(l, S, Without(l, S), Len(l), g)
  <1>1. PICK F : Scan(l, S, F, Len(l)) /\ Without(l, S) = F[Len(l)]
    BY ScanExists
  <1>2. Len(l) \in Nat /\ \A i \in 1..Len(l) : l[i] \in E
    OBVIOUS
  <1> DEFINE Good(n) == F[n] \in Seq(E) /\ \E g : Left(l, S, F[n], n, g)
             G == {n \in Nat : Good(n)}
  <1>3. \A n \in 0..Len(l) : F[n] = IF n = 0 THEN <<>>
                               ELSE IF n \in S THEN F[n - 1] ELSE Append(F[n - 1], l[n])
    BY <1>1, Zenon DEF Scan
  <1>4. 0 \in G
    <2>1. F[0] = <<>>
      BY <1>2, <1>3
    <2>2. Left(l, S, <<>>, 0, <<>>)
      BY DEF Left
    <2>3. <<>> \in Seq(E) /\ 0 \in Nat
      OBVIOUS
    <2> QED BY <2>1, <2>2, <2>3, Zenon
  <1>5. ASSUME NEW n \in 1..Len(l), n - 1 \in G PROVE n \in G
    <2>1. PICK g : Left(l, S, F[n - 1], n - 1, g)
      BY <1>5
    <2> DEFINE r == F[n - 1]
    <2>2. r \in Seq(E) /\ Len(r) \in Nat /\ n \in Nat
      BY <1>5
    <2>3. F[n] = IF n \in S THEN r ELSE Append(r, l[n])
      BY <1>2, <1>3
    <2> HIDE DEF r
    <2>4. CASE n \in S
      <3>1. /\ g \in [1..Len(r) -> 1..(n - 1)]
            /\ \A j \in 1..Len(r) : r[j] = l[g[j]] /\ g[j] \notin S
            /\ \A j, k \in 1..Len(r) : j < k => g[j] < g[k]
            /\ \A i \in 1..(n - 1) : i \notin S => \E j \in 1..Len(r) : g[j] = i
        BY <2>1, Zenon DEF Left, r
      <3>2. 1..(n - 1) \subseteq 1..n /\ \A i \in 1..n : i = n \/ i \in 1..(n - 1)
        BY <2>2, ToNext, Zenon
      <3>3. g \in [1..Len(r) -> 1..n]
        BY <3>1, <3>2
      <3>4. \A i \in 1..n : i \notin S => \E j \in 1..Len(r) : g[j] = i
        BY <2>4, <3>1, <3>2, Zenon
      <3>5. Left(l, S, r, n, g)
        BY <3>1, <3>3, <3>4, Zenon DEF Left
      <3> QED BY <2>2, <2>3, <2>4, <3>5, Zenon
    <2>5. CASE n \notin S
      <3> DEFINE a == Append(r, l[n])
                 h == [j \in 1..(Len(r) + 1) |-> IF j <= Len(r) THEN g[j] ELSE n]
      <3>1. /\ a \in Seq(E) /\ Len(a) = Len(r) + 1
            /\ \A j \in 1..Len(r) : a[j] = r[j]
            /\ a[Len(r) + 1] = l[n]
        BY <1>2, <2>2
      <3>2. \A j \in 1..(Len(r) + 1) : j \in 1..Len(r) \/ j = Len(r) + 1
        BY <2>2
      <3>3. /\ g \in [1..Len(r) -> 1..(n - 1)]
            /\ \A j \in 1..Len(r) : r[j] = l[g[j]] /\ g[j] \notin S
            /\ \A j, k \in 1..Len(r) : j < k => g[j] < g[k]
            /\ \A i \in 1..(n - 1) : i \notin S => \E j \in 1..Len(r) : g[j] = i
        BY <2>1, Zenon DEF Left, r
      <3>4. /\ \A j \in 1..Len(r) : h[j] = g[j] /\ h[j] \in 1..(n - 1)
            /\ h[Len(r) + 1] = n
            /\ h \in [1..Len(a) -> 1..n]
        <4>1. \A j \in 1..Len(r) : /\ g[j] \in 1..(n - 1)
                                   /\ j \in 1..(Len(r) + 1) /\ j <= Len(r)
          <5>1. \A j \in 1..Len(r) : g[j] \in 1..(n - 1)
            BY <3>3, Zenon
          <5>2. \A j \in 1..Len(r) : j \in 1..(Len(r) + 1) /\ j <= Len(r)
            BY ONLY <2>2
          <5> QED BY <5>1, <5>2, Zenon
        <4>2. Len(r) + 1 \in 1..(Len(r) + 1) /\ ~(Len(r) + 1 <= Len(r))
          BY <2>2
        <4>3. \A j \in 1..(Len(r) + 1) : j <= Len(r) => j \in 1..Len(r)
          BY <2>2
        <4>4. n \in 1..n /\ \A i \in 1..(n - 1) : i \in 1..n
          OBVIOUS
        <4> QED BY <3>1, <4>1, <4>2, <4>3, <4>4, Zenon
      <3> HIDE DEF a, h
      <3>5. \A j \in 1..Len(a) : a[j] = l[h[j]] /\ h[j] \notin S
        BY <2>5, <3>1, <3>2, <3>3, <3>4, Zenon
      <3>6. ASSUME NEW j \in 1..Len(a), NEW k \in 1..Len(a), j < k PROVE h[j] < h[k]
        <4>1. j \in 1..Len(r)
          BY <2>2, <3>1, <3>6
        <4>2. CASE k \in 1..Len(r)
          BY <3>3, <3>4, <3>6, <4>1, <4>2
        <4>3. CASE k = Len(r) + 1
          <5>1. h[j] \in 1..(n - 1) /\ h[k] = n
            BY <3>4, <4>1, <4>3
          <5> QED BY <2>2, <5>1
        <4> QED BY <3>1, <3>2, <4>2, <4>3, Zenon
      <3>7. \A i \in 1..n : i \notin S => \E j \in 1..Len(a) : h[j] = i
        <4> SUFFICES ASSUME NEW i \in 1..n, i \notin S PROVE \E j \in 1..Len(a) : h[j] = i
          OBVIOUS
        <4>1. CASE i = n
          BY <2>2, <3>1, <3>4, <4>1
        <4>2. CASE i # n
          <5>1. i \in 1..(n - 1)
            BY <4>2
          <5>2. PICK j \in 1..Len(r) : g[j] = i
            BY <3>3, <5>1, Zenon
          <5> QED BY <2>2, <3>1, <3>4, <5>2
        <4> QED BY <4>1, <4>2
      <3>8. Left(l, S, a, n, h)
        BY <3>4, <3>5, <3>6, <3>7, Zenon DEF Left
      <3>9. F[n] = a
        BY <2>3, <2>5 DEF a
      <3> QED BY <2>2, <3>1, <3>8, <3>9, Zenon
    <2> QED BY <2>4, <2>5
  <1>6. Len(l) \in 0..Len(l)
    BY <1>2
  <1>7. Len(l) \in G
    <2> HIDE DEF G
    <2> QED BY <1>2, <1>4, <1>5, <1>6, UpTo, Zenon
  <1> QED BY <1>1, <1>7, Zenon

--------------------------------------------------------------------------------
(* FutexInv is inductive. *)

LEMMA FutexInitInv == FutexInit => FutexInv
  <1> SUFFICES ASSUME FutexInit PROVE FutexInv
    OBVIOUS
  <1>1. waiters = <<>> /\ before = {}
    BY DEF FutexInit
  <1>2. flag = [t \in Waiters |-> FALSE] /\ token = [t \in Waiters |-> FALSE]
    BY DEF FutexInit
  <1>3. /\ place \in [FutexThreads -> {"idle", "compare", "push", "parked", "check", "wake"}]
        /\ \A t \in Waiters : place[t] = "idle"
    BY DEF FutexInit, FutexThreads
  <1>4. call \in [Waiters -> [addr : Addrs \cup {{}}, expected : Words]]
    BY DEF FutexInit, NoCall, Words
  <1>5. flag \in [Waiters -> BOOLEAN] /\ token \in [Waiters -> BOOLEAN]
    BY <1>2, Zenon
  <1>6. waiters \in Seq(Entry) /\ Len(waiters) = 0 /\ DOMAIN waiters = {}
    BY <1>1
  <1>7. FutexTypes
    BY <1>1, <1>3, <1>4, <1>5, <1>6 DEF FutexTypes
  <1>8. \A t \in Waiters : Live(t) = {} /\ ~Asleep(t) /\ ~flag[t]
    BY <1>2, <1>3, <1>6 DEF Live, Asleep
  <1>9. EntryInv
    BY <1>3, <1>8, Zenon DEF EntryInv
  <1> QED BY <1>1, <1>7, <1>9 DEF FutexInv, OrderInv

\* A step that moves t and leaves the other waiters where they are.
LEMMA Moves ==
    ASSUME FutexTypes, NEW t \in Waiters, NEW from, NEW to, Goes(t, from, to)
    PROVE  /\ place[t] = from /\ place'[t] = to
           /\ \A u \in Waiters \ {t} : place'[u] = place[u]
  BY DEF FutexTypes, Goes, FutexThreads

LEMMA WakerMoves ==
    ASSUME FutexTypes, Waiters \cap Wakers = {}, NEW k \in Wakers, NEW from, NEW to,
           Goes(k, from, to)
    PROVE  \A u \in Waiters : place'[u] = place[u]
  BY DEF FutexTypes, Goes, FutexThreads

LEMMA Positions ==
    ASSUME FutexTypes
    PROVE  /\ Len(waiters) \in Nat /\ DOMAIN waiters = 1..Len(waiters)
           /\ \A i \in 1..Len(waiters) : waiters[i] \in Entry
           /\ \A t \in Waiters : Live(t) \subseteq 1..Len(waiters)
  BY DEF FutexTypes, Live

\* The steps of wait before the entry is pushed.
LEMMA AwakeStep ==
    ASSUME FutexInv, NEW t \in Waiters,
           (\E a \in Addrs, v \in Words : Wait(t, a, v)) \/ Compare(t)
    PROVE  EntryInv' /\ OrderInv'
  <1>1. /\ waiters' = waiters /\ flag' = flag /\ token' = token /\ before' = before
        /\ place[t] \in {"idle", "compare"} /\ place'[t] \in {"idle", "compare", "push"}
        /\ \A u \in Waiters \ {t} : place'[u] = place[u]
    <2>1. CASE \E a \in Addrs, v \in Words : Wait(t, a, v)
      <3>1. /\ waiters' = waiters /\ flag' = flag /\ token' = token /\ before' = before
            /\ Goes(t, "idle", "compare")
        BY <2>1 DEF Wait
      <3> QED BY <3>1, Moves, Zenon DEF FutexInv
    <2>2. CASE Compare(t)
      <3>1. /\ waiters' = waiters /\ flag' = flag /\ token' = token /\ before' = before
            /\ Goes(t, "compare", "push") \/ Goes(t, "compare", "idle")
        BY <2>2, Zenon DEF Compare
      <3> QED BY <3>1, Moves, Zenon DEF FutexInv
    <2> QED BY <2>1, <2>2, Zenon
  <1>2. ASSUME NEW u \in Waiters
        PROVE  /\ Live(u)' = Live(u) /\ Asleep(u)' = Asleep(u)
               /\ place'[u] # place[u] => place'[u] \in {"idle", "compare", "push"} /\ ~flag[u]
    BY <1>1, Zenon DEF FutexInv, EntryInv, Live, Asleep
  <1>3. EntryInv'
    BY <1>1, <1>2, Zenon DEF FutexInv, EntryInv
  <1>4. OrderInv'
    BY <1>1, <1>2, Zenon DEF FutexInv, OrderInv
  <1> QED BY <1>3, <1>4

LEMMA UnparkedStep ==
    ASSUME FutexInv, NEW t \in Waiters, Unparked(t)
    PROVE  EntryInv' /\ OrderInv'
  <1>1. /\ waiters' = waiters /\ flag' = flag /\ before' = before
        /\ token' = [token EXCEPT ![t] = FALSE]
        /\ Goes(t, "parked", "check")
    BY DEF Unparked
  <1>2. /\ place[t] = "parked" /\ place'[t] = "check"
        /\ \A u \in Waiters \ {t} : place'[u] = place[u]
    BY <1>1, Moves, Zenon DEF FutexInv
  <1>3. \A u \in Waiters \ {t} : token'[u] = token[u]
    BY <1>1 DEF FutexInv, FutexTypes
  <1>4. ASSUME NEW u \in Waiters
        PROVE  Live(u)' = Live(u) /\ Asleep(u)' = Asleep(u)
    BY <1>1, <1>2, Zenon DEF Live, Asleep
  <1>5. EntryInv'
    BY <1>1, <1>2, <1>3, <1>4, Zenon DEF FutexInv, EntryInv
  <1>6. OrderInv'
    BY <1>1, <1>4 DEF FutexInv, OrderInv
  <1> QED BY <1>5, <1>6

LEMMA PushStep ==
    ASSUME FutexInv, NEW t \in Waiters, Push(t)
    PROVE  waiters' \in Seq(Entry) /\ EntryInv' /\ OrderInv'
  <1> DEFINE e == [addr |-> call[t].addr, thread |-> t, live |-> TRUE]
             n == Len(waiters)
  <1>1. /\ waiters' = Append(waiters, e) /\ flag' = flag /\ token' = token
        /\ before' = before \cup ({u \in Waiters : Asleep(u)} \X {t})
        /\ Goes(t, "push", "parked")
    BY Zenon DEF Push
  <1>2. /\ place[t] = "push" /\ place'[t] = "parked"
        /\ \A u \in Waiters \ {t} : place'[u] = place[u]
    BY <1>1, Moves, Zenon DEF FutexInv
  <1>3. e \in Entry /\ e.thread = t /\ e.live
    BY <1>2 DEF FutexInv, FutexTypes, Entry
  <1>4. waiters \in Seq(Entry) /\ n \in Nat /\ DOMAIN waiters = 1..n
    BY Positions DEF FutexInv, FutexTypes
  <1> HIDE DEF e
  <1>5. /\ waiters' \in Seq(Entry) /\ Len(waiters') = n + 1
        /\ \A i \in 1..n : waiters'[i] = waiters[i]
        /\ waiters'[n + 1] = e /\ DOMAIN (waiters') = 1..(n + 1)
    <2>1. /\ Append(waiters, e) \in Seq(Entry) /\ Len(Append(waiters, e)) = n + 1
          /\ \A i \in 1..n : Append(waiters, e)[i] = waiters[i]
          /\ Append(waiters, e)[n + 1] = e /\ DOMAIN Append(waiters, e) = 1..(n + 1)
      <3>1. waiters \in Seq(Entry) /\ e \in Entry
        BY <1>3, <1>4, Zenon
      <3> HIDE DEF n
      <3>2. n = Len(waiters)
        BY DEF n
      <3>3. PICK l : l = Append(waiters, e)
        BY Zenon
      <3>4. /\ l \in Seq(Entry) /\ Len(l) = Len(waiters) + 1
            /\ \A i \in 1..Len(waiters) : l[i] = waiters[i]
            /\ l[Len(waiters) + 1] = e /\ DOMAIN l = 1..(Len(waiters) + 1)
        BY <3>1, <3>3, Appended, SMT
      <3> QED BY <3>2, <3>3, <3>4, Zenon
    <2> QED BY <1>1, <2>1, Zenon
  <1> HIDE DEF n
  <1>6. /\ 1..n \subseteq 1..(n + 1) /\ n + 1 \in 1..(n + 1) /\ n + 1 \notin 1..n
        /\ \A i \in 1..(n + 1) : i \in 1..n \/ i = n + 1
    BY <1>4, ToNext, Zenon
  <1>7. /\ ~flag[t] /\ ~Asleep(t) /\ Live(t) = {}
    BY <1>2, Zenon DEF FutexInv, EntryInv, Asleep
  <1>8. Live(t)' = {n + 1} /\ n + 1 \in 1..(n + 1)
    BY <1>3, <1>4, <1>5, <1>6, <1>7, Zenon DEF Live
  <1>9. ASSUME NEW u \in Waiters \ {t}
        PROVE  Live(u)' = Live(u) /\ Asleep(u)' = Asleep(u)
    <2>1. Live(u)' = Live(u)
      BY <1>3, <1>4, <1>5, <1>6, Zenon DEF Live
    <2>2. Asleep(u)' = Asleep(u)
      BY <1>1, <1>2, Zenon DEF Asleep
    <2> QED BY <2>1, <2>2
  <1>10. Asleep(t)'
    BY <1>1, <1>2, <1>7, Zenon DEF Asleep
  <1>11. EntryInv'
    <2> SUFFICES ASSUME NEW u \in Waiters
                 PROVE  /\ Asleep(u)' => \E i \in 1..Len(waiters') : Live(u)' = {i}
                        /\ ~Asleep(u)' => Live(u)' = {}
                        /\ place'[u] = "parked" /\ flag'[u] => token'[u]
                        /\ flag'[u] => place'[u] \in {"parked", "check"}
      BY Zenon DEF EntryInv
    <2>1. CASE u = t
      BY <1>1, <1>5, <1>7, <1>8, <1>10, <2>1, Zenon
    <2>2. CASE u # t
      <3>1. /\ Asleep(u) => \E i \in 1..n : Live(u) = {i}
            /\ ~Asleep(u) => Live(u) = {}
            /\ place[u] = "parked" /\ flag[u] => token[u]
            /\ flag[u] => place[u] \in {"parked", "check"}
        BY Zenon DEF FutexInv, EntryInv, n
      <3>2. Live(u)' = Live(u) /\ Asleep(u)' = Asleep(u) /\ place'[u] = place[u]
        BY <1>2, <1>9, <2>2, Zenon
      <3>3. \A i \in 1..n : i \in 1..Len(waiters')
        BY <1>4, <1>5
      <3> QED BY <1>1, <3>1, <3>2, <3>3, Zenon
    <2> QED BY <2>1, <2>2, Zenon
  <1>12. OrderInv'
    <2> SUFFICES ASSUME NEW u \in Waiters, NEW v \in Waiters, <<u, v>> \in before'
                 PROVE  /\ Asleep(u)' /\ Asleep(v)'
                        /\ \A i \in Live(u)', j \in Live(v)' : i < j
      BY DEF OrderInv
    <2>1. CASE <<u, v>> \in before
      <3>1. /\ Asleep(u) /\ Asleep(v)
            /\ \A i \in Live(u), j \in Live(v) : i < j
        BY <2>1 DEF FutexInv, OrderInv
      <3>2. u # t /\ v # t
        BY <1>7, <3>1
      <3> QED BY <1>9, <3>1, <3>2
    <2>2. CASE Asleep(u) /\ v = t
      <3>1. u # t
        BY <1>7, <2>2
      <3>2. Live(u)' = Live(u) /\ Live(u) \subseteq 1..n /\ Asleep(u)'
        BY <1>9, <2>2, <3>1, Positions DEF FutexInv, n
      <3>3. \A i \in 1..n : i < n + 1
        BY <1>4
      <3> QED BY <1>8, <1>10, <2>2, <3>2, <3>3
    <2> QED BY <1>1, <2>1, <2>2
  <1> QED BY <1>5, <1>11, <1>12

LEMMA ReturnStep ==
    ASSUME FutexInv, NEW t \in Waiters, WaitReturn(t)
    PROVE  waiters' \in Seq(Entry) /\ EntryInv' /\ OrderInv'
  <1> DEFINE n == Len(waiters)
  <1>1. /\ waiters' = [i \in DOMAIN waiters |->
                          IF waiters[i].thread = t THEN [waiters[i] EXCEPT !.live = FALSE]
                                                   ELSE waiters[i]]
        /\ flag' = [flag EXCEPT ![t] = FALSE] /\ token' = token
        /\ before' = before \cap ((Waiters \ {t}) \X (Waiters \ {t}))
        /\ Goes(t, "check", "idle")
    BY DEF WaitReturn
  <1>2. /\ place[t] = "check" /\ place'[t] = "idle"
        /\ \A u \in Waiters \ {t} : place'[u] = place[u]
    BY <1>1, Moves DEF FutexInv
  <1>3. /\ n \in Nat /\ DOMAIN waiters = 1..n
        /\ \A i \in 1..n : waiters[i] \in Entry
    BY Positions DEF FutexInv
  <1>4. /\ ~flag'[t] /\ \A u \in Waiters \ {t} : flag'[u] = flag[u]
    BY <1>1 DEF FutexInv, FutexTypes
  <1> HIDE DEF n
  <1>5. ASSUME NEW i \in 1..n
        PROVE  /\ waiters'[i] \in Entry /\ waiters'[i].thread = waiters[i].thread
               /\ waiters'[i].live = (waiters[i].live /\ waiters[i].thread # t)
    <2>1. waiters'[i] = IF waiters[i].thread = t THEN [waiters[i] EXCEPT !.live = FALSE]
                                                 ELSE waiters[i]
      BY <1>1, <1>3
    <2>2. waiters[i] \in Entry
      BY <1>3
    <2> QED BY <2>1, <2>2, Zenon DEF Entry
  <1>6. waiters' \in Seq(Entry) /\ DOMAIN (waiters') = 1..n /\ Len(waiters') = n
    <2>1. waiters' \in [1..n -> Entry]
      BY <1>1, <1>3, <1>5, Zenon
    <2> QED BY <1>3, <2>1
  <1>7. Live(t)' = {} /\ ~Asleep(t)'
    BY <1>2, <1>5, <1>6, Zenon DEF Live, Asleep
  <1>8. ASSUME NEW u \in Waiters \ {t}
        PROVE  Live(u)' = Live(u) /\ Asleep(u)' = Asleep(u)
    <2>1. Live(u)' = Live(u)
      BY <1>3, <1>5, <1>6, Zenon DEF Live
    <2>2. Asleep(u)' = Asleep(u)
      BY <1>2, <1>4, Zenon DEF Asleep
    <2> QED BY <2>1, <2>2
  <1>9. EntryInv'
    <2> SUFFICES ASSUME NEW u \in Waiters
                 PROVE  /\ Asleep(u)' => \E i \in 1..Len(waiters') : Live(u)' = {i}
                        /\ ~Asleep(u)' => Live(u)' = {}
                        /\ place'[u] = "parked" /\ flag'[u] => token'[u]
                        /\ flag'[u] => place'[u] \in {"parked", "check"}
      BY Zenon DEF EntryInv
    <2>1. CASE u = t
      BY <1>4, <1>7, <2>1, Zenon
    <2>2. CASE u # t
      <3>1. /\ Asleep(u) => \E i \in 1..n : Live(u) = {i}
            /\ ~Asleep(u) => Live(u) = {}
            /\ place[u] = "parked" /\ flag[u] => token[u]
            /\ flag[u] => place[u] \in {"parked", "check"}
        BY Zenon DEF FutexInv, EntryInv, n
      <3>2. /\ Live(u)' = Live(u) /\ Asleep(u)' = Asleep(u)
            /\ place'[u] = place[u] /\ flag'[u] = flag[u]
        BY <1>2, <1>4, <1>8, <2>2, Zenon
      <3> QED BY <1>1, <1>6, <3>1, <3>2
    <2> QED BY <2>1, <2>2, Zenon
  <1>10. OrderInv'
    <2> SUFFICES ASSUME NEW u \in Waiters, NEW v \in Waiters, <<u, v>> \in before'
                 PROVE  /\ Asleep(u)' /\ Asleep(v)'
                        /\ \A i \in Live(u)', j \in Live(v)' : i < j
      BY DEF OrderInv
    <2>1. <<u, v>> \in before /\ u # t /\ v # t
      BY <1>1
    <2>2. /\ Asleep(u) /\ Asleep(v)
          /\ \A i \in Live(u), j \in Live(v) : i < j
      BY <2>1 DEF FutexInv, OrderInv
    <2> QED BY <1>8, <2>1, <2>2
  <1> QED BY <1>6, <1>9, <1>10

\* wake and requeue: the entries at positions S are signalled and dropped from r,
\* which is the list with some addresses changed.
LEMMA SignalledStep ==
    ASSUME FutexInv, NEW r \in Seq(Entry), Len(r) = Len(waiters),
           \A i \in 1..Len(r) : /\ r[i].thread = waiters[i].thread
                               /\ r[i].live = waiters[i].live,
           NEW S \in SUBSET (1..Len(waiters)), Signal(S),
           waiters' = Without(r, S), \A t \in Waiters : place'[t] = place[t]
    PROVE  waiters' \in Seq(Entry) /\ EntryInv' /\ OrderInv'
  <1> DEFINE w == waiters'
  <1>1. PICK g : Left(r, S, w, Len(r), g)
    BY WithoutIs, Zenon
  <1>2. w \in Seq(Entry)
    BY WithoutIs, Zenon
  <1>3. Len(w) \in Nat /\ DOMAIN w = 1..Len(w)
    BY <1>2
  <1>4. /\ g \in [1..Len(w) -> 1..Len(waiters)]
        /\ \A j \in 1..Len(w) : w[j] = r[g[j]] /\ g[j] \notin S
        /\ \A j, k \in 1..Len(w) : j < k => g[j] < g[k]
        /\ \A i \in 1..Len(waiters) : i \notin S => \E j \in 1..Len(w) : g[j] = i
    BY <1>1, Zenon DEF Left
  <1>5. \A j \in 1..Len(w) :
           /\ g[j] \in 1..Len(waiters)
           /\ w[j].thread = waiters[g[j]].thread /\ w[j].live = waiters[g[j]].live
    <2> SUFFICES ASSUME NEW j \in 1..Len(w)
                 PROVE  /\ g[j] \in 1..Len(waiters)
                        /\ w[j].thread = waiters[g[j]].thread
                        /\ w[j].live = waiters[g[j]].live
      BY Zenon
    <2>1. g[j] \in 1..Len(waiters) /\ g[j] \in 1..Len(r) /\ w[j] = r[g[j]]
      BY <1>4, Zenon
    <2> QED BY <2>1, Zenon
  <1>6. /\ Len(waiters) \in Nat /\ DOMAIN waiters = 1..Len(waiters)
        /\ \A t \in Waiters : Live(t) \subseteq 1..Len(waiters)
    BY Positions, Zenon DEF FutexInv
  <1>7. ASSUME NEW t \in Waiters, NEW j
        PROVE  j \in Live(t)' <=> j \in 1..Len(w) /\ g[j] \in Live(t)
    BY <1>3, <1>5, <1>6, Zenon DEF Live
  <1>8. \A t \in Waiters :
           /\ flag'[t] <=> flag[t] \/ \E i \in S : i \in Live(t)
           /\ (token[t] \/ \E i \in S : i \in Live(t)) => token'[t]
    <2>1. \A t \in Waiters :
             /\ flag'[t] <=> flag[t] \/ \E i \in S : waiters[i].thread = t /\ waiters[i].live
             /\ token'[t] <=> token[t] \/ \E i \in S : waiters[i].thread = t
      BY Zenon DEF Signal
    <2>2. ASSUME NEW t \in Waiters, NEW i \in S
          PROVE  i \in Live(t) <=> waiters[i].thread = t /\ waiters[i].live
      <3>1. i \in DOMAIN waiters
        BY <1>6, Zenon
      <3> QED BY <3>1, Zenon DEF Live
    <2>3. ASSUME NEW t \in Waiters
          PROVE  (\E i \in S : waiters[i].thread = t /\ waiters[i].live)
                   <=> \E i \in S : i \in Live(t)
      BY <2>2, Zenon
    <2>4. ASSUME NEW t \in Waiters, \E i \in S : i \in Live(t)
          PROVE  \E i \in S : waiters[i].thread = t
      BY <2>2, <2>4, Zenon
    <2> QED BY <2>1, <2>3, <2>4, Zenon
  <1> HIDE DEF w
  <1>9. ASSUME NEW j \in 1..Len(w), NEW k \in 1..Len(w), g[j] = g[k] PROVE j = k
    <2>1. j \in Nat /\ k \in Nat /\ g[j] \in Nat
      BY <1>3, <1>5, <1>6, PositionsNat, Zenon
    <2>2. ~(g[j] < g[k]) /\ ~(g[k] < g[j])
      BY <1>9, <2>1, Ordered, Zenon
    <2>3. ~(j < k) /\ ~(k < j)
      BY <1>4, <2>2, Zenon
    <2> QED BY <2>1, <2>3
  <1>10. ASSUME NEW t \in Waiters
         PROVE  /\ Asleep(t)' => \E j \in 1..Len(w) : Live(t)' = {j}
                /\ ~Asleep(t)' => Live(t)' = {}
                /\ place'[t] = "parked" /\ flag'[t] => token'[t]
                /\ flag'[t] => place'[t] \in {"parked", "check"}
    <2>1. /\ Asleep(t) => \E i \in 1..Len(waiters) : Live(t) = {i}
          /\ ~Asleep(t) => Live(t) = {}
          /\ place[t] = "parked" /\ flag[t] => token[t]
          /\ flag[t] => place[t] \in {"parked", "check"}
      BY Zenon DEF FutexInv, EntryInv
    <2>2. CASE ~Asleep(t)
      <3>1. Live(t)' = {}
        BY <1>7, <2>1, <2>2, Zenon
      <3>2. (flag'[t] <=> flag[t]) /\ (token[t] => token'[t])
        BY <1>8, <2>1, <2>2, Zenon
      <3>3. ~Asleep(t)'
        BY <2>2, <3>2, Zenon DEF Asleep
      <3> QED BY <2>1, <3>1, <3>2, <3>3, Zenon
    <2>3. CASE Asleep(t)
      <3>1. PICK i \in 1..Len(waiters) : Live(t) = {i}
        BY <2>1, <2>3, Zenon
      <3>2. place[t] \in {"parked", "check"} /\ ~flag[t]
        BY <2>3, Zenon DEF Asleep
      <3>3. CASE i \in S
        <4>1. flag'[t] /\ token'[t]
          BY <1>8, <3>1, <3>3, Zenon
        <4>2. ASSUME NEW j PROVE j \notin Live(t)'
          <5>1. j \in 1..Len(w) => g[j] # i
            BY <1>4, <3>3, Zenon
          <5> QED BY <1>7, <3>1, <5>1, Zenon
        <4>3. ~Asleep(t)'
          BY <4>1, Zenon DEF Asleep
        <4> QED BY <3>2, <4>1, <4>2, <4>3, Zenon
      <3>4. CASE i \notin S
        <4>1. ~flag'[t]
          BY <1>8, <3>1, <3>2, <3>4, Zenon
        <4>2. PICK j \in 1..Len(w) : g[j] = i
          BY <1>4, <3>4, Zenon
        <4>3. j \in Live(t)'
          BY <1>7, <3>1, <4>2, Zenon
        <4>4. Live(t)' = {j}
          <5>1. ASSUME NEW k \in Live(t)' PROVE k = j
            <6>1. k \in 1..Len(w) /\ g[k] = i
              BY <1>7, <3>1, Zenon
            <6> QED BY <1>9, <4>2, <6>1, Zenon
          <5> QED BY <4>3, <5>1, Zenon
        <4>5. Asleep(t)'
          BY <3>2, <4>1, Zenon DEF Asleep
        <4> QED BY <4>1, <4>4, <4>5, Zenon
      <3> QED BY <3>3, <3>4, Zenon
    <2> QED BY <2>2, <2>3, Zenon
  <1>11. EntryInv'
    BY <1>10, Zenon DEF EntryInv, w
  <1>12. OrderInv'
    <2> SUFFICES ASSUME NEW u \in Waiters, NEW v \in Waiters, <<u, v>> \in before'
                 PROVE  /\ Asleep(u)' /\ Asleep(v)'
                        /\ \A i \in Live(u)', j \in Live(v)' : i < j
      BY Zenon DEF OrderInv
    <2>1. <<u, v>> \in before /\ ~flag'[u] /\ ~flag'[v]
      BY Zenon DEF Signal
    <2>2. /\ Asleep(u) /\ Asleep(v)
          /\ \A i \in Live(u), j \in Live(v) : i < j
      BY <2>1, Zenon DEF FutexInv, OrderInv
    <2>3. Asleep(u)' /\ Asleep(v)'
      BY <2>1, <2>2, Zenon DEF Asleep
    <2>4. ASSUME NEW i \in Live(u)', NEW j \in Live(v)' PROVE i < j
      <3>1. i \in 1..Len(w) /\ j \in 1..Len(w) /\ g[i] < g[j]
        BY <1>7, <2>2, Zenon
      <3>2. i \in Nat /\ j \in Nat /\ g[i] \in Nat /\ g[j] \in Nat
        BY <1>3, <1>5, <1>6, <3>1, PositionsNat, Zenon
      <3>3. ~(g[j] < g[i]) /\ g[i] # g[j]
        BY <3>1, <3>2, Ordered, Zenon
      <3>4. ~(j < i) /\ i # j
        BY <1>4, <3>1, <3>3, Zenon
      <3> QED BY <3>2, <3>4, Ordered, Zenon
    <2> QED BY <2>3, <2>4, Zenon
  <1> QED BY <1>2, <1>11, <1>12, Zenon DEF w

LEMMA Targets ==
    ASSUME FutexInv, NEW A, NEW skip, NEW count
    PROVE  Entries(A, skip, count) \in SUBSET (1..Len(waiters))
  BY Positions DEF FutexInv, Entries

\* The entries that requeue moves change nothing but their address.
LEMMA MovedIs ==
    ASSUME FutexInv, NEW M, NEW dst \in Addrs
    PROVE  LET r == Moved(M, dst)
           IN  /\ r \in Seq(Entry) /\ Len(r) = Len(waiters)
               /\ \A i \in 1..Len(r) : /\ r[i].thread = waiters[i].thread
                                      /\ r[i].live = waiters[i].live
  <1> DEFINE r == Moved(M, dst)
             n == Len(waiters)
  <1>1. /\ n \in Nat /\ DOMAIN waiters = 1..n
        /\ \A i \in 1..n : waiters[i] \in Entry
    BY Positions DEF FutexInv
  <1>2. r = [i \in 1..n |-> IF i \in M THEN [waiters[i] EXCEPT !.addr = dst] ELSE waiters[i]]
    BY <1>1, Zenon DEF Moved
  <1> HIDE DEF r, n
  <1>3. ASSUME NEW i \in 1..n
        PROVE  /\ r[i] \in Entry /\ r[i].thread = waiters[i].thread
               /\ r[i].live = waiters[i].live
    <2>1. r[i] = IF i \in M THEN [waiters[i] EXCEPT !.addr = dst] ELSE waiters[i]
      BY <1>2, Zenon
    <2>2. waiters[i] \in Entry
      BY <1>1
    <2> QED BY <2>1, <2>2, Zenon DEF Entry
  <1>4. r \in Seq(Entry) /\ Len(r) = n
    <2>1. r \in [1..n -> Entry]
      BY <1>2, <1>3, Zenon
    <2> QED BY <1>1, <2>1
  <1> QED BY <1>3, <1>4, Zenon DEF r, n

LEMMA WokenStep ==
    ASSUME FutexInv, Waiters \cap Wakers = {}, NEW k \in Wakers, NEW c \in 0..MaxCount,
           Wake(k, c)
    PROVE  waiters' \in Seq(Entry) /\ EntryInv' /\ OrderInv'
  <1> DEFINE S == Entries(wakeAt[k], 0, c)
  <1>1. /\ Goes(k, "wake", "idle") /\ Signal(S)
        /\ waiters' = Without(waiters, S)
    BY DEF Wake
  <1>2. S \in SUBSET (1..Len(waiters))
    BY Targets, Zenon
  <1> HIDE DEF S
  <1>3. \A t \in Waiters : place'[t] = place[t]
    BY <1>1, WakerMoves, Zenon DEF FutexInv
  <1>4. waiters \in Seq(Entry)
    BY DEF FutexInv, FutexTypes
  <1> QED BY <1>1, <1>2, <1>3, <1>4, SignalledStep, Zenon

LEMMA RequeueStep ==
    ASSUME FutexInv, Waiters \cap Wakers = {}, NEW k \in Wakers, NEW dst \in Addrs,
           NEW wk \in 0..MaxCount, NEW mv \in 0..MaxCount, Requeue(k, dst, wk, mv)
    PROVE  waiters' \in Seq(Entry) /\ EntryInv' /\ OrderInv'
  <1> DEFINE S == Entries(wakeAt[k], 0, wk)
             r == Moved(Entries(wakeAt[k], wk, mv), dst)
  <1>1. /\ Goes(k, "wake", "idle") /\ Signal(S)
        /\ waiters' = Without(r, S)
    BY Zenon DEF Requeue
  <1>2. S \in SUBSET (1..Len(waiters))
    BY Targets, Zenon
  <1>3. /\ r \in Seq(Entry) /\ Len(r) = Len(waiters)
        /\ \A i \in 1..Len(r) : r[i].thread = waiters[i].thread /\ r[i].live = waiters[i].live
    BY MovedIs, Zenon
  <1> HIDE DEF S, r
  <1>4. \A t \in Waiters : place'[t] = place[t]
    BY <1>1, WakerMoves, Zenon DEF FutexInv
  <1> QED BY <1>1, <1>2, <1>3, <1>4, SignalledStep, Zenon

\* Steps that change neither the list nor where a waiter is.
LEMMA StoreStep ==
    ASSUME FutexInv, UNCHANGED <<waiters, flag, token, before>>,
           \A t \in Waiters : place'[t] = place[t]
    PROVE  EntryInv' /\ OrderInv'
  <1>1. \A t \in Waiters : Live(t)' = Live(t) /\ Asleep(t)' = Asleep(t)
    BY Zenon DEF Live, Asleep
  <1>2. EntryInv'
    BY <1>1, Zenon DEF FutexInv, EntryInv
  <1>3. OrderInv'
    BY <1>1, Zenon DEF FutexInv, OrderInv
  <1> QED BY <1>2, <1>3, Zenon

LEMMA FutexTypeStep ==
    ASSUME FutexInv, waiters' \in Seq(Entry), [FutexNext]_futexVars, Waiters \cap Wakers = {}
    PROVE  FutexTypes'
  <1> DEFINE Places == {"idle", "compare", "push", "parked", "check", "wake"}
             CallOK == /\ call \in [Waiters -> [addr : Addrs \cup {{}}, expected : Words]]
                       /\ \A t \in Waiters :
                             place[t] \in {"compare", "push"} => call[t].addr \in Addrs
  <1>1. /\ flag \in [Waiters -> BOOLEAN] /\ token \in [Waiters -> BOOLEAN]
        /\ place \in [FutexThreads -> Places] /\ before \subseteq Waiters \X Waiters /\ CallOK
    BY DEF FutexInv, FutexTypes
  <1> DEFINE Goal == /\ flag' \in [Waiters -> BOOLEAN] /\ token' \in [Waiters -> BOOLEAN]
                     /\ place' \in [FutexThreads -> Places]
                     /\ before' \subseteq Waiters \X Waiters /\ CallOK'
  <1>2. ASSUME NEW t \in FutexThreads, NEW from, NEW to \in Places, Goes(t, from, to)
        PROVE  place' \in [FutexThreads -> Places]
    BY <1>1, <1>2, Zenon DEF Goes
  <1>3. Waiters \subseteq FutexThreads /\ Wakers \subseteq FutexThreads
    BY DEF FutexThreads
  <1>4. ASSUME NEW t \in Waiters, NEW a \in Addrs, NEW v \in Words, Wait(t, a, v)
        PROVE  Goal
    <2>1. /\ flag' = flag /\ token' = token /\ before' = before
          /\ Goes(t, "idle", "compare")
          /\ call' = [call EXCEPT ![t] = [addr |-> a, expected |-> v]]
      BY <1>4, Zenon DEF Wait
    <2>2. place' \in [FutexThreads -> Places]
      BY <1>2, <1>3, <2>1, Zenon
    <2>3. \A u \in Waiters \ {t} : place'[u] = place[u] /\ call'[u] = call[u]
      BY <1>1, <2>1, Moves, Zenon DEF FutexInv
    <2>4. CallOK'
      BY <1>1, <2>1, <2>3, Zenon
    <2> QED BY <1>1, <2>1, <2>2, <2>4, Zenon
  <1>5. ASSUME NEW t \in Waiters, Compare(t) PROVE Goal
    <2>1. /\ flag' = flag /\ token' = token /\ before' = before
          /\ \/ Goes(t, "compare", "push") /\ call' = call
             \/ Goes(t, "compare", "idle") /\ call' = [call EXCEPT ![t] = NoCall]
      BY <1>5, Zenon DEF Compare
    <2>2. place' \in [FutexThreads -> Places]
      BY <1>2, <1>3, <2>1
    <2>3. /\ place[t] = "compare" /\ place'[t] # "compare"
          /\ \A u \in Waiters \ {t} : place'[u] = place[u]
      <3>1. CASE Goes(t, "compare", "push")
        <4>1. "compare" # "push"
          OBVIOUS
        <4> QED BY <3>1, <4>1, Moves, Zenon DEF FutexInv
      <3>2. CASE Goes(t, "compare", "idle")
        <4>1. "compare" # "idle"
          OBVIOUS
        <4> QED BY <3>2, <4>1, Moves, Zenon DEF FutexInv
      <3> QED BY <2>1, <3>1, <3>2, Zenon
    <2>4. CallOK'
      <3>1. CASE call' = call
        BY <1>1, <2>3, <3>1, Zenon
      <3>2. CASE /\ call' = [call EXCEPT ![t] = NoCall]
                 /\ Goes(t, "compare", "idle")
        <4>1. /\ place'[t] = "idle" /\ \A u \in Waiters \ {t} : call'[u] = call[u]
          BY <1>1, <3>2, Moves, Zenon DEF FutexInv
        <4> QED BY <1>1, <2>3, <3>2, <4>1, Zenon DEF NoCall, Words
      <3> QED BY <2>1, <3>1, <3>2, Zenon
    <2> QED BY <1>1, <2>1, <2>2, <2>4, Zenon
  <1>6. ASSUME NEW t \in Waiters, Push(t) PROVE Goal
    <2>1. /\ flag' = flag /\ token' = token /\ Goes(t, "push", "parked") /\ call' = call
          /\ before' = before \cup ({u \in Waiters : Asleep(u)} \X {t})
      BY <1>6, Zenon DEF Push
    <2>2. place' \in [FutexThreads -> Places]
      BY <1>2, <1>3, <2>1, Zenon
    <2>3. CallOK'
      BY <1>1, <2>1, Moves, Zenon DEF FutexInv
    <2>4. before' \subseteq Waiters \X Waiters
      BY <1>1, <2>1
    <2> QED BY <1>1, <2>1, <2>2, <2>3, <2>4, Zenon
  <1>7. ASSUME NEW t \in Waiters, Unparked(t) PROVE Goal
    <2>1. /\ flag' = flag /\ token' = [token EXCEPT ![t] = FALSE] /\ before' = before
          /\ Goes(t, "parked", "check") /\ call' = call
      BY <1>7 DEF Unparked
    <2>2. place' \in [FutexThreads -> Places]
      BY <1>2, <1>3, <2>1
    <2>3. CallOK'
      <3>1. place'[t] = "check" /\ \A u \in Waiters \ {t} : place'[u] = place[u]
        BY <2>1, Moves, Zenon DEF FutexInv
      <3> QED BY <1>1, <2>1, <3>1, Zenon
    <2>4. token' \in [Waiters -> BOOLEAN]
      BY <1>1, <2>1
    <2> QED BY <1>1, <2>1, <2>2, <2>3, <2>4, Zenon
  <1>8. ASSUME NEW t \in Waiters, WaitReturn(t) PROVE Goal
    <2>1. /\ flag' = [flag EXCEPT ![t] = FALSE] /\ token' = token
          /\ before' = before \cap ((Waiters \ {t}) \X (Waiters \ {t}))
          /\ Goes(t, "check", "idle") /\ call' = [call EXCEPT ![t] = NoCall]
      BY <1>8 DEF WaitReturn
    <2>2. place' \in [FutexThreads -> Places]
      BY <1>2, <1>3, <2>1
    <2>3. /\ place'[t] = "idle" /\ \A u \in Waiters \ {t} : place'[u] = place[u] /\ call'[u] = call[u]
      BY <1>1, <2>1, Moves, Zenon DEF FutexInv
    <2>4. CallOK'
      BY <1>1, <2>1, <2>3, Zenon DEF NoCall, Words
    <2>5. flag' \in [Waiters -> BOOLEAN] /\ before' \subseteq Waiters \X Waiters
      BY <1>1, <2>1
    <2> QED BY <1>1, <2>1, <2>2, <2>4, <2>5, Zenon
  <1>9. ASSUME NEW k \in Wakers, NEW a \in Addrs, NEW v \in Words, Store(k, a, v)
        PROVE  Goal
    <2>1. /\ flag' = flag /\ token' = token /\ before' = before /\ call' = call
          /\ Goes(k, "idle", "wake")
      BY <1>9 DEF Store
    <2>2. place' \in [FutexThreads -> Places]
      BY <1>2, <1>3, <2>1
    <2>3. CallOK'
      BY <1>1, <2>1, WakerMoves, Zenon DEF FutexInv
    <2> QED BY <1>1, <2>1, <2>2, <2>3, Zenon
  <1>10. ASSUME NEW k \in Wakers, NEW S, Signal(S), Goes(k, "wake", "idle"), call' = call
         PROVE  Goal
    <2>1. place' \in [FutexThreads -> Places]
      BY <1>2, <1>3, <1>10
    <2>2. CallOK'
      BY <1>1, <1>10, WakerMoves, Zenon DEF FutexInv
    <2>3. /\ flag' \in [Waiters -> BOOLEAN] /\ token' \in [Waiters -> BOOLEAN]
          /\ before' \subseteq before
      BY <1>10, Zenon DEF Signal
    <2> QED BY <1>1, <2>1, <2>2, <2>3, Zenon
  <1>11. ASSUME NEW k \in Wakers, NEW c \in 0..MaxCount, Wake(k, c) PROVE Goal
    BY <1>10, <1>11, Zenon DEF Wake
  <1>12. ASSUME NEW k \in Wakers, NEW dst \in Addrs, NEW wk \in 0..MaxCount,
                NEW mv \in 0..MaxCount, Requeue(k, dst, wk, mv)
         PROVE  Goal
    BY <1>10, <1>12, Zenon DEF Requeue
  <1>13. ASSUME UNCHANGED futexVars PROVE Goal
    BY <1>1, <1>13, Zenon DEF futexVars
  <1>14. Goal
    <2> HIDE DEF Goal
    <2> QED BY <1>4, <1>5, <1>6, <1>7, <1>8, <1>9, <1>11, <1>12, <1>13, Zenon DEF FutexNext
  <1> QED BY <1>14, Zenon DEF FutexTypes

LEMMA FutexStep ==
    ASSUME FutexInv, [FutexNext]_futexVars
    PROVE  FutexInv'
  <1> DEFINE Goal == waiters' \in Seq(Entry) /\ EntryInv' /\ OrderInv'
  <1>1. Waiters \cap Wakers = {} /\ waiters \in Seq(Entry)
    BY FutexAssumption DEF FutexInv, FutexTypes
  <1>2. ASSUME NEW t \in Waiters, NEW a \in Addrs, NEW v \in Words, Wait(t, a, v)
        PROVE  Goal
    <2>1. waiters' = waiters
      BY <1>2 DEF Wait
    <2> QED BY <1>1, <1>2, <2>1, AwakeStep, Zenon
  <1>3. ASSUME NEW t \in Waiters, Compare(t) PROVE Goal
    <2>1. waiters' = waiters
      BY <1>3, Zenon DEF Compare
    <2> QED BY <1>1, <1>3, <2>1, AwakeStep, Zenon
  <1>4. ASSUME NEW t \in Waiters, Push(t) PROVE Goal
    BY <1>4, PushStep, Zenon
  <1>5. ASSUME NEW t \in Waiters, Unparked(t) PROVE Goal
    <2>1. waiters' = waiters
      BY <1>5 DEF Unparked
    <2> QED BY <1>1, <1>5, <2>1, UnparkedStep, Zenon
  <1>6. ASSUME NEW t \in Waiters, WaitReturn(t) PROVE Goal
    BY <1>6, ReturnStep, Zenon
  <1>7. ASSUME NEW k \in Wakers, NEW a \in Addrs, NEW v \in Words, Store(k, a, v)
        PROVE  Goal
    <2>1. UNCHANGED <<waiters, flag, token, before>> /\ Goes(k, "idle", "wake")
      BY <1>7 DEF Store
    <2>2. \A t \in Waiters : place'[t] = place[t]
      BY <1>1, <2>1, WakerMoves, Zenon DEF FutexInv
    <2> QED BY <1>1, <2>1, <2>2, StoreStep, Zenon
  <1>8. ASSUME NEW k \in Wakers, NEW c \in 0..MaxCount, Wake(k, c) PROVE Goal
    BY <1>1, <1>8, WokenStep, Zenon
  <1>9. ASSUME NEW k \in Wakers, NEW dst \in Addrs, NEW wk \in 0..MaxCount,
               NEW mv \in 0..MaxCount, Requeue(k, dst, wk, mv)
        PROVE  Goal
    BY <1>1, <1>9, RequeueStep, Zenon
  <1>10. ASSUME UNCHANGED futexVars PROVE Goal
    <2>1. UNCHANGED <<waiters, flag, token, before>> /\ place' = place
      BY <1>10 DEF futexVars
    <2> QED BY <1>1, <2>1, StoreStep
  <1>11. Goal
    <2> HIDE DEF Goal
    <2> QED BY <1>2, <1>3, <1>4, <1>5, <1>6, <1>7, <1>8, <1>9, <1>10, Zenon DEF FutexNext
  <1> QED BY <1>1, <1>11, FutexTypeStep, Zenon DEF FutexInv

\* FutexBucket::wait cannot lose its sleeper, for any waiters, wakers, addresses
\* and counts: while a thread is parked the list holds exactly one live entry for
\* it, or its flag is set, no entry is left and its token is there.
THEOREM SleepersReachable ==
    FutexSpec => []SleeperReachable
  <1>1. FutexInv /\ [FutexNext]_futexVars => FutexInv'
    BY FutexStep
  <1>2. FutexInv => SleeperReachable
    <2> SUFFICES ASSUME FutexInv, NEW t \in Waiters, place[t] = "parked"
                 PROVE  IF flag[t] THEN Live(t) = {} /\ token[t]
                                   ELSE Cardinality(Live(t)) = 1
      BY Zenon DEF SleeperReachable
    <2>1. CASE flag[t]
      BY <2>1, Zenon DEF FutexInv, EntryInv, Asleep
    <2>2. CASE ~flag[t]
      <3>1. PICK i \in 1..Len(waiters) : Live(t) = {i}
        BY <2>2, Zenon DEF FutexInv, EntryInv, Asleep
      <3>2. Cardinality({i}) = 1
        BY FS_Singleton, Zenon
      <3> QED BY <2>2, <3>1, <3>2, Zenon
    <2> QED BY <2>1, <2>2, Zenon
  <1> QED BY FutexInitInv, <1>1, <1>2, PTL DEF FutexSpec

\* The entries of one address that stand before a position, and before a later one.
LEMMA AheadGrows ==
    ASSUME NEW A, NEW i \in Nat, NEW j \in Nat, i <= j
    PROVE  Ahead(A, i) \in Nat /\ Ahead(A, j) \in Nat /\ Ahead(A, i) <= Ahead(A, j)
  <1> DEFINE P(x) == {y \in 1..(x - 1) : waiters[y].addr \in A}
  <1>1. IsFiniteSet(1..(j - 1))
    BY FS_Interval
  <1>2. P(j) \subseteq 1..(j - 1) /\ P(i) \subseteq P(j)
    OBVIOUS
  <1> HIDE DEF P
  <1>3. IsFiniteSet(P(j))
    BY <1>1, <1>2, FS_Subset, Zenon
  <1>4. IsFiniteSet(P(i)) /\ Cardinality(P(i)) <= Cardinality(P(j))
    BY <1>2, <1>3, FS_Subset, Zenon
  <1>5. Cardinality(P(i)) \in Nat /\ Cardinality(P(j)) \in Nat
    BY <1>3, <1>4, FS_CardinalityType, Zenon
  <1> QED BY <1>4, <1>5, Zenon DEF Ahead, P

\* Of two sleepers at one address a wake that reaches the later one reaches the
\* earlier one.
LEMMA SignalInOrder ==
    ASSUME FutexInv, NEW A, NEW c \in Nat, Signal(Entries(A, 0, c)),
           NEW t \in Waiters, NEW u \in Waiters, <<t, u>> \in before,
           NEW i \in Live(t), NEW j \in Live(u),
           waiters[i].addr = waiters[j].addr, ~flag[u], flag'[u]
    PROVE  flag'[t]
  <1> DEFINE S == Entries(A, 0, c)
  <1>1. /\ Live(t) \subseteq 1..Len(waiters) /\ Live(u) \subseteq 1..Len(waiters)
        /\ Len(waiters) \in Nat /\ DOMAIN waiters = 1..Len(waiters)
    BY Positions, Zenon DEF FutexInv
  <1>2. i \in Nat /\ j \in Nat /\ i < j /\ i \in DOMAIN waiters /\ j \in DOMAIN waiters
    BY <1>1, PositionsNat, Zenon DEF FutexInv, OrderInv
  <1>3. j \in S
    <2>1. PICK x \in S : waiters[x].thread = u /\ waiters[x].live
      BY Zenon DEF Signal
    <2>2. x \in Live(u)
      BY <2>1, Zenon DEF Live, Entries
    <2>3. PICK y : Live(u) = {y}
      BY Zenon DEF FutexInv, OrderInv, EntryInv
    <2> HIDE DEF S
    <2>4. x = j
      BY <2>2, <2>3, Zenon
    <2> QED BY <2>1, <2>4, Zenon
  <1>4. waiters[j].addr \in A /\ Ahead(A, j) \in 0..(0 + c - 1)
    BY <1>3, Zenon DEF Entries
  <1>5. Ahead(A, i) \in 0..(0 + c - 1)
    <2>1. Ahead(A, i) \in Nat /\ Ahead(A, j) \in Nat /\ Ahead(A, i) <= Ahead(A, j)
      <3>1. i <= j
        BY <1>2, Ordered, Zenon
      <3> QED BY <1>2, <3>1, AheadGrows, Zenon
    <2> QED BY <1>4, <2>1, Below, Zenon
  <1>6. i \in S
    BY <1>2, <1>4, <1>5, Zenon DEF Entries
  <1>7. waiters[i].thread = t /\ waiters[i].live
    BY Zenon DEF Live
  <1> HIDE DEF S
  <1>8. Signal(S)
    BY Zenon DEF S
  <1> QED BY <1>6, <1>7, <1>8, Zenon DEF Signal

\* Of two threads that sleep at one address the one that came first is woken
\* first, for any waiters, addresses and counts: requeue leaves the entries it
\* moves where they stand, and retain keeps the order of the others.
THEOREM SleepersInOrder ==
    FutexSpec => WokenInArrivalOrder
  <1> DEFINE InOrder ==
          \A t, u \in Waiters :
             (/\ place[t] = "parked" /\ place[u] = "parked"
              /\ <<t, u>> \in before
              /\ \E i \in Live(t), j \in Live(u) : waiters[i].addr = waiters[j].addr
              /\ ~flag[u] /\ flag'[u])
             => flag'[t]
  <1>1. FutexInv /\ [FutexNext]_futexVars => FutexInv'
    BY FutexStep
  <1>2. FutexInv /\ [FutexNext]_futexVars => [InOrder]_futexVars
    <2> SUFFICES ASSUME FutexInv, [FutexNext]_futexVars, NEW t \in Waiters, NEW u \in Waiters,
                        <<t, u>> \in before,
                        NEW i \in Live(t), NEW j \in Live(u),
                        waiters[i].addr = waiters[j].addr, ~flag[u], flag'[u]
                 PROVE  flag'[t]
      BY Zenon
    <2>1. ASSUME NEW k \in Wakers, NEW c \in 0..MaxCount, Wake(k, c) PROVE flag'[t]
      <3>1. c \in Nat
        BY CountsNat, Zenon
      <3>2. Signal(Entries(wakeAt[k], 0, c))
        BY <2>1, Zenon DEF Wake
      <3> QED BY <3>1, <3>2, SignalInOrder, Zenon
    <2>2. ASSUME NEW k \in Wakers, NEW dst \in Addrs, NEW wk \in 0..MaxCount,
                 NEW mv \in 0..MaxCount, Requeue(k, dst, wk, mv)
          PROVE  flag'[t]
      <3>1. wk \in Nat
        BY CountsNat, Zenon
      <3>2. Signal(Entries(wakeAt[k], 0, wk))
        BY <2>2, Zenon DEF Requeue
      <3> QED BY <3>1, <3>2, SignalInOrder, Zenon
    <2>3. ASSUME NEW v \in Waiters, WaitReturn(v) PROVE FALSE
      BY <2>3 DEF WaitReturn, FutexInv, FutexTypes
    <2>4. ASSUME flag' = flag PROVE FALSE
      BY <2>4
    <2> QED BY <2>1, <2>2, <2>3, <2>4, Zenon
            DEF FutexNext, futexVars, Wait, Compare, Push, Unparked, Store
  <1> QED BY FutexInitInv, <1>1, <1>2, PTL DEF FutexSpec, WokenInArrivalOrder
================================================================================
