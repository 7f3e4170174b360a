---------------------------- MODULE SyncQueueProofs ----------------------------
(***************************************************************************)
(* For any threads, queues and bounds: the fields of SyncQueue keep their  *)
(* types, no parked thread is forgotten, and a thread that waits until it  *)
(* is woken has one wakeup coming while it is parked and none otherwise.   *)
(***************************************************************************)
EXTENDS SyncQueue, FiniteSetTheorems, TLAPS

\* x is in the list l, and x is in l at most once.
In(l, x) == \E i \in 1..Len(l) : l[i] = x
Once(l, x) == \A i, j \in 1..Len(l) : l[i] = x /\ l[j] = x => i = j

\* A signaler holds popped threads exactly while it unparks them.
BatchInv == \A s \in Signalers : pc[s] = "unpark" <=> batch[s] # <<>>

\* A thread that waits on one queue until it is woken is nowhere unless it is
\* parked, and then in one place, once.
OnePlace(t) ==
    /\ op[t] # "wait_events"
    /\ pc[t] # "parked" => ~Queued(t) /\ ~BeingWoken(t) /\ ~token[t]
    /\ \A k \in Queues : Once(q[k], t)
    /\ \A j, k \in Queues : In(q[j], t) /\ In(q[k], t) => j = k
    /\ \A s \in Signalers : Once(batch[s], t)
    /\ \A r, s \in Signalers : In(batch[r], t) /\ In(batch[s], t) => r = s
    /\ ~(Queued(t) /\ BeingWoken(t)) /\ ~(Queued(t) /\ token[t])
    /\ ~(BeingWoken(t) /\ token[t])

SteadyInv == \A t \in Steady : OnePlace(t)

\* The inductive invariant.
QueueInv == TypeOK /\ BatchInv /\ WakeAccounted /\ SteadyInv

--------------------------------------------------------------------------------
(* Lists. *)

LEMMA EmptyList == \A S : <<>> \in Seq(S)
  OBVIOUS

LEMMA AppendIn ==
    ASSUME NEW S, NEW l \in Seq(S), NEW e \in S
    PROVE  /\ Append(l, e) \in Seq(S)
           /\ \A x : In(Append(l, e), x) <=> In(l, x) \/ x = e
           /\ \A x : Once(l, x) /\ ~(In(l, x) /\ x = e) => Once(Append(l, e), x)
  <1>1. /\ Append(l, e) \in Seq(S)
        /\ Len(Append(l, e)) = Len(l) + 1
        /\ \A i \in 1..Len(l) : Append(l, e)[i] = l[i]
        /\ Append(l, e)[Len(l) + 1] = e
        /\ Len(l) \in Nat
    OBVIOUS
  <1>2. \A i \in 1..(Len(l) + 1) : i \in 1..Len(l) \/ i = Len(l) + 1
    BY <1>1
  <1>3. ASSUME NEW x PROVE In(Append(l, e), x) <=> In(l, x) \/ x = e
    BY <1>1, <1>2 DEF In
  <1>4. ASSUME NEW x, Once(l, x), ~(In(l, x) /\ x = e) PROVE Once(Append(l, e), x)
    BY <1>1, <1>2, <1>4 DEF In, Once
  <1> QED BY <1>1, <1>3, <1>4

\* What is left of l when its first n entries are taken off.
LEMMA DropIn ==
    ASSUME NEW S, NEW l \in Seq(S), NEW n \in Nat
    PROVE  LET r == SubSeq(l, n + 1, Len(l))
               first == 1..(IF n < Len(l) THEN n ELSE Len(l))
           IN  /\ r \in Seq(S)
               /\ \A x : In(r, x) => In(l, x)
               /\ \A x : In(l, x) => In(r, x) \/ \E i \in first : l[i] = x
               /\ \A x : Once(l, x) => Once(r, x) /\ ~(In(r, x) /\ \E i \in first : l[i] = x)
  <1> DEFINE r == SubSeq(l, n + 1, Len(l))
             first == 1..(IF n < Len(l) THEN n ELSE Len(l))
  <1>1. Len(l) \in Nat /\ \A i \in 1..Len(l) : l[i] \in S
    OBVIOUS
  <1>2. /\ r \in Seq(S)
        /\ Len(r) = IF n + 1 <= Len(l) THEN Len(l) - (n + 1) + 1 ELSE 0
        /\ \A i \in 1..(Len(l) - (n + 1) + 1) : r[i] = l[(n + 1) + i - 1]
    <2>1. \A i \in (n + 1)..Len(l) : l[i] \in S
      BY <1>1
    <2>2. n + 1 \in Int /\ Len(l) \in Int
      BY <1>1
    <2> QED BY <2>1, <2>2
  <1>3. \A i \in first : i \in 1..Len(l) /\ i <= n
    BY <1>1
  <1>4. \A i \in 1..Len(l) : i \in first \/ (i - n \in 1..Len(r) /\ r[i - n] = l[i])
    BY <1>1, <1>2
  <1>5. \A i \in 1..Len(r) : n + i \in 1..Len(l) /\ r[i] = l[n + i] /\ n + i > n
    BY <1>1, <1>2
  <1>6. Len(r) \in Nat
    BY <1>1, <1>2
  <1> HIDE DEF r, first
  <1>7. \A x : In(r, x) => In(l, x)
    BY <1>5 DEF In
  <1>8. \A x : In(l, x) => In(r, x) \/ \E i \in first : l[i] = x
    BY <1>4 DEF In
  <1>9. ASSUME NEW x, Once(l, x) PROVE Once(r, x)
    <2> SUFFICES ASSUME NEW i \in 1..Len(r), NEW j \in 1..Len(r), r[i] = x, r[j] = x PROVE i = j
      BY DEF Once
    <2>1. n + i = n + j
      BY <1>5, <1>9, Zenon DEF Once
    <2> QED BY <1>6, <2>1
  <1>10. ASSUME NEW x, Once(l, x), In(r, x), NEW i \in first, l[i] = x PROVE FALSE
    <2>1. PICK j \in 1..Len(r) : r[j] = x
      BY <1>10 DEF In
    <2>2. n + j = i
      BY <1>3, <1>5, <1>10, <2>1 DEF Once
    <2> QED BY <1>3, <1>5, <2>1, <2>2
  <1>11. \A x : Once(l, x) => Once(r, x) /\ ~(In(r, x) /\ \E i \in first : l[i] = x)
    BY <1>9, <1>10
  <1> QED BY <1>2, <1>7, <1>8, <1>11 DEF r, first

\* ... and when the first is popped.
LEMMA TailIn ==
    ASSUME NEW S, NEW l \in Seq(S), l # <<>>
    PROVE  /\ Head(l) \in S /\ In(l, Head(l))
           /\ Tail(l) \in Seq(S)
           /\ \A x : In(l, x) <=> x = Head(l) \/ In(Tail(l), x)
           /\ \A x : Once(l, x) => Once(Tail(l), x) /\ ~(In(Tail(l), x) /\ x = Head(l))
  <1>1. Len(l) \in Nat /\ Len(l) >= 1 /\ Head(l) = l[1] /\ Head(l) \in S
    OBVIOUS
  <1>2. Tail(l) = SubSeq(l, 1 + 1, Len(l))
    BY <1>1
  <1>3. \A x : (\E i \in 1..(IF 1 < Len(l) THEN 1 ELSE Len(l)) : l[i] = x) <=> x = Head(l)
    BY <1>1
  <1>4. In(l, Head(l))
    BY <1>1 DEF In
  <1> DEFINE r == SubSeq(l, 1 + 1, Len(l))
             first == 1..(IF 1 < Len(l) THEN 1 ELSE Len(l))
  <1>5. /\ r \in Seq(S)
        /\ \A x : In(r, x) => In(l, x)
        /\ \A x : In(l, x) => In(r, x) \/ \E i \in first : l[i] = x
        /\ \A x : Once(l, x) => Once(r, x) /\ ~(In(r, x) /\ \E i \in first : l[i] = x)
    <2>1. 1 \in Nat
      OBVIOUS
    <2> QED BY <2>1, DropIn, Zenon
  <1> HIDE DEF r
  <1>6. Tail(l) = r
    BY <1>2 DEF r
  <1> QED BY <1>1, <1>3, <1>4, <1>5, <1>6, Zenon

LEMMA OneIn ==
    ASSUME NEW S, NEW e \in S
    PROVE  <<e>> \in Seq(S) /\ <<e>> # <<>> /\ \A x : Once(<<e>>, x) /\ (In(<<e>>, x) <=> x = e)
  BY DEF In, Once

LEMMA EmptyIn == ASSUME NEW x PROVE ~In(<<>>, x) /\ Once(<<>>, x)
  BY DEF In, Once

--------------------------------------------------------------------------------
(* QueueInv is inductive. *)

\* Step moves one thread.
LEMMA Moved ==
    ASSUME TypeOK, NEW t \in Threads, NEW from, NEW to, Step(t, from, to)
    PROVE  pc[t] = from /\ pc'[t] = to /\ \A u \in Threads \ {t} : pc'[u] = pc[u]
  BY Zenon DEF TypeOK, Step

LEMMA Sides == Waiters \subseteq Threads /\ Signalers \subseteq Threads /\ 1 \in Queues
               /\ Queues \subseteq Nat
  BY SyncQueueAssumption DEF Threads, Queues

LEMMA TypeStep == QueueInv /\ [Next]_vars => TypeOK'
  <1> SUFFICES ASSUME TypeOK, BatchInv, [Next]_vars PROVE TypeOK'
    BY DEF QueueInv
  <1> USE Sides DEF TypeOK
  <1>1. ASSUME NEW t \in Waiters, NEW o \in WaitOps, NEW k \in Queues, Wait(t, o, k) PROVE TypeOK'
    BY <1>1, Zenon DEF Wait, Step
  <1>2. ASSUME NEW t \in Waiters, Check(t) PROVE TypeOK'
    BY <1>2, Zenon DEF Check, Step, Leave
  <1>3. ASSUME NEW t \in Waiters, TakeEpoch(t) PROVE TypeOK'
    <2>1. epoch[at[t]] \in Nat /\ epoch[at[t]] > 0
      BY <1>3, Zenon DEF TakeEpoch, HasEpoch
    <2>2. epoch[at[t]] - 1 \in Nat
      BY ONLY <2>1
    <2> QED BY <1>3, <2>2, Zenon DEF TakeEpoch, Step
  <1>4. ASSUME NEW t \in Waiters, Enqueue(t) PROVE TypeOK'
    <2>1. at[t] \in Queues /\ Append(q[at[t]], t) \in Seq(Waiters)
      BY AppendIn, Zenon
    <2>2. at[t] < NQueues => at[t] + 1 \in Queues
      <3>1. at[t] \in Queues
        BY <2>1
      <3> QED BY ONLY <3>1, SyncQueueAssumption DEF Queues
    <2>3. CASE op[t] = "wait_events" /\ at[t] < NQueues
      BY <1>4, <2>1, <2>2, <2>3, Zenon DEF Enqueue, Step
    <2>4. CASE ~(op[t] = "wait_events" /\ at[t] < NQueues)
      BY <1>4, <2>1, <2>4, Zenon DEF Enqueue, Step
    <2> QED BY <2>3, <2>4
  <1>5. ASSUME NEW t \in Waiters, Wake(t) PROVE TypeOK'
    BY <1>5, Zenon DEF Wake, LeavePark, AfterPark, Leave, Step
  <1>6. ASSUME NEW t \in Waiters, WakeUnasked(t) PROVE TypeOK'
    BY <1>6, Zenon DEF WakeUnasked, LeavePark, AfterPark, Leave, Step
  <1>7. ASSUME NEW t \in Waiters, Recheck(t) PROVE TypeOK'
    BY <1>7, Zenon DEF Recheck, Leave, Step
  <1>8. ASSUME NEW t \in Waiters, Take(t) PROVE TypeOK'
    BY <1>8, Zenon DEF Take, Step
  <1>9. ASSUME NEW s \in Signalers, Produce(s) PROVE TypeOK'
    BY <1>9, Zenon DEF Produce
  <1>10. ASSUME NEW s \in Signalers, NEW k \in Queues, Signal(s, k) PROVE TypeOK'
    <2>1. CASE q[k] = <<>>
      BY <1>10, <2>1, Zenon DEF Signal, Step
    <2>2. CASE q[k] # <<>>
      <3>1. <<Head(q[k])>> \in Seq(Waiters) /\ Tail(q[k]) \in Seq(Waiters)
        BY <2>2, TailIn, OneIn, Zenon
      <3>2. /\ batch' = [batch EXCEPT ![s] = <<Head(q[k])>>]
            /\ q' = [q EXCEPT ![k] = Tail(@)]
        BY <1>10, <2>2 DEF Signal, Popped
      <3> QED BY <1>10, <2>2, <3>1, <3>2, Zenon DEF Signal, Step
    <2> QED BY <2>1, <2>2
  <1>11. ASSUME NEW s \in Signalers, NEW k \in Queues, Broadcast(s, k) PROVE TypeOK'
    BY <1>11, EmptyList, Zenon DEF Broadcast, Step
  <1>12. ASSUME NEW s \in Signalers, NEW k \in Queues, NEW n \in 1..2, SignalN(s, k, n)
         PROVE  TypeOK'
    <2>1. SubSeq(q[k], n + 1, Len(q[k])) \in Seq(Waiters)
      <3>1. q[k] \in Seq(Waiters) /\ n \in Nat
        OBVIOUS
      <3> QED BY <3>1, DropIn, Zenon
    <2>2. token' \in [Waiters -> BOOLEAN]
      BY <1>12, Zenon DEF SignalN
    <2> QED BY <1>12, <2>1, <2>2, Zenon DEF SignalN
  <1>13. ASSUME NEW s \in Signalers, RaiseEpoch(s) PROVE TypeOK'
    <2>1. epoch[at[s]] \in Nat
      BY Zenon
    <2>2. epoch[at[s]] + 1 \in Nat
      BY ONLY <2>1
    <2> QED BY <1>13, <2>2, Zenon DEF RaiseEpoch, Step
  <1>14. ASSUME NEW s \in Signalers, Unpark(s) PROVE TypeOK'
    <2>1. batch[s] # <<>>
      BY <1>14, Zenon DEF Unpark, Step, BatchInv
    <2>2. Head(batch[s]) \in Waiters /\ Tail(batch[s]) \in Seq(Waiters)
      BY <2>1, TailIn, Zenon
    <2> QED BY <1>14, <2>2, Zenon DEF Unpark, Step
  <1>15. ASSUME UNCHANGED vars PROVE TypeOK'
    BY <1>15, Zenon DEF vars
  <1> HIDE DEF TypeOK
  <1> QED BY <1>1, <1>2, <1>3, <1>4, <1>5, <1>6, <1>7, <1>8, <1>9, <1>10, <1>11, <1>12, <1>13,
             <1>14, <1>15, Zenon DEF Next, WaitCall, WaitStep, SignalCall, SignalStep

LEMMA BatchStep == QueueInv /\ [Next]_vars => BatchInv'
  <1> SUFFICES ASSUME TypeOK, BatchInv, [Next]_vars PROVE BatchInv'
    BY DEF QueueInv
  <1> DEFINE Kept == /\ batch' = batch
                     /\ \A u \in Threads : pc'[u] = "unpark" <=> pc[u] = "unpark"
  <1>1. Kept => BatchInv'
    BY Sides, Zenon DEF BatchInv
  <1>2. ASSUME NEW t \in Threads, NEW from, NEW to, Step(t, from, to), from # "unpark",
               to # "unpark", batch' = batch
        PROVE  Kept
    BY <1>2, Moved, Zenon
  <1>3. ASSUME NEW s \in Signalers, Step(s, "idle", "unpark"), NEW l, l # <<>>,
               batch' = [batch EXCEPT ![s] = l]
        PROVE  BatchInv'
    <2>1. batch'[s] = l /\ \A r \in Signalers \ {s} : batch'[r] = batch[r]
      BY <1>3, Zenon DEF TypeOK
    <2>2. pc'[s] = "unpark" /\ \A r \in Signalers \ {s} : pc'[r] = pc[r]
      BY <1>3, Moved, Sides, Zenon
    <2> QED BY <1>3, <2>1, <2>2, Zenon DEF BatchInv
  <1> HIDE DEF Kept
  <1>4. ASSUME NEW t \in Waiters, NEW o \in WaitOps, NEW k \in Queues, Wait(t, o, k) PROVE Kept
    BY <1>2, <1>4, Sides DEF Wait
  <1>5. ASSUME NEW t \in Waiters, WaitStep(t) \/ WakeUnasked(t) PROVE Kept
    <2>1. PICK from, to : Step(t, from, to) /\ from # "unpark" /\ to # "unpark" /\ batch' = batch
      BY <1>5 DEF WaitStep, Check, TakeEpoch, Enqueue, Wake, Recheck, Take, WakeUnasked, LeavePark,
                  AfterPark
    <2> QED BY <1>2, <2>1, Sides, Zenon
  <1>6. ASSUME NEW s \in Signalers, Produce(s) PROVE Kept
    BY <1>6 DEF Produce, Kept
  <1>7. ASSUME NEW s \in Signalers, NEW k \in Queues, Signal(s, k) PROVE BatchInv'
    <2>1. CASE q[k] = <<>>
      BY <1>1, <1>2, <1>7, <2>1, Sides DEF Signal
    <2>2. CASE q[k] # <<>>
      <3>1. Step(s, "idle", "unpark") /\ batch' = [batch EXCEPT ![s] = <<Popped(q[k])[1]>>]
        BY <1>7, <2>2, Zenon DEF Signal
      <3>2. <<Popped(q[k])[1]>> # <<>>
        OBVIOUS
      <3> QED BY <1>3, <3>1, <3>2, Zenon
    <2> QED BY <2>1, <2>2
  <1>8. ASSUME NEW s \in Signalers, NEW k \in Queues, Broadcast(s, k) PROVE BatchInv'
    <2>1. CASE q[k] = <<>>
      <3>1. Step(s, "idle", "raise") /\ batch' = [batch EXCEPT ![s] = <<>>]
        BY <1>8, <2>1, Zenon DEF Broadcast
      <3>2. batch[s] = <<>>
        BY <3>1, Zenon DEF Step, BatchInv
      <3>3. batch' = batch
        BY <3>1, <3>2, Zenon DEF TypeOK
      <3> QED BY <1>1, <1>2, <3>1, <3>3, Sides
    <2>2. CASE q[k] # <<>>
      BY <1>3, <1>8, <2>2, Zenon DEF Broadcast
    <2> QED BY <2>1, <2>2
  <1>9. ASSUME NEW s \in Signalers, NEW k \in Queues, NEW n \in 1..2, SignalN(s, k, n) PROVE Kept
    BY <1>9, Zenon DEF SignalN, Kept
  <1>10. ASSUME NEW s \in Signalers, RaiseEpoch(s) PROVE Kept
    BY <1>2, <1>10, Sides DEF RaiseEpoch
  <1>11. ASSUME NEW s \in Signalers, Unpark(s) PROVE BatchInv'
    <2>1. batch'[s] = Tail(batch[s]) /\ \A r \in Signalers \ {s} : batch'[r] = batch[r]
      BY <1>11, Zenon DEF Unpark, TypeOK
    <2>2. /\ pc'[s] = IF Tail(batch[s]) = <<>> THEN "idle" ELSE "unpark"
          /\ \A r \in Signalers \ {s} : pc'[r] = pc[r]
      BY <1>11, Moved, Sides, Zenon DEF Unpark
    <2> QED BY <2>1, <2>2, Zenon DEF BatchInv
  <1>12. ASSUME UNCHANGED vars PROVE Kept
    BY <1>12, Zenon DEF vars, Kept
  <1> QED BY <1>1, <1>4, <1>5, <1>6, <1>7, <1>8, <1>9, <1>10, <1>11, <1>12, Zenon
          DEF Next, WaitCall, SignalCall, SignalStep

\* The places of a thread, by the lists it is in.
LEMMA Places ==
    \A t : /\ Queued(t) <=> \E k \in Queues : In(q[k], t)
           /\ Queued(t)' <=> \E k \in Queues : In(q'[k], t)
           /\ BeingWoken(t) <=> \E s \in Signalers : In(batch[s], t)
           /\ BeingWoken(t)' <=> \E s \in Signalers : In(batch'[s], t)
  BY Zenon DEF Queued, QueuedOn, BeingWoken, In

\* A step that moves nobody between the queues, the batches and the tokens.
Quiet ==
    /\ q' = q /\ batch' = batch /\ token' = token
    /\ \A t \in Waiters : pc'[t] = "parked" => pc[t] = "parked"
    /\ \A t \in Steady : pc[t] = "parked" => pc'[t] = "parked"
    /\ \A t \in Steady : op'[t] # "wait_events"

LEMMA QuietStep == QueueInv /\ Quiet => WakeAccounted' /\ SteadyInv'
  <1> SUFFICES ASSUME WakeAccounted, SteadyInv, Quiet PROVE WakeAccounted' /\ SteadyInv'
    BY DEF QueueInv
  <1>1. WakeAccounted'
    BY Places, Zenon DEF WakeAccounted, Quiet
  <1>2. SteadyInv'
    BY Places, Zenon DEF SteadyInv, OnePlace, Quiet
  <1> QED BY <1>1, <1>2

\* A step in which s takes threads off queue k into its empty batch.
Pops(s, k) ==
    /\ \A j \in Queues \ {k} : q'[j] = q[j]
    /\ \A r \in Signalers \ {s} : batch'[r] = batch[r]
    /\ batch[s] = <<>>
    /\ \A x : In(q[k], x) <=> In(q'[k], x) \/ In(batch'[s], x)
    /\ \A x : Once(q[k], x) =>
           Once(q'[k], x) /\ Once(batch'[s], x) /\ ~(In(q'[k], x) /\ In(batch'[s], x))
    /\ token' = token /\ op' = op
    /\ \A t \in Waiters : pc'[t] = "parked" <=> pc[t] = "parked"

LEMMA PopStep ==
    ASSUME QueueInv, NEW s \in Signalers, NEW k \in Queues, Pops(s, k)
    PROVE  WakeAccounted' /\ SteadyInv'
  <1> USE EmptyIn DEF Pops
  <1>1. WakeAccounted'
    <2> SUFFICES ASSUME NEW t \in Waiters, pc'[t] = "parked"
                 PROVE  Queued(t)' \/ BeingWoken(t)' \/ token'[t]
      BY Zenon DEF WakeAccounted
    <2>1. Queued(t) \/ BeingWoken(t) \/ token[t]
      BY Zenon DEF QueueInv, WakeAccounted
    <2>2. ASSUME Queued(t) PROVE Queued(t)' \/ BeingWoken(t)'
      BY <2>2, Places, Zenon
    <2>3. ASSUME BeingWoken(t) PROVE BeingWoken(t)'
      <3>1. PICK r \in Signalers : In(batch[r], t)
        BY <2>3, Places, Zenon
      <3>2. r # s
        BY <3>1, Zenon
      <3> QED BY <3>1, <3>2, Places, Zenon
    <2> QED BY <2>1, <2>2, <2>3, Zenon
  <1>2. SteadyInv'
    <2> SUFFICES ASSUME NEW t \in Steady PROVE OnePlace(t)'
      BY Zenon DEF SteadyInv
    <2>1. t \in Waiters
      BY SyncQueueAssumption
    <2>2. OnePlace(t)
      BY Zenon DEF QueueInv, SteadyInv
    <2> USE DEF OnePlace
    <2>3. \A j \in Queues : In(q'[j], t) => In(q[j], t)
      BY Zenon
    <2>4. \A r \in Signalers : In(batch'[r], t) => In(batch[r], t) \/ (r = s /\ In(q[k], t))
      BY Zenon
    <2>5. Queued(t)' => Queued(t)
      BY <2>3, Places, Zenon
    <2>6. BeingWoken(t)' => BeingWoken(t) \/ In(q[k], t)
      BY <2>4, Places, Zenon
    <2>7. In(q[k], t) => Queued(t)
      BY Places, Zenon
    <2>8. \A j \in Queues : Once(q'[j], t)
      BY <2>2, Zenon
    <2>9. \A i, j \in Queues : In(q'[i], t) /\ In(q'[j], t) => i = j
      BY <2>2, <2>3, Zenon
    <2>10. \A r \in Signalers : Once(batch'[r], t)
      BY <2>2, Zenon
    <2>11. \A r \in Signalers : In(batch[r], t) => BeingWoken(t)
      BY Places, Zenon
    <2>12. \A r, p \in Signalers : In(batch'[r], t) /\ In(batch'[p], t) => r = p
      BY <2>2, <2>4, <2>7, <2>11, Zenon
    <2>13. ~(Queued(t)' /\ BeingWoken(t)')
      <3> SUFFICES ASSUME Queued(t)', BeingWoken(t)' PROVE FALSE
        OBVIOUS
      <3>1. In(q[k], t) /\ ~BeingWoken(t)
        BY <2>2, <2>5, <2>6, Zenon
      <3>2. PICK j \in Queues : In(q'[j], t)
        BY Places, Zenon
      <3>3. PICK r \in Signalers : In(batch'[r], t)
        BY Places, Zenon
      <3>4. j = k /\ r = s
        BY <2>2, <2>3, <2>4, <2>11, <3>1, <3>2, <3>3, Zenon
      <3> QED BY <2>2, <3>2, <3>3, <3>4, Zenon
    <2> QED BY <2>1, <2>2, <2>5, <2>6, <2>7, <2>8, <2>9, <2>10, <2>12, <2>13, Zenon
  <1> QED BY <1>1, <1>2

\* A step that unparks the threads of T, whose entries leave queue k.
Gives(T, k) ==
    /\ \A j \in Queues \ {k} : q'[j] = q[j]
    /\ batch' = batch
    /\ \A x : In(q[k], x) <=> In(q'[k], x) \/ x \in T
    /\ \A x : Once(q[k], x) => Once(q'[k], x) /\ ~(In(q'[k], x) /\ x \in T)
    /\ \A t \in Waiters : token'[t] <=> token[t] \/ t \in T
    /\ op' = op /\ pc' = pc

LEMMA GiveStep ==
    ASSUME QueueInv, NEW T, NEW k \in Queues, Gives(T, k)
    PROVE  WakeAccounted' /\ SteadyInv'
  <1> USE DEF Gives
  <1>1. WakeAccounted'
    <2> SUFFICES ASSUME NEW t \in Waiters, pc'[t] = "parked"
                 PROVE  Queued(t)' \/ BeingWoken(t)' \/ token'[t]
      BY Zenon DEF WakeAccounted
    <2>1. Queued(t) \/ BeingWoken(t) \/ token[t]
      BY Zenon DEF QueueInv, WakeAccounted
    <2>2. ASSUME Queued(t) PROVE Queued(t)' \/ token'[t]
      BY <2>2, Places, Zenon
    <2>3. ASSUME BeingWoken(t) PROVE BeingWoken(t)'
      BY <2>3, Places, Zenon
    <2> QED BY <2>1, <2>2, <2>3, Zenon
  <1>2. SteadyInv'
    <2> SUFFICES ASSUME NEW t \in Steady PROVE OnePlace(t)'
      BY Zenon DEF SteadyInv
    <2>1. t \in Waiters
      BY SyncQueueAssumption
    <2>2. OnePlace(t)
      BY Zenon DEF QueueInv, SteadyInv
    <2> USE DEF OnePlace
    <2>3. \A j \in Queues : In(q'[j], t) => In(q[j], t)
      BY Zenon
    <2>4. Queued(t)' => Queued(t)
      BY <2>3, Places, Zenon
    <2>5. BeingWoken(t)' <=> BeingWoken(t)
      BY Places, Zenon
    <2>6. t \in T => In(q[k], t) /\ Queued(t)
      BY Places, Zenon
    <2>7. \A j \in Queues : Once(q'[j], t)
      BY <2>2, Zenon
    <2>8. \A i, j \in Queues : In(q'[i], t) /\ In(q'[j], t) => i = j
      BY <2>2, <2>3, Zenon
    <2>9. t \in T => ~Queued(t)'
      <3> SUFFICES ASSUME t \in T, Queued(t)' PROVE FALSE
        OBVIOUS
      <3>1. PICK j \in Queues : In(q'[j], t)
        BY Places, Zenon
      <3>2. j = k
        BY <2>2, <2>3, <2>6, <3>1, Zenon
      <3> QED BY <2>2, <3>1, <3>2, Zenon
    <2> QED BY <2>1, <2>2, <2>4, <2>5, <2>6, <2>7, <2>8, <2>9, Zenon
  <1> QED BY <1>1, <1>2

\* s unparks the first thread of its batch.
LEMMA UnparkStep ==
    ASSUME QueueInv, NEW s \in Signalers, Unpark(s)
    PROVE  WakeAccounted' /\ SteadyInv'
  <1> DEFINE h == Head(batch[s])
  <1>1. batch \in [Signalers -> Seq(Waiters)] /\ token \in [Waiters -> BOOLEAN]
    BY Zenon DEF QueueInv, TypeOK
  <1>2. batch[s] # <<>> /\ pc[s] = "unpark"
    BY Zenon DEF Unpark, Step, BatchInv, QueueInv
  <1>3. /\ h \in Waiters
        /\ \A x : In(batch[s], x) <=> x = h \/ In(Tail(batch[s]), x)
        /\ \A x : Once(batch[s], x) => Once(Tail(batch[s]), x) /\ ~(In(Tail(batch[s]), x) /\ x = h)
    BY <1>1, <1>2, TailIn, Zenon
  <1>4. /\ batch'[s] = Tail(batch[s])
        /\ \A r \in Signalers \ {s} : batch'[r] = batch[r]
        /\ token'[h] = TRUE
        /\ \A t \in Waiters \ {h} : token'[t] = token[t]
        /\ q' = q /\ op' = op
    BY <1>1, <1>3, Zenon DEF Unpark
  <1>5. \A t \in Waiters : pc'[t] = "parked" <=> pc[t] = "parked"
    <2>1. PICK to : Step(s, "unpark", to) /\ to # "parked"
      BY DEF Unpark
    <2> QED BY <1>2, <2>1, Moved, Sides, Zenon DEF QueueInv
  <1> HIDE DEF h
  <1>6. \A x : \A r \in Signalers : In(batch'[r], x) => In(batch[r], x)
    BY <1>3, <1>4, Zenon
  <1>7. \A x : BeingWoken(x)' => BeingWoken(x)
    BY <1>6, Places, Zenon
  <1>8. \A x : Queued(x)' <=> Queued(x)
    BY <1>4, Places, Zenon
  <1>9. WakeAccounted'
    <2> SUFFICES ASSUME NEW t \in Waiters, pc'[t] = "parked"
                 PROVE  Queued(t)' \/ BeingWoken(t)' \/ token'[t]
      BY Zenon DEF WakeAccounted
    <2>1. Queued(t) \/ BeingWoken(t) \/ token[t]
      BY <1>5, Zenon DEF QueueInv, WakeAccounted
    <2>2. ASSUME BeingWoken(t), t # h PROVE BeingWoken(t)'
      BY <1>3, <1>4, <2>2, Places, Zenon
    <2> QED BY <1>4, <1>8, <2>1, <2>2, Zenon
  <1>10. SteadyInv'
    <2> SUFFICES ASSUME NEW t \in Steady PROVE OnePlace(t)'
      BY Zenon DEF SteadyInv
    <2>1. t \in Waiters
      BY SyncQueueAssumption
    <2>2. OnePlace(t)
      BY Zenon DEF QueueInv, SteadyInv
    <2> USE DEF OnePlace
    <2>3. \A r \in Signalers : Once(batch'[r], t)
      BY <1>3, <1>4, <2>2, Zenon
    <2>4. \A r, p \in Signalers : In(batch'[r], t) /\ In(batch'[p], t) => r = p
      BY <1>6, <2>2, Zenon
    <2>5. t = h => BeingWoken(t) /\ In(batch[s], t)
      BY <1>3, Places, Zenon
    <2>6. t = h => ~BeingWoken(t)'
      <3> SUFFICES ASSUME t = h, BeingWoken(t)' PROVE FALSE
        OBVIOUS
      <3>1. PICK r \in Signalers : In(batch'[r], t)
        BY Places, Zenon
      <3>2. r = s
        BY <1>6, <2>2, <2>5, <3>1, Zenon
      <3> QED BY <1>3, <1>4, <2>2, <3>1, <3>2, Zenon
    <2>7. CASE t = h
      BY <1>4, <1>5, <1>8, <2>1, <2>2, <2>3, <2>4, <2>5, <2>6, <2>7, Zenon
    <2>8. CASE t # h
      BY <1>4, <1>5, <1>7, <1>8, <2>1, <2>2, <2>3, <2>4, <2>8, Zenon
    <2> QED BY <2>7, <2>8
  <1> QED BY <1>9, <1>10

\* A thread queues itself.
LEMMA EnqueueStep ==
    ASSUME QueueInv, NEW t \in Waiters, Enqueue(t)
    PROVE  WakeAccounted' /\ SteadyInv'
  <1> DEFINE k == at[t]
  <1>1. /\ k \in Queues /\ q \in [Queues -> Seq(Waiters)] /\ q[k] \in Seq(Waiters)
        /\ pc \in [Threads -> {"idle", "check", "enqueue", "parked", "recheck", "take",
                               "raise", "unpark"}]
    BY Sides, Zenon DEF QueueInv, TypeOK
  <1>2. /\ q'[k] = Append(q[k], t)
        /\ \A j \in Queues \ {k} : q'[j] = q[j]
        /\ batch' = batch /\ token' = token /\ op' = op
    BY <1>1, Zenon DEF Enqueue
  <1>3. /\ pc[t] = "enqueue"
        /\ \A u \in Waiters \ {t} : pc'[u] = pc[u]
        /\ t \in Steady => pc'[t] = "parked"
    <2>1. CASE op[t] = "wait_events" /\ at[t] < NQueues
      <3>1. Step(t, "enqueue", "enqueue")
        BY <2>1, Zenon DEF Enqueue
      <3>2. t \notin Steady
        BY <2>1, Zenon DEF QueueInv, SteadyInv, OnePlace
      <3> QED BY <3>1, <3>2, Moved, Sides, Zenon DEF QueueInv
    <2>2. CASE ~(op[t] = "wait_events" /\ at[t] < NQueues)
      <3>1. Step(t, "enqueue", "parked")
        BY <2>2, Zenon DEF Enqueue
      <3> QED BY <3>1, Moved, Sides, Zenon DEF QueueInv
    <2> QED BY <2>1, <2>2
  <1> HIDE DEF k
  <1>4. /\ \A x : In(q'[k], x) <=> In(q[k], x) \/ x = t
        /\ \A x : Once(q[k], x) /\ ~(In(q[k], x) /\ x = t) => Once(q'[k], x)
    <2>1. /\ \A x : In(Append(q[k], t), x) <=> In(q[k], x) \/ x = t
          /\ \A x : Once(q[k], x) /\ ~(In(q[k], x) /\ x = t) => Once(Append(q[k], t), x)
      BY <1>1, AppendIn, Zenon
    <2> QED BY <1>2, <2>1
  <1>5. \A x : Queued(x)' <=> Queued(x) \/ x = t
    BY <1>1, <1>2, <1>4, Places, Zenon
  <1>6. \A x : BeingWoken(x)' <=> BeingWoken(x)
    BY <1>2, Places, Zenon
  <1>7. WakeAccounted'
    BY <1>2, <1>3, <1>5, <1>6, Zenon DEF QueueInv, WakeAccounted
  <1>8. SteadyInv'
    <2> SUFFICES ASSUME NEW u \in Steady PROVE OnePlace(u)'
      BY Zenon DEF SteadyInv
    <2>1. u \in Waiters
      BY SyncQueueAssumption
    <2>2. OnePlace(u)
      BY Zenon DEF QueueInv, SteadyInv
    <2> USE DEF OnePlace
    <2>3. CASE u = t
      <3>1. ~Queued(u) /\ ~BeingWoken(u) /\ ~token[u]
        BY <1>3, <2>2, <2>3
      <3>2. \A j \in Queues : ~In(q[j], u)
        BY <3>1, Places, Zenon
      <3>3. \A j \in Queues : Once(q'[j], u)
        BY <1>1, <1>2, <1>4, <2>2, <3>2, Zenon
      <3>4. \A j \in Queues : In(q'[j], u) => j = k
        BY <1>2, <3>2, Zenon
      <3> QED BY <1>2, <1>3, <1>6, <2>2, <2>3, <3>1, <3>3, <3>4, Zenon
    <2>4. CASE u # t
      <3>1. \A j \in Queues : In(q'[j], u) <=> In(q[j], u)
        BY <1>2, <1>4, <2>4, Zenon
      <3>2. \A j \in Queues : Once(q'[j], u)
        BY <1>2, <1>4, <2>2, <2>4, Zenon
      <3> QED BY <1>2, <1>3, <1>5, <1>6, <2>1, <2>2, <2>4, <3>1, <3>2, Zenon
    <2> QED BY <2>3, <2>4
  <1> QED BY <1>7, <1>8

\* A parked thread takes its token and leaves.
LEMMA WakeStep ==
    ASSUME QueueInv, NEW t \in Waiters, Wake(t)
    PROVE  WakeAccounted' /\ SteadyInv'
  <1>1. PICK to : Step(t, "parked", to) /\ to # "parked"
    BY DEF Wake, LeavePark, AfterPark
  <1>2. pc[t] = "parked" /\ pc'[t] # "parked" /\ \A u \in Waiters \ {t} : pc'[u] = pc[u]
    BY <1>1, Moved, Sides, Zenon DEF QueueInv
  <1>3. /\ token[t] /\ token'[t] = FALSE
        /\ \A u \in Waiters \ {t} : token'[u] = token[u]
        /\ q' = q /\ batch' = batch
    BY Zenon DEF Wake, LeavePark, QueueInv, TypeOK
  <1>4. \A u \in Waiters : op'[u] = op[u] \/ op'[u] = "none"
    BY Zenon DEF Wake, LeavePark, Leave, QueueInv, TypeOK
  <1>5. \A x : (Queued(x)' <=> Queued(x)) /\ (BeingWoken(x)' <=> BeingWoken(x))
    BY <1>3, Places, Zenon
  <1>6. WakeAccounted'
    BY <1>2, <1>3, <1>5, Zenon DEF QueueInv, WakeAccounted
  <1>7. SteadyInv'
    <2> SUFFICES ASSUME NEW u \in Steady PROVE OnePlace(u)'
      BY Zenon DEF SteadyInv
    <2>1. u \in Waiters
      BY SyncQueueAssumption
    <2>2. OnePlace(u)
      BY Zenon DEF QueueInv, SteadyInv
    <2>3. op'[u] # "wait_events"
      BY <1>4, <2>1, <2>2 DEF OnePlace
    <2>4. CASE u = t
      BY <1>3, <1>5, <2>2, <2>3, <2>4, Zenon DEF OnePlace
    <2>5. CASE u # t
      BY <1>2, <1>3, <1>5, <2>1, <2>2, <2>3, <2>5, Zenon DEF OnePlace
    <2> QED BY <2>4, <2>5
  <1> QED BY <1>6, <1>7

LEMMA WaitsStep == QueueInv /\ [Next]_vars => WakeAccounted' /\ SteadyInv'
  <1> SUFFICES ASSUME QueueInv, [Next]_vars PROVE WakeAccounted' /\ SteadyInv'
    OBVIOUS
  <1>1. TypeOK /\ SteadyInv /\ Steady \subseteq Waiters
    BY SyncQueueAssumption DEF QueueInv
  <1>2. \A t \in Steady : op[t] # "wait_events"
    BY <1>1, Zenon DEF SteadyInv, OnePlace
  \* Steps of one thread that neither parks nor leaves its parking place.
  <1>3. ASSUME NEW t \in Threads, NEW from, NEW to, Step(t, from, to), to # "parked",
               t \in Steady => from # "parked", UNCHANGED <<q, batch, token>>,
               \A u \in Steady : op'[u] # "wait_events"
        PROVE  Quiet
    BY <1>1, <1>3, Moved, Sides, Zenon DEF Quiet
  <1>4. ASSUME NEW t \in Waiters, NEW o \in WaitOps, NEW k \in Queues, Wait(t, o, k) PROVE Quiet
    <2>1. \A u \in Steady : op'[u] # "wait_events"
      BY <1>1, <1>2, <1>4, Zenon DEF Wait, TypeOK
    <2> QED BY <1>3, <1>4, <2>1, Sides DEF Wait
  <1>5. ASSUME NEW t \in Waiters, Leave(t) \/ UNCHANGED op
        PROVE  \A u \in Steady : op'[u] # "wait_events"
    <2>1. \A u \in Waiters : op'[u] = op[u] \/ op'[u] = "none"
      BY <1>1, <1>5, Zenon DEF Leave, TypeOK
    <2> QED BY <1>1, <1>2, <2>1
  <1>6. ASSUME NEW t \in Waiters, Check(t) \/ TakeEpoch(t) \/ Recheck(t) \/ Take(t) \/ WakeUnasked(t)
        PROVE  Quiet
    <2>1. \A u \in Steady : op'[u] # "wait_events"
      <3>1. Leave(t) \/ UNCHANGED op
        BY <1>6 DEF Check, TakeEpoch, Recheck, Take, WakeUnasked, LeavePark
      <3> QED BY <1>5, <3>1, Zenon
    <2>2. PICK from, to : /\ Step(t, from, to) /\ to # "parked"
                          /\ t \in Steady => from # "parked"
                          /\ UNCHANGED <<q, batch, token>>
      BY <1>6 DEF Check, TakeEpoch, Recheck, Take, WakeUnasked, LeavePark, AfterPark
    <2> QED BY <1>3, <2>1, <2>2, Sides, Zenon
  <1>7. ASSUME NEW s \in Signalers, Produce(s) PROVE Quiet
    BY <1>2, <1>7, Zenon DEF Produce, Quiet
  <1>8. ASSUME NEW s \in Signalers, RaiseEpoch(s) PROVE Quiet
    BY <1>2, <1>3, <1>8, Sides DEF RaiseEpoch
  <1>9. ASSUME NEW s \in Signalers, NEW k \in Queues, Signal(s, k)
        PROVE  WakeAccounted' /\ SteadyInv'
    <2>1. CASE q[k] = <<>>
      <3>1. Quiet
        BY <1>2, <1>3, <1>9, <2>1, Sides DEF Signal
      <3> QED BY <3>1, QuietStep, Zenon
    <2>2. CASE q[k] # <<>>
      <3> DEFINE l == q[k]
      <3>1. l \in Seq(Waiters) /\ l # <<>>
        BY <1>1, <2>2, Zenon DEF TypeOK
      <3>2. /\ Step(s, "idle", "unpark")
            /\ batch' = [batch EXCEPT ![s] = <<Head(l)>>]
            /\ q' = [q EXCEPT ![k] = Tail(l)]
            /\ token' = token /\ op' = op
        BY <1>9, <2>2 DEF Signal, Popped
      <3> HIDE DEF l
      <3>3. Head(l) \in Waiters
        BY <3>1, TailIn, Zenon
      <3>4. /\ \A x : In(l, x) <=> In(Tail(l), x) \/ In(<<Head(l)>>, x)
            /\ \A x : Once(l, x) =>
                 Once(Tail(l), x) /\ Once(<<Head(l)>>, x) /\ ~(In(Tail(l), x) /\ In(<<Head(l)>>, x))
        BY <3>1, <3>3, TailIn, OneIn, Zenon
      <3>5. /\ q'[k] = Tail(l) /\ \A j \in Queues \ {k} : q'[j] = q[j]
            /\ batch'[s] = <<Head(l)>> /\ \A r \in Signalers \ {s} : batch'[r] = batch[r]
        BY <1>1, <3>2, Zenon DEF TypeOK
      <3>6. batch[s] = <<>>
        BY <3>2, Zenon DEF Step, QueueInv, BatchInv
      <3>7. \A t \in Waiters : pc'[t] = "parked" <=> pc[t] = "parked"
        BY <1>1, <3>2, Moved, Sides, Zenon
      <3>8. Pops(s, k)
        BY <3>2, <3>4, <3>5, <3>6, <3>7 DEF Pops, l
      <3> QED BY <3>8, PopStep, Zenon
    <2> QED BY <2>1, <2>2
  <1>10. ASSUME NEW s \in Signalers, NEW k \in Queues, Broadcast(s, k)
         PROVE  WakeAccounted' /\ SteadyInv'
    <2>1. PICK to : Step(s, "idle", to) /\ to # "parked"
      BY <1>10 DEF Broadcast
    <2>2. /\ q'[k] = <<>> /\ \A j \in Queues \ {k} : q'[j] = q[j]
          /\ batch'[s] = q[k] /\ \A r \in Signalers \ {s} : batch'[r] = batch[r]
          /\ token' = token /\ op' = op
      BY <1>1, <1>10, Zenon DEF Broadcast, TypeOK
    <2>3. batch[s] = <<>>
      BY <2>1, Zenon DEF Step, QueueInv, BatchInv
    <2>4. \A t \in Waiters : pc'[t] = "parked" <=> pc[t] = "parked"
      <3>1. pc[s] = "idle" /\ pc'[s] = to /\ \A u \in Threads \ {s} : pc'[u] = pc[u]
        BY <1>1, <2>1, Moved, Sides, Zenon
      <3> QED BY <2>1, <3>1, Sides
    <2>5. Pops(s, k)
      BY <2>2, <2>3, <2>4, EmptyIn DEF Pops
    <2> QED BY <2>5, PopStep, Zenon
  <1>11. ASSUME NEW s \in Signalers, NEW k \in Queues, NEW n \in 1..2, SignalN(s, k, n)
         PROVE  WakeAccounted' /\ SteadyInv'
    <2> DEFINE l == q[k]
               first == 1..(IF n < Len(l) THEN n ELSE Len(l))
               T == {l[i] : i \in first}
    <2>1. l \in Seq(Waiters) /\ n \in Nat
      <3>1. l \in Seq(Waiters)
        BY <1>1, Zenon DEF TypeOK
      <3> QED BY <3>1
    <2>2. /\ q' = [q EXCEPT ![k] = SubSeq(l, n + 1, Len(l))]
          /\ token' = [t \in Waiters |-> token[t] \/ t \in T]
          /\ batch' = batch /\ op' = op /\ pc' = pc
      BY <1>11, Zenon DEF SignalN
    <2>3. \A x : x \in T <=> \E i \in first : l[i] = x
      BY Zenon
    <2>4. /\ q'[k] = SubSeq(l, n + 1, Len(l)) /\ \A j \in Queues \ {k} : q'[j] = q[j]
          /\ \A t \in Waiters : token'[t] <=> token[t] \/ t \in T
      BY <1>1, <2>2, Zenon DEF TypeOK
    <2> HIDE DEF T
    <2>5. LET r == SubSeq(l, n + 1, Len(l))
          IN  /\ \A x : In(r, x) => In(l, x)
              /\ \A x : In(l, x) => In(r, x) \/ \E i \in first : l[i] = x
              /\ \A x : Once(l, x) => Once(r, x) /\ ~(In(r, x) /\ \E i \in first : l[i] = x)
      BY <2>1, DropIn, Zenon
    <2>6. \A i \in first : i \in 1..Len(l)
      <3>1. Len(l) \in Nat
        BY <2>1
      <3> QED BY <2>1, <3>1
    <2> HIDE DEF l, first
    <2>7. \A x : x \in T => In(l, x)
      BY <2>3, <2>6, Zenon DEF In
    <2>8. /\ \A x : In(l, x) <=> In(q'[k], x) \/ x \in T
          /\ \A x : Once(l, x) => Once(q'[k], x) /\ ~(In(q'[k], x) /\ x \in T)
      <3> DEFINE r == SubSeq(l, n + 1, Len(l))
      <3>1. /\ \A x : In(r, x) => In(l, x)
            /\ \A x : In(l, x) => In(r, x) \/ \E i \in first : l[i] = x
            /\ \A x : Once(l, x) => Once(r, x) /\ ~(In(r, x) /\ \E i \in first : l[i] = x)
        BY <2>5, Zenon
      <3>2. q'[k] = r
        BY <2>4, Zenon
      <3> HIDE DEF r
      <3>3. \A x : In(l, x) => In(r, x) \/ x \in T
        BY <2>3, <3>1, Zenon
      <3>4. \A x : Once(l, x) => Once(r, x) /\ ~(In(r, x) /\ x \in T)
        BY <2>3, <3>1, Zenon
      <3>5. \A x : In(l, x) <=> In(r, x) \/ x \in T
        BY <2>7, <3>1, <3>3, Zenon
      <3> QED BY <3>2, <3>4, <3>5, Zenon
    <2>9. Gives(T, k)
      BY <2>2, <2>4, <2>8 DEF Gives, l
    <2> QED BY <2>9, GiveStep, Zenon
  <1>12. ASSUME UNCHANGED vars PROVE Quiet
    BY <1>2, <1>12, Zenon DEF vars, Quiet
  <1> QED BY <1>4, <1>6, <1>7, <1>8, <1>9, <1>10, <1>11, <1>12, QuietStep, EnqueueStep, WakeStep,
             UnparkStep, Zenon DEF Next, WaitCall, WaitStep, SignalCall, SignalStep

LEMMA InitInv == Init => QueueInv
  <1> SUFFICES ASSUME Init PROVE QueueInv
    OBVIOUS
  <1>1. TypeOK
    <2>1. 0 \in Nat /\ 1 \in Queues
      BY Sides
    <2> QED BY <2>1, EmptyList, Zenon DEF Init, TypeOK
  <1>2. \A k \in Queues : q[k] = <<>>
    BY Zenon DEF Init
  <1>3. \A s \in Signalers : batch[s] = <<>> /\ pc[s] = "idle"
    BY Sides, Zenon DEF Init
  <1>4. \A t \in Waiters : pc[t] = "idle" /\ op[t] = "none" /\ token[t] = FALSE
    BY Sides, Zenon DEF Init
  <1>5. BatchInv /\ WakeAccounted
    BY <1>3, <1>4 DEF BatchInv, WakeAccounted
  <1>6. SteadyInv
    <2> SUFFICES ASSUME NEW t \in Steady PROVE OnePlace(t)
      BY DEF SteadyInv
    <2>1. op[t] # "wait_events" /\ ~token[t]
      BY <1>4, SyncQueueAssumption
    <2>2. /\ \A k \in Queues : Once(q[k], t) /\ ~In(q[k], t)
          /\ \A s \in Signalers : Once(batch[s], t) /\ ~In(batch[s], t)
      BY <1>2, <1>3, EmptyIn, Zenon
    <2>3. ~Queued(t) /\ ~BeingWoken(t)
      BY <2>2, Places, Zenon
    <2> QED BY <2>1, <2>2, <2>3, Zenon DEF OnePlace
  <1> QED BY <1>1, <1>5, <1>6 DEF QueueInv

LEMMA InvHolds == Spec => []QueueInv
  <1>1. QueueInv /\ [Next]_vars => QueueInv'
    BY TypeStep, BatchStep, WaitsStep, Zenon DEF QueueInv
  <1> QED BY InitInv, <1>1, PTL DEF Spec

--------------------------------------------------------------------------------
(* What SyncQueue promises. *)

\* Every field keeps its type: with any number of threads, park_on takes from
\* epoch only what a signal put there, so that it never goes below zero.
THEOREM TypeCorrect == Spec => []TypeOK
  <1>1. QueueInv => TypeOK
    BY DEF QueueInv
  <1> QED BY <1>1, InvHolds, PTL

\* No parked thread is forgotten: until its token is set it is queued, or
\* popped by a signal or broadcast that still has to unpark it.
THEOREM NoWaiterLost == Spec => []WakeAccounted
  <1>1. QueueInv => WakeAccounted
    BY DEF QueueInv
  <1> QED BY <1>1, InvHolds, PTL

\* The entries of x in a family of lists; one, when one list holds x, once.
Entries(K, f, x) == UNION {{k} \X {i \in DOMAIN f[k] : f[k][i] = x} : k \in K}

LEMMA OneEntry ==
    ASSUME NEW K, NEW f, NEW x,
           \A k \in K : f[k] \in Seq(Waiters) /\ Once(f[k], x),
           \A j, k \in K : In(f[j], x) /\ In(f[k], x) => j = k
    PROVE  Cardinality(Entries(K, f, x)) = IF \E k \in K : In(f[k], x) THEN 1 ELSE 0
  <1>1. \A k \in K : DOMAIN f[k] = 1..Len(f[k])
    OBVIOUS
  <1>2. CASE \E k \in K : In(f[k], x)
    <2>1. PICK k \in K : In(f[k], x)
      BY <1>2
    <2>2. PICK i \in 1..Len(f[k]) : f[k][i] = x
      BY <2>1 DEF In
    <2>3. \A j \in K : \A n \in DOMAIN f[j] : f[j][n] = x => j = k /\ n = i
      BY <1>1, <2>1, <2>2, Zenon DEF In, Once
    <2>4. Entries(K, f, x) = {<<k, i>>}
      BY <1>1, <2>2, <2>3 DEF Entries
    <2> QED BY <1>2, <2>4, FS_Singleton, Zenon
  <1>3. CASE ~\E k \in K : In(f[k], x)
    <2>1. Entries(K, f, x) = {}
      BY <1>1, <1>3 DEF In, Entries
    <2> QED BY <1>3, <2>1, FS_EmptySet
  <1> QED BY <1>2, <1>3

\* A thread whose waits are on one queue and end when they are woken has exactly
\* one wakeup coming while it is parked and none otherwise, however many entries
\* the timeouts and spurious returns of others leave in the queues.
THEOREM OneWakeup == Spec => []OneWakePerPark
  <1>1. QueueInv => OneWakePerPark
    <2> SUFFICES ASSUME QueueInv, NEW t \in Steady
                 PROVE  WakesDue(t) = IF pc[t] = "parked" THEN 1 ELSE 0
      BY DEF OneWakePerPark
    <2>1. OnePlace(t) /\ t \in Waiters
      BY SyncQueueAssumption DEF QueueInv, SteadyInv
    <2>2. pc[t] = "parked" => Queued(t) \/ BeingWoken(t) \/ token[t]
      BY <2>1, Zenon DEF QueueInv, WakeAccounted
    <2> DEFINE entries == Entries(Queues, q, t)
               pops == Entries(Signalers, batch, t)
    <2>3. /\ \A k \in Queues : q[k] \in Seq(Waiters)
          /\ \A s \in Signalers : batch[s] \in Seq(Waiters)
      BY Zenon DEF QueueInv, TypeOK
    <2>4. Cardinality(entries) = IF Queued(t) THEN 1 ELSE 0
      <3>1. Cardinality(entries) = IF \E k \in Queues : In(q[k], t) THEN 1 ELSE 0
        <4>1. /\ \A k \in Queues : q[k] \in Seq(Waiters) /\ Once(q[k], t)
              /\ \A j, k \in Queues : In(q[j], t) /\ In(q[k], t) => j = k
          BY <2>1, <2>3, Zenon DEF OnePlace
        <4> QED BY <4>1, OneEntry, Zenon
      <3> QED BY <3>1, Places, Zenon
    <2>5. Cardinality(pops) = IF BeingWoken(t) THEN 1 ELSE 0
      <3>1. Cardinality(pops) = IF \E s \in Signalers : In(batch[s], t) THEN 1 ELSE 0
        <4>1. /\ \A k \in Signalers : batch[k] \in Seq(Waiters) /\ Once(batch[k], t)
              /\ \A j, k \in Signalers : In(batch[j], t) /\ In(batch[k], t) => j = k
          BY <2>1, <2>3, Zenon DEF OnePlace
        <4> QED BY <4>1, OneEntry, Zenon
      <3> QED BY <3>1, Places, Zenon
    <2>6. WakesDue(t) = Cardinality(entries) + Cardinality(pops) + (IF token[t] THEN 1 ELSE 0)
      BY DEF WakesDue, Entries
    <2> HIDE DEF entries, pops
    <2> QED BY <2>1, <2>2, <2>4, <2>5, <2>6 DEF OnePlace
  <1> QED BY <1>1, InvHolds, PTL
================================================================================
