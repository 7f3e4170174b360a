------------------------------- MODULE SyncQueue -------------------------------
(***************************************************************************)
(* SyncQueue of sync_queue.rs: threads that wait for a predicate over data *)
(* behind a mutex g, and threads that signal them.  A step is one critical *)
(* section of q or g, one access to epoch outside them, or one             *)
(* park/unpark.  thread::park and unpark (the standard library) are a      *)
(* token per thread: unpark sets it, park returns when it is set and takes *)
(* it, and may also return without it.                                     *)
(***************************************************************************)
EXTENDS Naturals, Sequences, FiniteSets

CONSTANTS
    Waiters, Signalers,   \* the threads on each side
    NQueues,              \* wait_events registers on queues 1..NQueues in turn
    WaitOps, SigOps,      \* the operations the two sides call
    Steady,               \* waiters that wait on one queue until they are woken
    MaxEpoch,             \* bound on epoch
    MaxQueue              \* length of a queue up to which the others join it

ASSUME SyncQueueAssumption ==
    /\ NQueues \in Nat \ {0} /\ MaxEpoch \in Nat /\ MaxQueue \in Nat
    /\ WaitOps \subseteq {"park_on", "wait_ev", "wait_events", "wait_guard", "wait_timeout"}
    /\ SigOps \subseteq {"signal", "broadcast", "signal_n"}
    /\ Steady \subseteq Waiters

VARIABLES
    data,    \* pred(&*g.lock()): what the waiters wait for
    q,       \* q[k]: the threads queued on queue k
    epoch,   \* epoch[k]: signals that found nobody
    token,   \* the park token of each waiter
    pc,      \* where each thread is
    op,      \* the waiting operation each waiter is in
    at,      \* the queue of the operation
    batch    \* the threads a signaler has popped and not yet unparked

vars == <<data, q, epoch, token, pc, op, at, batch>>

Queues == 1..NQueues
Threads == Waiters \cup Signalers

Init ==
    /\ data = FALSE
    /\ q = [k \in Queues |-> <<>>]
    /\ epoch = [k \in Queues |-> 0]
    /\ token = [t \in Waiters |-> FALSE]
    /\ pc = [t \in Threads |-> "idle"]
    /\ op = [t \in Waiters |-> "none"]
    /\ at = [t \in Threads |-> 1]
    /\ batch = [s \in Signalers |-> <<>>]

Step(t, from, to) ==
    /\ pc[t] = from
    /\ pc' = [pc EXCEPT ![t] = to]

--------------------------------------------------------------------------------
(* Waiters *)

\* The operation is over, and op and at say nothing any more.
Leave(t) ==
    /\ op' = [op EXCEPT ![t] = "none"]
    /\ at' = [at EXCEPT ![t] = 1]

\* A call: park_on, wait_ev and wait_events check the predicate first.
Wait(t, o, k) ==
    /\ t \in Steady => o \notin {"wait_events", "wait_timeout"}
    /\ Step(t, "idle", IF o \in {"park_on", "wait_ev", "wait_events"} THEN "check" ELSE "enqueue")
    /\ op' = [op EXCEPT ![t] = o]
    /\ at' = [at EXCEPT ![t] = IF o = "wait_events" THEN 1 ELSE k]
    /\ UNCHANGED <<data, q, epoch, token, batch>>

\* The check under g before queueing; the lock is dropped again.
Check(t) ==
    /\ Step(t, "check", IF data THEN "take" ELSE "enqueue")
    /\ IF data THEN Leave(t) ELSE UNCHANGED <<op, at>>
    /\ UNCHANGED <<data, q, epoch, token, batch>>

\* Mutant: the counter is taken without looking at it.
HasEpoch_Unchecked(k) == TRUE

HasEpoch(k) == epoch[k] > 0

\* park_on finds a signal that came before it, under the lock of q.
TakeEpoch(t) ==
    /\ op[t] = "park_on"
    /\ HasEpoch(at[t])
    /\ Step(t, "enqueue", "recheck")
    /\ epoch' = [epoch EXCEPT ![at[t]] = @ - 1]
    /\ UNCHANGED <<data, q, token, op, at, batch>>

\* Otherwise the thread queues itself; wait_events does so on every queue.
Enqueue(t) ==
    /\ op[t] = "park_on" => ~HasEpoch(at[t])
    /\ t \notin Steady => Len(q[at[t]]) < MaxQueue
    /\ q' = [q EXCEPT ![at[t]] = Append(@, t)]
    /\ IF op[t] = "wait_events" /\ at[t] < NQueues
         THEN Step(t, "enqueue", "enqueue") /\ at' = [at EXCEPT ![t] = @ + 1]
         ELSE Step(t, "enqueue", "parked") /\ UNCHANGED at
    /\ UNCHANGED <<data, epoch, token, op, batch>>

AfterPark(t) ==
    CASE op[t] = "park_on" -> "recheck"
      [] op[t] \in {"wait_ev", "wait_events"} -> "check"
      [] OTHER -> "idle"

\* What follows the return of park: wait_events starts again at its first queue.
LeavePark(t) ==
    /\ Step(t, "parked", AfterPark(t))
    /\ IF AfterPark(t) = "idle" THEN Leave(t)
       ELSE /\ at' = [at EXCEPT ![t] = IF op[t] = "wait_events" THEN 1 ELSE @]
            /\ UNCHANGED op
    /\ UNCHANGED <<data, q, epoch, batch>>

Wake(t) ==
    /\ token[t]
    /\ token' = [token EXCEPT ![t] = FALSE]
    /\ LeavePark(t)

\* park_timeout gives up, or park returns for no reason: the entry stays in q.
WakeUnasked(t) ==
    /\ t \notin Steady
    /\ ~token[t]
    /\ UNCHANGED token
    /\ LeavePark(t)

\* park_on evaluates the predicate once more and returns it.
Recheck(t) ==
    /\ Step(t, "recheck", IF data THEN "take" ELSE "idle")
    /\ Leave(t)
    /\ UNCHANGED <<data, q, epoch, token, batch>>

\* The caller of a wait that returned true consumes what it waited for.
Take(t) ==
    /\ Step(t, "take", "idle")
    /\ data' = FALSE
    /\ UNCHANGED <<q, epoch, token, op, at, batch>>

--------------------------------------------------------------------------------
(* Signalers *)

Produce(s) ==
    /\ pc[s] = "idle" /\ ~data
    /\ data' = TRUE
    /\ UNCHANGED <<q, epoch, token, pc, op, at, batch>>

\* Mutant: the latest waiter is popped first.
Popped_Lifo(ts) == <<ts[Len(ts)], SubSeq(ts, 1, Len(ts) - 1)>>

\* pop_front: the thread popped and what stays queued.
Popped(ts) == <<Head(ts), Tail(ts)>>

\* signal under the lock of q; with nobody there it goes on to raise epoch
\* after it has dropped the lock.
Signal(s, k) ==
    /\ at' = [at EXCEPT ![s] = k]
    /\ IF q[k] = <<>>
         THEN Step(s, "idle", "raise") /\ UNCHANGED <<q, batch>>
         ELSE /\ Step(s, "idle", "unpark")
              /\ batch' = [batch EXCEPT ![s] = <<Popped(q[k])[1]>>]
              /\ q' = [q EXCEPT ![k] = Popped(@)[2]]
    /\ UNCHANGED <<data, epoch, token, op>>

\* broadcast drains the queue the same way.
Broadcast(s, k) ==
    /\ at' = [at EXCEPT ![s] = k]
    /\ Step(s, "idle", IF q[k] = <<>> THEN "raise" ELSE "unpark")
    /\ batch' = [batch EXCEPT ![s] = q[k]]
    /\ q' = [q EXCEPT ![k] = <<>>]
    /\ UNCHANGED <<data, epoch, token, op>>

\* epoch.fetch_add(1) outside the lock.
RaiseEpoch(s) ==
    /\ Step(s, "raise", "idle")
    /\ epoch[at[s]] < MaxEpoch
    /\ epoch' = [epoch EXCEPT ![at[s]] = @ + 1]
    /\ at' = [at EXCEPT ![s] = 1]
    /\ UNCHANGED <<data, q, token, op, batch>>

\* Mutant: only the first of the batch is unparked.
Unpark_FirstOnly(s) ==
    /\ Step(s, "unpark", "idle")
    /\ token' = [token EXCEPT ![Head(batch[s])] = TRUE]
    /\ batch' = [batch EXCEPT ![s] = <<>>]
    /\ UNCHANGED <<data, q, epoch, op, at>>

\* t.unpark() for the threads popped, one at a time.
Unpark(s) ==
    /\ Step(s, "unpark", IF Tail(batch[s]) = <<>> THEN "idle" ELSE "unpark")
    /\ token' = [token EXCEPT ![Head(batch[s])] = TRUE]
    /\ batch' = [batch EXCEPT ![s] = Tail(@)]
    /\ at' = IF Tail(batch[s]) = <<>> THEN [at EXCEPT ![s] = 1] ELSE at
    /\ UNCHANGED <<data, q, epoch, op>>

\* signal_n pops and unparks up to n threads under the lock, and leaves no
\* trace when there are fewer.
SignalN(s, k, n) ==
    LET woken == {q[k][i] : i \in 1..(IF n < Len(q[k]) THEN n ELSE Len(q[k]))} IN
    /\ pc[s] = "idle"
    /\ q' = [q EXCEPT ![k] = SubSeq(@, n + 1, Len(@))]
    /\ token' = [t \in Waiters |-> token[t] \/ t \in woken]
    /\ UNCHANGED <<data, epoch, pc, op, at, batch>>

--------------------------------------------------------------------------------
WaitCall(t) == \E o \in WaitOps, k \in Queues : Wait(t, o, k)

WaitStep(t) ==
    Check(t) \/ TakeEpoch(t) \/ Enqueue(t) \/ Wake(t) \/ Recheck(t) \/ Take(t)

SignalCall(s) ==
    \E k \in Queues :
        \/ "signal" \in SigOps /\ Signal(s, k)
        \/ "broadcast" \in SigOps /\ Broadcast(s, k)
        \/ "signal_n" \in SigOps /\ \E n \in 1..2 : SignalN(s, k, n)

SignalStep(s) == RaiseEpoch(s) \/ Unpark(s)

Next ==
    \/ \E t \in Waiters : WaitCall(t) \/ WaitStep(t) \/ WakeUnasked(t)
    \/ \E s \in Signalers : Produce(s) \/ SignalCall(s) \/ SignalStep(s)

Spec == Init /\ [][Next]_vars

\* Threads inside a call keep being scheduled.  Nobody has to make a call.
Fairness ==
    /\ \A t \in Waiters : WF_vars(WaitStep(t))
    /\ \A s \in Signalers : WF_vars(SignalStep(s))

FairSpec == Spec /\ Fairness

--------------------------------------------------------------------------------
(* Properties *)

\* Every field keeps its type; epoch, taken after a check under the lock of q
\* and raised outside it, never goes below zero.
TypeOK ==
    /\ data \in BOOLEAN
    /\ q \in [Queues -> Seq(Waiters)]
    /\ epoch \in [Queues -> Nat]
    /\ token \in [Waiters -> BOOLEAN]
    /\ pc \in [Threads -> {"idle", "check", "enqueue", "parked", "recheck", "take",
                           "raise", "unpark"}]
    /\ op \in [Waiters -> {"none"} \cup WaitOps]
    /\ at \in [Threads -> Queues]
    /\ batch \in [Signalers -> Seq(Waiters)]

QueuedOn(t, k) == \E i \in 1..Len(q[k]) : q[k][i] = t
Queued(t) == \E k \in Queues : QueuedOn(t, k)
BeingWoken(t) == \E s \in Signalers : \E i \in 1..Len(batch[s]) : batch[s][i] = t

\* A parked thread is never forgotten: it is still queued, or the signal or
\* broadcast that popped it is about to unpark it, or its token is set.
WakeAccounted ==
    \A t \in Waiters : pc[t] = "parked" => Queued(t) \/ BeingWoken(t) \/ token[t]

\* Wakeups a waiter has coming: queue entries, pops under way, its token.
WakesDue(t) ==
    LET entries == UNION {{k} \X {i \in DOMAIN q[k] : q[k][i] = t} : k \in Queues}
        pops == UNION {{s} \X {i \in DOMAIN batch[s] : batch[s][i] = t} : s \in Signalers}
    IN  Cardinality(entries) + Cardinality(pops) + (IF token[t] THEN 1 ELSE 0)

\* A thread whose waits are on one queue and end when they are woken has exactly
\* one wakeup coming while it is parked and none otherwise, whatever entries the
\* timeouts and spurious returns of others leave behind: no signal is spent on it
\* while it does not wait, and no token is left over.
OneWakePerPark ==
    \A t \in Steady : WakesDue(t) = IF pc[t] = "parked" THEN 1 ELSE 0

\* As long as signals keep finding entries on a queue, every thread that waits
\* there until it is woken is woken: pop_front serves the queue in order and
\* nobody overtakes, not even with the entries that timeouts and spurious returns
\* of others leave behind.
WokenInTurn ==
    \A k \in Queues :
        ([]<>(\E s \in Signalers : batch[s] # <<>> /\ at[s] = k)) =>
            \A t \in Steady : pc[t] = "parked" /\ QueuedOn(t, k) ~> pc[t] # "parked"

\* What the comment on epoch promises: no wakeup is lost.  Once the signals are
\* through, a thread does not sleep on a queue whose epoch holds a signal while
\* its predicate is true.
NoSleepPastSignal ==
    \A t \in Waiters, k \in Queues :
        (\A s \in Signalers : pc[s] = "idle") /\ data /\ epoch[k] > 0 =>
            ~(pc[t] = "parked" /\ \E i \in 1..Len(q[k]) : q[k][i] = t)
================================================================================
