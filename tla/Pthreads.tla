-------------------------------- MODULE Pthreads -------------------------------
(***************************************************************************)
(* The mutex, condition variable and barrier of the user library litc.c,   *)
(* used by a program that needs all three: every consumer waits under the  *)
(* mutex for an item, producers hand items out by signals and broadcasts   *)
(* in any order, and all then pass the barrier, round after round.  An     *)
(* atomic instruction or a futex call is one step.  The kernel's futex is  *)
(* external: FUTEX_SLEEP compares and sleeps in one step, FUTEX_WAKE 1     *)
(* wakes the first sleeper, FUTEX_WAKE -1 wakes the first one with the     *)
(* answer 1, which then has FUTEX_CNDGIVE move the rest to its mutex.  The *)
(* barrier is that of an x86_64 or aarch64 build, whose loops have bodies. *)
(* Left out: the lock of a process that ends in err or errx, which clear   *)
(* dolock and so have pthread_mutex_lock return at once.                   *)
(***************************************************************************)
EXTENDS Integers, Sequences, FiniteSets

CONSTANTS
    Consumers,    \* threads that call pthread_cond_wait
    Producers,    \* threads that call signal or broadcast
    Rounds,       \* how often every thread passes the barrier
    m             \* the top bit of a uint, 2^31 in the code, which lets threads
                  \* leave the barrier; counters wrap at 2 * m

ASSUME PthreadsAssumption ==
    /\ Consumers \cap Producers = {}
    /\ IsFiniteSet(Consumers \cup Producers)
    /\ Rounds \in Nat \ {0}
    /\ m \in Nat
    /\ Cardinality(Consumers \cup Producers) \in 2 .. m - 1

VARIABLES
    locks,      \* m->locks: 0 free, 1 taken, 2 taken with sleepers
    gen,        \* c->gen
    bcast,      \* c->bcast
    mq, cq,     \* the sleepers at m->locks and at c->gen, in order
    current,    \* b->current
    items,      \* what the consumers wait for
    tomake,     \* how many items the producers have still to make
    pc, ret,    \* where each thread is, and where lock or unlock return to
    last,       \* gen as each consumer read it
    moveq,      \* consumers whose FUTEX_SLEEP returned 1
    arrived, passed   \* history: how often each thread came to and left the barrier

mutexVars == <<locks, mq, ret>>
condVars == <<gen, bcast, cq, last, moveq>>
barrierVars == <<current, arrived, passed>>
clientVars == <<items, tomake>>
vars == <<mutexVars, condVars, barrierVars, clientVars, pc>>

Threads == Consumers \cup Producers
target == Cardinality(Threads)

Init ==
    /\ locks = 0 /\ mq = <<>>
    /\ gen = 0 /\ bcast = FALSE /\ cq = <<>>
    /\ current = 0
    /\ items = 0 /\ tomake = Cardinality(Consumers)
    /\ pc = [t \in Threads |-> "lock"]
    /\ ret = [t \in Threads |-> IF t \in Consumers THEN "check" ELSE "make"]
    /\ last = [t \in Consumers |-> 0]
    /\ moveq = {}
    /\ arrived = [t \in Threads |-> 0] /\ passed = [t \in Threads |-> 0]

Goto(t, to) == pc' = [pc EXCEPT ![t] = to]
Step(t, from, to) == pc[t] = from /\ Goto(t, to)

\* A call of lock or unlock that will return to the label back.
Call(t, routine, back) ==
    /\ Goto(t, routine)
    /\ ret' = [ret EXCEPT ![t] = back]

\* The thread returns from lock or unlock.
Return(t) ==
    /\ Goto(t, ret[t])
    /\ ret' = [ret EXCEPT ![t] = "none"]

--------------------------------------------------------------------------------
(* pthread_mutex_lock and pthread_mutex_unlock *)

\* The fast path: compare and swap 0 to 1.
LockFast(t) ==
    /\ pc[t] = "lock"
    /\ IF locks = 0 THEN locks' = 1 /\ Return(t)
                    ELSE Goto(t, "upgrade") /\ UNCHANGED <<locks, ret>>
    /\ UNCHANGED <<mq, condVars, barrierVars, clientVars>>

\* Mutant: a lock without sleepers is taken for free.
Lucky_NotTwo(old) == old # 2

Lucky(old) == old = 0

\* Test and set to 2, "has waiters".
LockUpgrade(t) ==
    /\ pc[t] = "upgrade"
    /\ locks' = 2
    /\ IF Lucky(locks) THEN Return(t) ELSE Goto(t, "sleep") /\ UNCHANGED ret
    /\ UNCHANGED <<mq, condVars, barrierVars, clientVars>>

\* FUTEX_SLEEP on m->locks, expecting 2.
LockSleep(t) ==
    /\ pc[t] = "sleep"
    /\ IF locks = 2 THEN Goto(t, "asleep") /\ mq' = Append(mq, t)
                    ELSE Goto(t, "upgrade") /\ UNCHANGED mq
    /\ UNCHANGED <<locks, ret, condVars, barrierVars, clientVars>>

UnlockSwap(t) ==
    /\ pc[t] = "unlock"
    /\ locks' = 0
    /\ IF locks = 2 THEN Goto(t, "wake") /\ UNCHANGED ret ELSE Return(t)
    /\ UNCHANGED <<mq, condVars, barrierVars, clientVars>>

\* Where a sleeper goes when it is woken: back into the loop of lock, or, from
\* pthread_cond_wait, on to lock the mutex.
Woken(u) == IF pc[u] = "asleep" THEN "upgrade" ELSE "lock"

\* FUTEX_WAKE 1 on m->locks.
UnlockWake(t) ==
    /\ pc[t] = "wake"
    /\ IF mq = <<>>
       THEN Return(t) /\ UNCHANGED mq
       ELSE LET u == Head(mq) IN
            /\ pc' = [pc EXCEPT ![t] = ret[t], ![u] = Woken(u)]
            /\ ret' = [ret EXCEPT ![t] = "none",
                                  ![u] = IF pc[u] = "asleep" THEN @ ELSE "relocked"]
            /\ mq' = Tail(mq)
    /\ UNCHANGED <<locks, condVars, barrierVars, clientVars>>

--------------------------------------------------------------------------------
(* pthread_cond_wait, pthread_cond_signal and pthread_cond_broadcast *)

\* A consumer that holds the mutex takes an item, or calls pthread_cond_wait,
\* which reads gen and unlocks.
Check(t) ==
    /\ pc[t] = "check"
    /\ IF items > 0
       THEN items' = items - 1 /\ Call(t, "unlock", "arrive") /\ UNCHANGED last
       ELSE /\ last' = [last EXCEPT ![t] = gen]
            /\ Call(t, "unlock", "condsleep") /\ UNCHANGED items
    /\ UNCHANGED <<locks, mq, gen, bcast, cq, moveq, barrierVars, tomake>>

\* FUTEX_SLEEP on c->gen, expecting last.
CondSleep(t) ==
    /\ pc[t] = "condsleep"
    /\ IF gen = last[t]
       THEN cq' = Append(cq, t) /\ Goto(t, "condasleep") /\ UNCHANGED ret
       ELSE Call(t, "lock", "relocked") /\ UNCHANGED cq
    /\ last' = [last EXCEPT ![t] = 0]
    /\ UNCHANGED <<locks, mq, gen, bcast, moveq, barrierVars, clientVars>>

\* The first sleeper after a broadcast has the others moved to the mutex.
CondGive(t) ==
    /\ Step(t, "relocked", "mark")
    /\ IF t \in moveq
       THEN bcast' = TRUE /\ mq' = mq \o cq /\ cq' = <<>> /\ moveq' = moveq \ {t}
       ELSE UNCHANGED <<bcast, mq, cq, moveq>>
    /\ UNCHANGED <<locks, ret, gen, last, barrierVars, clientVars>>

\* Mutant: the mutex is left at 1 over the sleepers that were moved to it.
CondMark_Off(t) ==
    /\ Step(t, "mark", "check")
    /\ UNCHANGED <<mutexVars, condVars, barrierVars, clientVars>>

\* m->locks = 2 once there was a broadcast.
CondMark(t) ==
    /\ Step(t, "mark", "check")
    /\ locks' = IF bcast THEN 2 ELSE locks
    /\ UNCHANGED <<mq, ret, condVars, barrierVars, clientVars>>

\* A producer that holds the mutex makes one item and signals, or some of
\* those that are left and broadcasts; one with nothing to make only unlocks.
Make(t) ==
    /\ pc[t] = "make"
    /\ \/ tomake = 0 /\ Call(t, "unlock", "arrive") /\ UNCHANGED clientVars
       \/ /\ tomake > 0
          /\ items' = items + 1 /\ tomake' = tomake - 1
          /\ Goto(t, "signal") /\ UNCHANGED ret
       \/ \E n \in 1..tomake :
          /\ items' = items + n /\ tomake' = tomake - n
          /\ Goto(t, "broadcast") /\ UNCHANGED ret
    /\ UNCHANGED <<locks, mq, condVars, barrierVars>>

\* Mutant: gen is not counted up.
NextGen_Same(g) == g

NextGen(g) == (g + 1) % (2 * m)

CondBump(t) ==
    /\ Step(t, "signal", "wakeone") \/ Step(t, "broadcast", "wakeall")
    /\ gen' = NextGen(gen)
    /\ UNCHANGED <<mutexVars, bcast, cq, last, moveq, barrierVars, clientVars>>

\* FUTEX_WAKE on c->gen, of one sleeper or of all.
CondWake(t) ==
    /\ pc[t] \in {"wakeone", "wakeall"}
    /\ IF cq = <<>>
       THEN Call(t, "unlock", "next") /\ UNCHANGED <<cq, moveq>>
       ELSE /\ pc' = [pc EXCEPT ![t] = "unlock", ![Head(cq)] = "lock"]
            /\ ret' = [ret EXCEPT ![t] = "next", ![Head(cq)] = "relocked"]
            /\ cq' = Tail(cq)
            /\ moveq' = IF pc[t] = "wakeall" THEN moveq \cup {Head(cq)} ELSE moveq
    /\ UNCHANGED <<locks, mq, gen, bcast, last, barrierVars, clientVars>>

Again(t) ==
    /\ pc[t] = "next"
    /\ Call(t, "lock", "make")
    /\ UNCHANGED <<locks, mq, condVars, barrierVars, clientVars>>

--------------------------------------------------------------------------------
(* pthread_barrier_wait *)

\* Mutant: threads still leaving the last round are not waited for.
MayArrive_Always == TRUE

MayArrive == current < m

\* The loop that counts a thread in; the one that makes the number full goes on
\* to open the barrier.
Arrive(t) ==
    /\ Step(t, "arrive", IF current + 1 = target THEN "open" ELSE "spin")
    /\ MayArrive
    /\ current' = current + 1
    /\ arrived' = [arrived EXCEPT ![t] = @ + 1]
    /\ UNCHANGED <<mutexVars, condVars, passed, clientVars>>

\* After the last round the thread ends.
Leave(t) ==
    /\ passed' = [passed EXCEPT ![t] = @ + 1]
    /\ Goto(t, IF passed[t] + 1 < Rounds THEN "arrive" ELSE "done")

Open(t) ==
    /\ pc[t] = "open"
    /\ current' = (current - 1) + m
    /\ Leave(t)
    /\ UNCHANGED <<mutexVars, condVars, arrived, clientVars>>

\* A thread that sees the bit counts itself out; the last one starts over.
Spin(t) ==
    /\ pc[t] = "spin" /\ current >= m
    /\ current' = current - 1
    /\ IF current - 1 = m THEN Goto(t, "reset") /\ UNCHANGED passed ELSE Leave(t)
    /\ UNCHANGED <<mutexVars, condVars, arrived, clientVars>>

Reset(t) ==
    /\ pc[t] = "reset"
    /\ current' = 0
    /\ Leave(t)
    /\ UNCHANGED <<mutexVars, condVars, arrived, clientVars>>

--------------------------------------------------------------------------------
ThreadStep(t) ==
    \/ LockFast(t) \/ LockUpgrade(t) \/ LockSleep(t) \/ UnlockSwap(t) \/ UnlockWake(t)
    \/ Check(t) \/ CondSleep(t) \/ CondGive(t) \/ CondMark(t)
    \/ Make(t) \/ CondBump(t) \/ CondWake(t) \/ Again(t)
    \/ Arrive(t) \/ Open(t) \/ Spin(t) \/ Reset(t)

Finished == (\A t \in Threads : pc[t] = "done") /\ UNCHANGED vars

Next == (\E t \in Threads : ThreadStep(t)) \/ Finished

Spec == Init /\ [][Next]_vars

\* While a thread can go on, some thread does.  Which one does not matter: a
\* thread goes round a loop again only after a step of another, and none spins
\* in the model.
FairSpec == Spec /\ WF_vars(\E t \in Threads : ThreadStep(t))

--------------------------------------------------------------------------------
(* Properties *)

Holding == {"check", "relocked", "mark", "make", "signal", "broadcast", "wakeone",
            "wakeall", "unlock"}

\* At most one thread is between the return of pthread_mutex_lock and the swap
\* in pthread_mutex_unlock, and the mutex is then not free: not when the fast
\* path, the upgrade and the store of 2 in pthread_cond_wait interleave either.
MutexExclusion ==
    \A t \in Threads : pc[t] \in Holding =>
        locks # 0 /\ \A u \in Threads : pc[u] \in Holding => u = t

\* A thread asleep at the mutex, in lock or moved there from the condition
\* variable, will be woken: the mutex says so, or its holder is about to mark it,
\* or a wake-up or a thread that will mark the mutex is on its way.
SleeperRemembered ==
    mq # <<>> =>
        \/ locks = 2
        \/ \E t \in Threads :
              \/ pc[t] \in {"wake", "upgrade"}
              \/ /\ pc[t] \in {"relocked", "mark"} \/ (pc[t] = "lock" /\ ret[t] = "relocked")
                 /\ bcast \/ t \in moveq

\* Nobody leaves a round of the barrier before everybody has come to it, also
\* when fast threads come to the next round while slow ones still leave.
BarrierTogether == \A t, u \in Threads : passed[t] <= arrived[u]

\* Every thread gets through: no wake-up of the mutex, of signal or of broadcast
\* is lost, and the barrier can be used again.
AllDone == <>(\A t \in Threads : pc[t] = "done")
================================================================================
