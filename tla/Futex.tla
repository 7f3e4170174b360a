--------------------------------- MODULE Futex ---------------------------------
(***************************************************************************)
(* FutexBucket of futex.rs: one list of waiters for several addresses,     *)
(* each entry with the flag of the call that pushed it.  wait compares the *)
(* futex word before it locks the list, and never takes its entry back:    *)
(* a wait that times out leaves an entry that is live no more.  A step is  *)
(* one critical section of the list, one access to the word or to a flag,  *)
(* or the return of park.                                                  *)
(***************************************************************************)
EXTENDS Naturals, Sequences, FiniteSets

CONSTANTS
    Waiters,     \* the threads that wait
    Wakers,      \* the threads that change a word and wake or requeue
    Addrs,       \* the addresses of the futex words
    MaxCount,    \* the largest count given to wake and requeue
    MaxStale     \* bound on the entries of waits that gave up

ASSUME FutexAssumption ==
    /\ Waiters \cap Wakers = {}
    /\ MaxCount \in Nat /\ MaxStale \in Nat

VARIABLES
    val,        \* the word at each address
    waiters,    \* the list of entries
    flag,       \* the flag of the current wait of each waiter
    token,      \* the park token of each waiter
    place,      \* where each thread is
    call,       \* the arguments of the current wait of each waiter
    wakeAt,     \* the address a waker has stored to and will wake, as a set
    before      \* history: the pairs of sleepers not woken yet, first come first

futexVars == <<val, waiters, flag, token, place, call, wakeAt, before>>

Words == {0, 1}
FutexThreads == Waiters \cup Wakers
NoCall == [addr |-> {}, expected |-> 0]

FutexInit ==
    /\ val = [a \in Addrs |-> 0]
    /\ waiters = <<>>
    /\ flag = [t \in Waiters |-> FALSE]
    /\ token = [t \in Waiters |-> FALSE]
    /\ place = [t \in FutexThreads |-> "idle"]
    /\ call = [t \in Waiters |-> NoCall]
    /\ wakeAt = [k \in Wakers |-> {}]
    /\ before = {}

Goes(t, from, to) ==
    /\ place[t] = from
    /\ place' = [place EXCEPT ![t] = to]

--------------------------------------------------------------------------------
(* wait *)

\* The flag of the call is new and clear; the word is not looked at yet.
Wait(t, a, v) ==
    /\ Goes(t, "idle", "compare")
    /\ call' = [call EXCEPT ![t] = [addr |-> a, expected |-> v]]
    /\ UNCHANGED <<val, waiters, flag, token, wakeAt, before>>

\* The word is compared with no lock held; "changed" is an early return.
Compare(t) ==
    /\ place[t] = "compare"
    /\ IF val[call[t].addr] = call[t].expected
       THEN Goes(t, "compare", "push") /\ UNCHANGED call
       ELSE Goes(t, "compare", "idle") /\ call' = [call EXCEPT ![t] = NoCall]
    /\ UNCHANGED <<val, waiters, flag, token, wakeAt, before>>

\* t has its entry in the list, or had it, and its flag is not set.
Asleep(t) == place[t] \in {"parked", "check"} /\ ~flag[t]

Push(t) ==
    /\ Goes(t, "push", "parked")
    /\ waiters' = Append(waiters, [addr |-> call[t].addr, thread |-> t, live |-> TRUE])
    /\ before' = before \cup ({u \in Waiters : Asleep(u)} \X {t})
    /\ UNCHANGED <<val, flag, token, call, wakeAt>>

\* park and park_timeout return on a token, which may be one that a wake of an
\* earlier wait left behind; park_timeout also returns at its time, and park may
\* return for no reason.
Unparked(t) ==
    /\ Goes(t, "parked", "check")
    /\ token[t] \/ Cardinality({i \in DOMAIN waiters : ~waiters[i].live}) < MaxStale
    /\ token' = [token EXCEPT ![t] = FALSE]
    /\ UNCHANGED <<val, waiters, flag, call, wakeAt, before>>

\* wait returns Ok if the flag is set and "timeout" if not; the entry, if it is
\* still listed, is then one whose flag nobody reads.
WaitReturn(t) ==
    /\ Goes(t, "check", "idle")
    /\ waiters' = [i \in DOMAIN waiters |->
                      IF waiters[i].thread = t THEN [waiters[i] EXCEPT !.live = FALSE]
                                               ELSE waiters[i]]
    /\ flag' = [flag EXCEPT ![t] = FALSE]
    /\ call' = [call EXCEPT ![t] = NoCall]
    /\ before' = before \cap ((Waiters \ {t}) \X (Waiters \ {t}))
    /\ UNCHANGED <<val, token, wakeAt>>

--------------------------------------------------------------------------------
(* wake and requeue *)

\* The futex protocol: the word is changed first.
Store(k, a, v) ==
    /\ Goes(k, "idle", "wake")
    /\ val' = [val EXCEPT ![a] = v]
    /\ wakeAt' = [wakeAt EXCEPT ![k] = {a}]
    /\ UNCHANGED <<waiters, flag, token, call, before>>

\* How many entries at the addresses A stand before position i.
Ahead(A, i) == Cardinality({j \in 1 .. i - 1 : waiters[j].addr \in A})

\* The positions of count entries at A, after the first skip of them.
Entries(A, skip, count) ==
    {i \in DOMAIN waiters :
        waiters[i].addr \in A /\ Ahead(A, i) \in skip .. (skip + count - 1)}

\* Mutant: the flag is set but the thread is not unparked.
Signal_NoUnpark(S) ==
    /\ flag' = [t \in Waiters |-> flag[t] \/ \E i \in S : waiters[i].thread = t /\ waiters[i].live]
    /\ LET left == {t \in Waiters : ~flag'[t]} IN before' = before \cap (left \X left)
    /\ UNCHANGED token

\* The flags of the entries at positions S are set and their threads unparked.
Signal(S) ==
    /\ flag' = [t \in Waiters |-> flag[t] \/ \E i \in S : waiters[i].thread = t /\ waiters[i].live]
    /\ token' = [t \in Waiters |-> token[t] \/ \E i \in S : waiters[i].thread = t]
    /\ LET left == {t \in Waiters : ~flag'[t]} IN before' = before \cap (left \X left)

\* retain: q without the entries at positions S.
Without(q, S) ==
    LET kept[n \in 0 .. Len(q)] ==
            IF n = 0 THEN <<>>
            ELSE IF n \in S THEN kept[n - 1] ELSE Append(kept[n - 1], q[n])
    IN  kept[Len(q)]

Wake(k, count) ==
    LET S == Entries(wakeAt[k], 0, count) IN
    /\ Goes(k, "wake", "idle")
    /\ Signal(S)
    /\ waiters' = Without(waiters, S)
    /\ wakeAt' = [wakeAt EXCEPT ![k] = {}]
    /\ UNCHANGED <<val, call>>

\* Mutant: the entries that move go to the end of the list.
Moved_ToEnd(M, dst) ==
    LET last == Without(waiters, DOMAIN waiters \ M)
    IN  Without(waiters, M) \o [i \in DOMAIN last |-> [last[i] EXCEPT !.addr = dst]]

\* The list after the entries at positions M are given the address dst.
Moved(M, dst) ==
    [i \in DOMAIN waiters |->
        IF i \in M THEN [waiters[i] EXCEPT !.addr = dst] ELSE waiters[i]]

\* Mutant: what is left at the address is dropped with the woken entries.
Requeue_DropsRest(k, dst, wake_n, move_n) ==
    LET S == Entries(wakeAt[k], 0, wake_n)
        moved == Moved(Entries(wakeAt[k], wake_n, move_n), dst)
    IN
    /\ Goes(k, "wake", "idle")
    /\ Signal(S)
    /\ waiters' = Without(moved, {i \in DOMAIN moved : moved[i].addr \in wakeAt[k]})
    /\ wakeAt' = [wakeAt EXCEPT ![k] = {}]
    /\ UNCHANGED <<val, call>>

\* The first wake_n entries of the address are woken, the next move_n get the
\* address dst where they stand; the woken ones are then dropped.
Requeue(k, dst, wake_n, move_n) ==
    LET S == Entries(wakeAt[k], 0, wake_n)
        M == Entries(wakeAt[k], wake_n, move_n)
    IN
    /\ Goes(k, "wake", "idle")
    /\ Signal(S)
    /\ waiters' = Without(Moved(M, dst), S)
    /\ wakeAt' = [wakeAt EXCEPT ![k] = {}]
    /\ UNCHANGED <<val, call>>

--------------------------------------------------------------------------------
WaitStep(t) == Unparked(t) \/ WaitReturn(t)

FutexNext ==
    \/ \E t \in Waiters :
          \/ \E a \in Addrs, v \in Words : Wait(t, a, v)
          \/ Compare(t) \/ Push(t) \/ Unparked(t) \/ WaitReturn(t)
    \/ \E k \in Wakers :
          \/ \E a \in Addrs, v \in Words : Store(k, a, v)
          \/ \E c \in 0 .. MaxCount : Wake(k, c)
          \/ \E dst \in Addrs, w, m \in 0 .. MaxCount : Requeue(k, dst, w, m)

FutexSpec == FutexInit /\ [][FutexNext]_futexVars

\* A thread whose park can return is scheduled again, and then reads its flag.
FairFutexSpec == FutexSpec /\ \A t \in Waiters : WF_futexVars(WaitStep(t))

--------------------------------------------------------------------------------
(* Properties *)

Live(t) == {i \in DOMAIN waiters : waiters[i].thread = t /\ waiters[i].live}

\* A thread parked in wait can still be reached: its flag is not set and the
\* list holds exactly one live entry for it, whatever was woken and requeued
\* meanwhile, or its flag is set, no entry is left and its token is there.
SleeperReachable ==
    \A t \in Waiters : place[t] = "parked" =>
        IF flag[t] THEN Live(t) = {} /\ token[t] ELSE Cardinality(Live(t)) = 1

\* Of two threads that sleep at one address the one that came first is woken
\* first, also when requeue moved one or both of them there.
WokenInArrivalOrder ==
    [][\A t, u \in Waiters :
          (/\ place[t] = "parked" /\ place[u] = "parked"
           /\ <<t, u>> \in before
           /\ \E i \in Live(t), j \in Live(u) : waiters[i].addr = waiters[j].addr
           /\ ~flag[u] /\ flag'[u])
          => flag'[t]]_futexVars

\* A thread that wake or requeue counted while it slept comes out of wait.
WokenReturns ==
    \A t \in Waiters : (place[t] = "parked" /\ flag[t]) ~> (place[t] = "idle")

\* A thread does not sleep on a word that no longer has the expected value once
\* the thread that changed it has made its wake call.
NoSleepAfterChange ==
    \A t \in Waiters :
        (/\ place[t] = "parked" /\ ~token[t]
         /\ \A k \in Wakers : place[k] = "idle")
        => val[call[t].addr] = call[t].expected
================================================================================
