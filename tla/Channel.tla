-------------------------------- MODULE Channel --------------------------------
(***************************************************************************)
(* The byte channel of files.rs: a ring behind a mutex, a spin guard that  *)
(* only the receiving side takes, the queue wq of parked receivers and the *)
(* shut flag.  CircBuf shows that the ring is a first-in first-out queue,  *)
(* so here the buffer is its length n.  A step is one critical section of  *)
(* buf or of wq, one access to guard or shut, or the return of park.       *)
(***************************************************************************)
EXTENDS Naturals, Sequences, FiniteSets

CONSTANTS
    Receivers, Senders,   \* the threads on each side
    BufCap,               \* the capacity of the ring
    MaxBatch,             \* the longest slice given to send_batch
    Spurious,             \* park may return without a token
    MaxQueue              \* bound on the length of wq, put on spurious returns

ASSUME ChannelAssumption ==
    /\ BufCap \in Nat \ {0} /\ MaxBatch \in Nat /\ MaxQueue \in Nat
    /\ Spurious \in BOOLEAN
    /\ Receivers \cap Senders = {}

VARIABLES
    n,       \* bytes in the ring
    guard,   \* guard.v
    wq,      \* the receivers parked or about to park, in order
    shut,    \* the closed flag
    token,   \* the park token of each receiver
    pc,      \* where each thread is
    ret      \* what the last recv or try_recv of each receiver returned

vars == <<n, guard, wq, shut, token, pc, ret>>

Threads == Receivers \cup Senders

Init ==
    /\ n = 0
    /\ guard = FALSE
    /\ wq = <<>>
    /\ shut = FALSE
    /\ token = [r \in Receivers |-> FALSE]
    /\ pc = [t \in Threads |-> "idle"]
    /\ ret = [r \in Receivers |-> "none yet"]

Step(t, from, to) ==
    /\ pc[t] = from
    /\ pc' = [pc EXCEPT ![t] = to]

--------------------------------------------------------------------------------
(* recv and try_recv *)

Recv(r) ==
    /\ Step(r, "idle", "lock")
    /\ ret' = [ret EXCEPT ![r] = "none yet"]
    /\ UNCHANGED <<n, guard, wq, shut, token>>

\* Mutant: the guard is stored without being compared.
GuardFree_Blind == TRUE

\* compare_exchange(false, true) on guard.v succeeds.
GuardFree == ~guard

\* The spin loops at the start of recv and after park.
Lock(r) ==
    /\ Step(r, "lock", "first") \/ Step(r, "relock", "final")
    /\ GuardFree
    /\ guard' = TRUE
    /\ UNCHANGED <<n, wq, shut, token, ret>>

\* try_recv gives up when the guard is taken.
TryRecv(r) ==
    /\ Step(r, "idle", IF guard THEN "idle" ELSE "try")
    /\ guard' = TRUE
    /\ ret' = [ret EXCEPT ![r] = IF guard THEN "nothing" ELSE "none yet"]
    /\ UNCHANGED <<n, wq, shut, token>>

\* The first look at the ring, under buf.
FirstPop(r) ==
    /\ Step(r, "first", IF n > 0 THEN "unlock" ELSE "shut?")
    /\ n' = IF n > 0 THEN n - 1 ELSE n
    /\ ret' = [ret EXCEPT ![r] = IF n > 0 THEN "byte" ELSE @]
    /\ UNCHANGED <<guard, wq, shut, token>>

CheckShut(r) ==
    /\ Step(r, "shut?", IF shut THEN "unlock" ELSE "again")
    /\ ret' = [ret EXCEPT ![r] = IF shut THEN "none" ELSE @]
    /\ UNCHANGED <<n, guard, wq, shut, token>>

\* The second look at the ring, under buf, which is dropped before wq is locked.
LookAgain(r) ==
    /\ Step(r, "again", IF n > 0 THEN "final" ELSE "enqueue")
    /\ UNCHANGED <<n, guard, wq, shut, token, ret>>

Enqueue(r) ==
    /\ Step(r, "enqueue", "release")
    /\ wq' = Append(wq, r)
    /\ UNCHANGED <<n, guard, shut, token, ret>>

\* Mutant: the receiver parks with the guard taken.
ReleaseAndPark_Held(r) ==
    /\ Step(r, "release", "parked")
    /\ UNCHANGED <<n, guard, wq, shut, token, ret>>

ReleaseAndPark(r) ==
    /\ Step(r, "release", "parked")
    /\ guard' = FALSE
    /\ UNCHANGED <<n, wq, shut, token, ret>>

Wake(r) ==
    /\ Step(r, "parked", "relock")
    /\ token[r] \/ (Spurious /\ Len(wq) + Cardinality(Receivers) <= MaxQueue)
    /\ token' = [token EXCEPT ![r] = FALSE]
    /\ UNCHANGED <<n, guard, wq, shut, ret>>

\* The last look: recv returns what it finds, a byte or None; so does try_recv,
\* whose None says nothing about the channel.
FinalPop(r) ==
    /\ Step(r, "final", "unlock") \/ Step(r, "try", "unlock")
    /\ n' = IF n > 0 THEN n - 1 ELSE n
    /\ ret' = [ret EXCEPT ![r] =
                  IF n > 0 THEN "byte" ELSE IF pc[r] = "try" THEN "nothing" ELSE "none"]
    /\ UNCHANGED <<guard, wq, shut, token>>

Unlock(r) ==
    /\ Step(r, "unlock", "idle")
    /\ guard' = FALSE
    /\ UNCHANGED <<n, wq, shut, token, ret>>

\* drain_all takes every byte without taking the guard.
DrainAll(r) ==
    /\ pc[r] = "idle"
    /\ n' = 0
    /\ UNCHANGED <<guard, wq, shut, token, pc, ret>>

--------------------------------------------------------------------------------
(* send, send_batch and close *)

\* Mutant: room is tested once for the whole slice.
Room_Once(k) == IF n < BufCap THEN k ELSE 0

\* How many of k bytes are written before the ring is full.
Room(k) == IF k < BufCap - n THEN k ELSE BufCap - n

\* send is a slice of one byte; either notifies only if it wrote something.
Send(s, k) ==
    /\ Step(s, "idle", IF Room(k) > 0 THEN "notify" ELSE "idle")
    /\ n' = n + Room(k)
    /\ UNCHANGED <<guard, wq, shut, token, ret>>

\* Mutant: the receiver is popped but not unparked.
Notify_NoUnpark(s) ==
    /\ Step(s, "notify", "idle")
    /\ wq' = IF wq = <<>> THEN wq ELSE Tail(wq)
    /\ UNCHANGED <<n, guard, shut, token, ret>>

\* One receiver is popped and unparked under wq, however many bytes came.
Notify(s) ==
    /\ Step(s, "notify", "idle")
    /\ IF wq = <<>>
         THEN UNCHANGED <<wq, token>>
         ELSE wq' = Tail(wq) /\ token' = [token EXCEPT ![Head(wq)] = TRUE]
    /\ UNCHANGED <<n, guard, shut, ret>>

Close(s) ==
    /\ Step(s, "idle", "wakeAll")
    /\ shut' = TRUE
    /\ UNCHANGED <<n, guard, wq, token, ret>>

WakeAll(s) ==
    /\ Step(s, "wakeAll", "idle")
    /\ wq' = <<>>
    /\ token' = [r \in Receivers |-> token[r] \/ \E i \in 1..Len(wq) : wq[i] = r]
    /\ UNCHANGED <<n, guard, shut, ret>>

--------------------------------------------------------------------------------
RecvStep(r) ==
    \/ Lock(r) \/ FirstPop(r) \/ CheckShut(r) \/ LookAgain(r) \/ Enqueue(r)
    \/ ReleaseAndPark(r) \/ Wake(r) \/ FinalPop(r) \/ Unlock(r)

SendStep(s) == Notify(s) \/ WakeAll(s)

Next ==
    \/ \E r \in Receivers : Recv(r) \/ TryRecv(r) \/ DrainAll(r) \/ RecvStep(r)
    \/ \E s \in Senders : (\E k \in 1..MaxBatch : Send(s, k)) \/ Close(s) \/ SendStep(s)

Spec == Init /\ [][Next]_vars

\* Threads inside a call keep being scheduled.  Nobody has to make a call.
Fairness ==
    /\ \A r \in Receivers : WF_vars(RecvStep(r))
    /\ \A s \in Senders : WF_vars(SendStep(s))

FairSpec == Spec /\ Fairness

--------------------------------------------------------------------------------
(* Properties *)

Guarded == {"first", "shut?", "again", "enqueue", "release", "final", "try", "unlock"}

\* The fields keep their types; send and send_batch never fill the ring past
\* its capacity and no reader takes a byte from an empty one.
TypeOK ==
    /\ n \in 0..BufCap
    /\ guard \in BOOLEAN /\ shut \in BOOLEAN
    /\ wq \in Seq(Receivers)
    /\ token \in [Receivers -> BOOLEAN]
    /\ pc \in [Threads -> Guarded \cup {"idle", "lock", "relock", "parked", "notify", "wakeAll"}]
    /\ ret \in [Receivers -> {"none yet", "byte", "none", "nothing"}]

\* One receiver at a time is between taking the guard and giving it back, and
\* guard.v is up exactly then: a receiver that parks has let go of it.
GuardExclusive ==
    /\ \A r, u \in Receivers : pc[r] \in Guarded /\ pc[u] \in Guarded => r = u
    /\ guard <=> \E r \in Receivers : pc[r] \in Guarded

\* A receiver that is parked, or about to, is still in wq or its token is set:
\* neither send nor close drops it between the pop and the unpark.
WakeAccounted ==
    \A r \in Receivers :
        pc[r] \in {"release", "parked"} => token[r] \/ \E i \in 1..Len(wq) : wq[i] = r

\* A guard that is taken is given back: no receiver parks on an empty channel or
\* returns with it.  Which of several spinning receivers gets it next is open.
GuardReleased == guard ~> ~guard

Settled == \A s \in Senders : pc[s] = "idle"

\* The comment of recv: it blocks until there is data to read.  With no send
\* under way a receiver does not sleep unawakened while the ring holds a byte.
NoSleepWithData ==
    Settled /\ n > 0 => \A r \in Receivers : pc[r] = "parked" => token[r]

\* The comment of close: receivers blocked in recv return None.  When close is
\* through, no receiver stays asleep.
NoSleepAfterClose ==
    Settled /\ shut => \A r \in Receivers : pc[r] = "parked" => token[r]

\* The comment of recv: None means that the channel is empty and closed.
NoneMeansClosed ==
    \A r \in Receivers : pc[r] = "unlock" /\ ret[r] = "none" => shut
================================================================================
