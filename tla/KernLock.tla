------------------------------- MODULE KernLock -------------------------------
(***************************************************************************)
(* The re-entrant global kernel lock of locking.rs (KernLock, the static   *)
(* GKL), one step per atomic access that another thread can observe.       *)
(* Threads call enter, try_enter and leave the way Kernel::tick,           *)
(* BlockCache::sync_all and the tests do: every leave passes the id of the *)
(* latest enter of the same thread.  Loads that only feed the log are left *)
(* out.  All fields are Relaxed atomics written by the thread that won the *)
(* Acquire/Release flag, so interleaving steps is the memory model.        *)
(***************************************************************************)
EXTENDS Naturals, Sequences

CONSTANTS
    Threads,   \* the threads that use the lock
    Ids,       \* the ids they pass; 0 asks enter to skip the re-entrancy test
    NoTid,     \* the value 0 of owner_tid
    Cap,       \* HOLDER_STACK_CAP
    MaxNest    \* how deep a client nests its enters

ASSUME KernLockAssumption ==
    /\ Ids \subseteq Nat
    /\ NoTid \notin Threads
    /\ Cap \in Nat \ {0}
    /\ MaxNest \in Nat \ {0}

VARIABLES
    flag,          \* flag: the lock is taken
    holder_stack,  \* holder_stack[1..Cap], 0 in the free slots
    depth,         \* depth
    owner_tid,     \* owner_tid
    pc,            \* where each thread is in enter, try_enter or leave
    arg,           \* the id argument of the call in progress
    trying,        \* the call in progress is try_enter
    ld,            \* the local d of the call in progress
    nest           \* the enters each thread has completed and not undone

lock == <<flag, holder_stack, depth, owner_tid>>
locals == <<arg, trying, ld>>
vars == <<lock, pc, locals, nest>>

Slots == 1..Cap
EmptyStack == [i \in Slots |-> 0]

Init ==
    /\ flag = FALSE
    /\ holder_stack = EmptyStack
    /\ depth = 0
    /\ owner_tid = NoTid
    /\ pc = [t \in Threads |-> "idle"]
    /\ arg = [t \in Threads |-> 0]
    /\ trying = [t \in Threads |-> FALSE]
    /\ ld = [t \in Threads |-> 0]
    /\ nest = [t \in Threads |-> <<>>]

Step(t, from, to) ==
    /\ pc[t] = from
    /\ pc' = [pc EXCEPT ![t] = to]

-------------------------------------------------------------------------------
(* enter and try_enter *)

\* The call and its load of owner_tid.  A thread that is inside does not pass
\* id 0: the code would spin on its own lock.
Enter(t, id, try) ==
    /\ Step(t, "idle", IF owner_tid = t /\ id # 0 THEN "loadDepth" ELSE "cas")
    /\ Len(nest[t]) < MaxNest
    /\ id = 0 => nest[t] = <<>>
    /\ arg' = [arg EXCEPT ![t] = id]
    /\ trying' = [trying EXCEPT ![t] = try]
    /\ UNCHANGED <<lock, ld, nest>>

\* Mutants: the overflow assert is gone, or off by one.
Fits_NoAssert == TRUE
Fits_Early == depth + 1 < Cap

\* The condition enter asserts before it pushes.
Fits == depth < Cap

\* let d = depth.load(); assert!(d < HOLDER_STACK_CAP)
ReenterLoad(t) ==
    /\ Step(t, "loadDepth", IF Fits THEN "push" ELSE "panicked")
    /\ ld' = [ld EXCEPT ![t] = depth]
    /\ UNCHANGED <<lock, arg, trying, nest>>

\* Mutant: the id goes into the slot below.
ReenterPush_SlotBelow(t) ==
    /\ Step(t, "push", "incr")
    /\ holder_stack' = [holder_stack EXCEPT ![ld[t]] = arg[t]]
    /\ UNCHANGED <<flag, depth, owner_tid, locals, nest>>

ReenterPush(t) ==
    /\ Step(t, "push", "incr")
    /\ holder_stack' = [holder_stack EXCEPT ![ld[t] + 1] = arg[t]]
    /\ UNCHANGED <<flag, depth, owner_tid, locals, nest>>

ReenterIncr(t) ==
    /\ Step(t, "incr", "idle")
    /\ depth' = depth + 1
    /\ nest' = [nest EXCEPT ![t] = Append(@, arg[t])]
    /\ UNCHANGED <<flag, holder_stack, owner_tid, locals>>

\* Mutant: the flag is stored without being compared.
FlagFree_BlindStore == TRUE

\* compare_exchange(false, true) succeeds.
FlagFree == ~flag

\* A failed compare_exchange changes nothing: enter spins.
AcquireCas(t) ==
    /\ Step(t, "cas", "initStack")
    /\ FlagFree
    /\ flag' = TRUE
    /\ nest' = [nest EXCEPT ![t] = <<arg[t]>>]
    /\ UNCHANGED <<holder_stack, depth, owner_tid, locals>>

\* ... and try_enter returns false.
TryFail(t) ==
    /\ Step(t, "cas", "idle")
    /\ trying[t]
    /\ flag
    /\ UNCHANGED <<lock, locals, nest>>

AcquireStack(t) ==
    /\ Step(t, "initStack", "initDepth")
    /\ holder_stack' = [EmptyStack EXCEPT ![1] = arg[t]]
    /\ UNCHANGED <<flag, depth, owner_tid, locals, nest>>

AcquireDepth(t) ==
    /\ Step(t, "initDepth", "initOwner")
    /\ depth' = 1
    /\ UNCHANGED <<flag, holder_stack, owner_tid, locals, nest>>

AcquireOwner(t) ==
    /\ Step(t, "initOwner", "idle")
    /\ owner_tid' = t
    /\ UNCHANGED <<flag, holder_stack, depth, locals, nest>>

-------------------------------------------------------------------------------
(* leave *)

\* Mutant: the second level is taken for the last one.
LastLevel_OffByOne == depth <= 2

\* leave releases the lock unless it undoes a nested enter.
LastLevel == depth <= 1

\* The call, with the id of the thread's latest enter, and its load of depth.
Leave(t) ==
    /\ Step(t, "idle", IF LastLevel THEN "clearStack" ELSE "pop")
    /\ nest[t] # <<>>
    /\ arg' = [arg EXCEPT ![t] = nest[t][Len(nest[t])]]
    /\ ld' = [ld EXCEPT ![t] = depth]
    /\ UNCHANGED <<lock, trying, nest>>

LeavePop(t) ==
    /\ Step(t, "pop", "decr")
    /\ holder_stack' = [holder_stack EXCEPT ![ld[t]] = 0]
    /\ UNCHANGED <<flag, depth, owner_tid, locals, nest>>

LeaveDecr(t) ==
    /\ Step(t, "decr", "idle")
    /\ depth' = ld[t] - 1
    /\ nest' = [nest EXCEPT ![t] = SubSeq(@, 1, Len(@) - 1)]
    /\ UNCHANGED <<flag, holder_stack, owner_tid, locals>>

ReleaseStack(t) ==
    /\ Step(t, "clearStack", "clearDepth")
    /\ holder_stack' = EmptyStack
    /\ UNCHANGED <<flag, depth, owner_tid, locals, nest>>

\* Mutant: flag is released before owner_tid is cleared.
ReleaseDepth_FlagFirst(t) ==
    /\ Step(t, "clearDepth", "clearOwner")
    /\ depth' = 0
    /\ flag' = FALSE
    /\ UNCHANGED <<holder_stack, owner_tid, locals, nest>>

ReleaseDepth(t) ==
    /\ Step(t, "clearDepth", "clearOwner")
    /\ depth' = 0
    /\ UNCHANGED <<flag, holder_stack, owner_tid, locals, nest>>

\* Mutant: owner_tid is left behind.
ReleaseOwner_Forgotten(t) ==
    /\ Step(t, "clearOwner", "clearFlag")
    /\ UNCHANGED <<lock, locals, nest>>

ReleaseOwner(t) ==
    /\ Step(t, "clearOwner", "clearFlag")
    /\ owner_tid' = NoTid
    /\ UNCHANGED <<flag, holder_stack, depth, locals, nest>>

\* Mutant: leave returns with the flag still up.
ReleaseFlag_Forgotten(t) ==
    /\ Step(t, "clearFlag", "idle")
    /\ nest' = [nest EXCEPT ![t] = SubSeq(@, 1, Len(@) - 1)]
    /\ UNCHANGED <<lock, locals>>

ReleaseFlag(t) ==
    /\ Step(t, "clearFlag", "idle")
    /\ flag' = FALSE
    /\ nest' = [nest EXCEPT ![t] = SubSeq(@, 1, Len(@) - 1)]
    /\ UNCHANGED <<holder_stack, depth, owner_tid, locals>>

-------------------------------------------------------------------------------
Call(t) == \E id \in Ids, try \in BOOLEAN : Enter(t, id, try)

\* The steps of a call in progress, which the thread's own execution takes.
Progress(t) ==
    \/ ReenterLoad(t) \/ ReenterPush(t) \/ ReenterIncr(t)
    \/ AcquireCas(t) \/ TryFail(t)
    \/ AcquireStack(t) \/ AcquireDepth(t) \/ AcquireOwner(t)
    \/ LeavePop(t) \/ LeaveDecr(t)
    \/ ReleaseStack(t) \/ ReleaseDepth(t) \/ ReleaseOwner(t) \/ ReleaseFlag(t)

Next == \E t \in Threads : Call(t) \/ Leave(t) \/ Progress(t)

Spec == Init /\ [][Next]_vars

\* A thread inside enter, try_enter or leave keeps being scheduled.
Fairness == \A t \in Threads : WF_vars(Progress(t))

FairSpec == Spec /\ Fairness

-------------------------------------------------------------------------------
(* Properties *)

Labels == {"idle", "loadDepth", "push", "incr", "panicked", "cas",
           "initStack", "initDepth", "initOwner", "pop", "decr",
           "clearStack", "clearDepth", "clearOwner", "clearFlag"}

\* Every field keeps its type; in particular depth never passes the capacity
\* of holder_stack, which enter asserts before it pushes.
TypeOK ==
    /\ flag \in BOOLEAN
    /\ holder_stack \in [Slots -> Ids \cup {0}]
    /\ depth \in 0..Cap
    /\ owner_tid \in Threads \cup {NoTid}
    /\ pc \in [Threads -> Labels]
    /\ arg \in [Threads -> Ids \cup {0}]
    /\ trying \in [Threads -> BOOLEAN]
    /\ ld \in [Threads -> 0..Cap]
    /\ nest \in [Threads -> Seq(Ids)]

\* Two threads are never inside enter ... leave at once, from the winning
\* compare_exchange of enter to the Release store of leave.
MutualExclusion ==
    \A t, u \in Threads : nest[t] # <<>> /\ nest[u] # <<>> => t = u

\* Between calls the thread inside is the recorded owner, depth counts its
\* nested enters and holder_stack lists their ids: the id leave is given is
\* the one on top, as the comment of leave requires of its callers.
HolderStackCorrect ==
    \A t \in Threads :
        pc[t] = "idle" /\ nest[t] # <<>> =>
            /\ owner_tid = t
            /\ depth = Len(nest[t])
            /\ \A i \in Slots : holder_stack[i] = IF i <= depth THEN nest[t][i] ELSE 0

\* Once flag is down nothing of the last holder is left in the lock.
ReleasedClean ==
    ~flag => owner_tid = NoTid /\ depth = 0 /\ holder_stack = EmptyStack

\* enter panics only for a thread that really has Cap enters open.
PanicOnlyAtCap ==
    \A t \in Threads : pc[t] = "panicked" => Len(nest[t]) = Cap

\* owner_tid, depth and holder_stack are plain Relaxed stores, so only the
\* thread that holds flag may write them: whoever is inside before the step is
\* the thread that takes it.
WritesByHolderOnly ==
    [][\A t \in Threads :
          nest[t] # <<>> /\ <<owner_tid, depth, holder_stack>>' # <<owner_tid, depth, holder_stack>>
            => pc'[t] # pc[t]]_vars

\* The stores and loads of enter, try_enter and leave implement a re-entrant
\* lock whose only state is who is inside and with which ids.
Abstract == INSTANCE ReentrantLock
ImplementsReentrantLock == Abstract!Spec

\* As long as no caller keeps the lock forever (tick and sync_all do bounded
\* work between enter and leave), whenever a thread spins at the
\* compare_exchange of enter some thread gets in: leave never ends with flag up.
WaiterProgress ==
    (\A t \in Threads : []<>(nest[t] = <<>>)) =>
        ((\E t \in Threads : pc[t] = "cas" /\ ~trying[t])
            ~> (\E t \in Threads : pc[t] = "initStack"))
===============================================================================
