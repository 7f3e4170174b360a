----------------------------- MODULE MCSyncQueue -----------------------------
(* SyncQueue in two scenes, one of which a behaviour starts in and stays in. *)
EXTENDS SyncQueue

CONSTANT Few   \* the threads of the scene "stale"

VARIABLE scene

\* All threads at one queue, with waits that end only when they are woken.
Crowd ==
    \/ \E t \in Waiters :
          \/ \E o \in {"park_on", "wait_ev", "wait_guard"} : Wait(t, o, 1)
          \/ WaitStep(t)
    \/ \E s \in Signalers :
          \/ Produce(s) \/ Signal(s, 1) \/ Broadcast(s, 1) \/ SignalStep(s)
          \/ \E n \in 1..2 : SignalN(s, 1, n)

\* A few threads at all queues, with timeouts and spurious returns.
Stale ==
    \/ \E t \in Waiters \cap Few :
          \/ \E o \in WaitOps \ {"wait_ev", "wait_guard"}, k \in Queues : Wait(t, o, k)
          \/ WaitStep(t) \/ WakeUnasked(t)
    \/ \E s \in Signalers \cap Few :
          \/ Produce(s) \/ SignalStep(s)
          \/ \E k \in Queues : Signal(s, k) \/ Broadcast(s, k)

MCInit == Init /\ scene \in {"crowd", "stale"}

MCNext ==
    /\ UNCHANGED scene
    /\ (scene = "crowd" /\ Crowd) \/ (scene = "stale" /\ Stale)

MCSpec == MCInit /\ [][MCNext]_<<vars, scene>> /\ Fairness
==============================================================================
