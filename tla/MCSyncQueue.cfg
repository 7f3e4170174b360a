\* Scene "crowd": three waiters and two signalers at one queue.  Scene "stale": two
\* queues and one signaler; w1 waits on one and until it is woken, w2 in every way,
\* with timeouts and spurious returns whose entries outlive their waits.
CONSTANTS
    Waiters = {w1, w2, w3}
    Signalers = {s1, s2}
    Few = {w1, w2, s1}
    Steady = {w1, w3}
    NQueues = 2
    WaitOps = {"park_on", "wait_ev", "wait_guard", "wait_events", "wait_timeout"}
    SigOps = {"signal", "broadcast", "signal_n"}
    MaxEpoch = 1
    MaxQueue = 2
SPECIFICATION MCSpec
\* All waiters may be parked with the signalers stopped at the epoch bound.
CHECK_DEADLOCK FALSE
INVARIANTS
    TypeOK
    OneWakePerPark
    WakeAccounted
PROPERTIES
    WokenInTurn
