\* Three threads, nesting one past the capacity so that the assert can fire.
CONSTANTS
    Threads = {t1, t2, t3}
    Ids = {0, 7}
    NoTid = noTid
    Cap = 2
    MaxNest = 3
SPECIFICATION FairSpec
\* A thread that panics while inside leaves the lock taken for good.
CHECK_DEADLOCK FALSE
INVARIANTS
    TypeOK
    MutualExclusion
    HolderStackCorrect
    ReleasedClean
    PanicOnlyAtCap
PROPERTIES
    WritesByHolderOnly
    ImplementsReentrantLock
    WaiterProgress
