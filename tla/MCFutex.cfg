\* Two waiters at two addresses: entries of waits that gave up, of sleepers
\* that were requeued and of newcomers stand in one list.
CONSTANTS
    Waiters = {t1, t2}
    Wakers = {k1}
    Addrs = {a, b}
    MaxCount = 2
    MaxStale = 1
SPECIFICATION FairFutexSpec
INVARIANTS
    SleeperReachable
PROPERTIES
    WokenInArrivalOrder
    WokenReturns
