\* One waiter, one waker and one word.
CONSTANTS
    Waiters = {t1}
    Wakers = {k1}
    Addrs = {a}
    MaxCount = 1
    MaxStale = 0
SPECIFICATION FutexSpec
INVARIANTS
    NoSleepAfterChange
