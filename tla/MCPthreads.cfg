\* Three consumers: a broadcast wakes one and two are moved to the mutex.  The
\* producer signals and broadcasts in any order, so that a broadcast meets new
\* waiters, signals and another broadcast before its sleepers have been moved.
CONSTANTS
    Consumers = {c1, c2, c3}
    Producers = {p1}
    Rounds = 3
    m = 8
SPECIFICATION FairSpec
INVARIANTS MutexExclusion SleeperRemembered BarrierTogether
PROPERTIES AllDone
