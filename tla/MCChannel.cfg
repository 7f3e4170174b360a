\* Spurious returns leave entries in wq that outlive their wait.
CONSTANTS
    Receivers = {r1, r2}
    Senders = {s1, s2}
    BufCap = 2
    MaxBatch = 2
    Spurious = TRUE
    MaxQueue = 3
SPECIFICATION FairSpec
INVARIANTS
    TypeOK
    GuardExclusive
    WakeAccounted
PROPERTIES
    GuardReleased
