\* One receiver and one sender.
CONSTANTS
    Receivers = {r1}
    Senders = {s1}
    BufCap = 1
    MaxBatch = 1
    Spurious = FALSE
    MaxQueue = 1
SPECIFICATION Spec
INVARIANTS
    NoSleepWithData
