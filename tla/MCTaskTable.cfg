\* init and two more tasks in any family, with the reclaimer running.
CONSTANTS
    MaxTasks = 3
    Codes = {1}
    Reclaims = TRUE
SPECIFICATION FairSpec
INVARIANTS
    Adopted
    WaitGetsCode
    SignalAfterDone
PROPERTIES
    ZombiesReclaimed
