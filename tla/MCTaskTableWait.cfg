\* init waits for its only child.
CONSTANTS
    MaxTasks = 2
    Codes = {1}
    Reclaims = FALSE
SPECIFICATION Spec
INVARIANTS
    WaitFindsZombie
