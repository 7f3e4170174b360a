\* One pipe between two tasks, and room for the copies dup and fork make.
CONSTANTS
    Threads = {t1}
    Tasks = {k1, k2}
    First = k1
    Pipes = {p1}
    N_PROC = 4
    MaxFd = 2
SPECIFICATION Spec
INVARIANTS EndsAreLive
