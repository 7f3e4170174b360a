\* A disk that fails once.
CONSTANTS
    Threads = {t1, t2}
    Keys = {0}
    Width = 2
    Mix <- Mixed
    Values = {a}
    Fill = fill
    Ops = {"put", "sync"}
    MaxErrs = 1
    UsizeMax = 3
SPECIFICATION Spec
INVARIANTS
    CleanMeansWritten
