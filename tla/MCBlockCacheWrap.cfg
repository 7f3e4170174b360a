\* Two accesses that both load the last fault.
CONSTANTS
    Threads = {t1, t2}
    Keys = {0, 1}
    Width = 2
    Mix <- Mixed
    Values = {a}
    Fill = fill
    Ops = {"fetch"}
    MaxErrs = 1
    UsizeMax = 3
SPECIFICATION Spec
PROPERTIES
    DiskRecovers
