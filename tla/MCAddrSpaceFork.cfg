\* A fork between the fault and the write.
CONSTANTS
    Procs = {p1, p2}
    Root = p1
    Threads = {t1}
    NPages = 1
    NFrames = 2
    Values = {0, 1}
    MaxRc = 3
SPECIFICATION Spec
PROPERTIES
    WritesArePrivate
