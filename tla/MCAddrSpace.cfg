\* Two pages and fewer frames than pages to fill, so that faults run out of frames; a counter
\* may reach 3 through a second child.
CONSTANTS
    Procs = {p1, p2}
    Root = p1
    Threads = {t1, t2}
    NPages = 2
    NFrames = 2
    Values = {0}
    MaxRc = 3
SPECIFICATION Spec
SYMMETRY Symmetry
INVARIANTS
    TypeOK
    InPlaceIsPrivate
    FramesOwned
    SharedAtSamePage
    RegionsDisjoint
