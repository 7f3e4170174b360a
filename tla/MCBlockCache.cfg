\* All operations and a disk with no fault, one, or a lasting one; 128 is the first
\* block whose two hashes differ.
CONSTANTS
    Threads = {t1, t2}
    Keys = {0, 128}
    Width = 2
    Mix <- Mixed
    Values = {a, b}
    Fill = fill
    Ops = {"fetch", "put", "sync", "invalidate", "evict_cold"}
    MaxErrs = 1
    UsizeMax = 3
SPECIFICATION FairSpec
INVARIANTS
    OneSlotPerBlock
    WrittenUnlessFault
PROPERTIES
    FetchSeesLastPut
    KernelLockReleased
