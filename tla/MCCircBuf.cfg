\* A capacity that divides the width, as the powers of two in use do.
CONSTANTS
    Bytes = {x, y}
    Cap = 4
    Wrap = 8
    Batches <- Slices
    MaxDrain = 3
SPECIFICATION RingSpec
PROPERTIES
    IsFifo
