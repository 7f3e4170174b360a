\* Two inode numbers besides the root: a file in a directory, two files that
\* take turns under one name, or a file and a directory racing for it.  Blocks of
\* two bytes and three positions: a write of three bytes covers a block and half
\* of the next, a write of one byte leaves a hole before it.  Two block numbers:
\* two files with a block each, or one whose block was dropped and replaced.
\* A caller that finds no inode number left waits for ever: the bound, not the
\* code, stops it.
SPECIFICATION Spec
CONSTANTS
    Threads = {t1, t2}
    x = x
    y = y
    Paths <- MCPaths
    Bufs <- MCBufs
    BLOCK_SZ = 2
    MaxIno = 2
    MaxBlk = 2
    MaxPos = 3
SYMMETRY Symmetry
VIEW View
INVARIANTS ReadBack BlocksOwned NamesLead
CHECK_DEADLOCK FALSE
