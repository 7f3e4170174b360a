------------------------------- MODULE MCSimpleFS ------------------------------
(* SimpleFS with two callers, a name in the root and one below it. *)
EXTENDS SimpleFS, TLC

CONSTANTS x, y

\* x can be a file or a directory, and y be in it.
MCPaths == {<<x>>, <<x, y>>}

\* One byte and three: part of a block, and a whole block with part of the next.
MCBufs == {<<1>>, <<2, 1, 2>>}

\* The size of a directory, which truncate may set and nothing reads, tells no two
\* states apart.
View ==
    <<[i \in DOMAIN inodes |-> IF IsDir(i) THEN [inodes[i] EXCEPT !.size = 0] ELSE inodes[i]],
      next_ino, next_blk, store, pc, call, written>>

Symmetry == Permutations(Threads)
================================================================================
