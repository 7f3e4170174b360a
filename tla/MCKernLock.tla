------------------------------ MODULE MCKernLock ------------------------------
EXTENDS KernLock, TLC

Symmetry == Permutations(Threads)
===============================================================================
