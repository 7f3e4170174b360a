------------------------------ MODULE MCBlockCache ------------------------------
(* Instances of BlockCache for TLC. *)
EXTENDS BlockCache, Bitwise, TLC

\* raw ^ (raw >> 7), with which fetch and put choose a chain.
Mixed(k) == k ^^ shiftR(k, 7)

Symmetry == Permutations(Threads) \cup Permutations(Values)
================================================================================
