------------------------------ MODULE MCAddrSpace ------------------------------
(* Instances of AddrSpace for TLC. *)
EXTENDS AddrSpace, TLC

Symmetry == Permutations(Procs \ {Root}) \cup Permutations(Threads)
================================================================================
