------------------------------- MODULE MCChannel -------------------------------
(* Instances of Channel for TLC. *)
EXTENDS Channel, TLC

Symmetry == Permutations(Receivers) \cup Permutations(Senders)
================================================================================
