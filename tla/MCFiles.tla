--------------------------------- MODULE MCFiles -------------------------------
(* Files for TLC. *)
EXTENDS Files
================================================================================
