------------------------------ MODULE MCTaskTable ------------------------------
(* Instances of TaskTable for TLC. *)
EXTENDS TaskTable, TLC
================================================================================
