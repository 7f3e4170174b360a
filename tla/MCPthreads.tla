------------------------------- MODULE MCPthreads ------------------------------
(* Pthreads for TLC.  There is no symmetry: the run checks liveness. *)
EXTENDS Pthreads
================================================================================
