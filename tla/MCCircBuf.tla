------------------------------- MODULE MCCircBuf -------------------------------
(* Instances of CircBuf with a usize of three bits. *)
EXTENDS CircBuf, TLC

Slices == {<<>>} \cup {<<a, b>> : a, b \in Bytes} \cup {<<a, b, a>> : a, b \in Bytes}
================================================================================
