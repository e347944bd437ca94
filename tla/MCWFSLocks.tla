----------------------------- MODULE MCWFSLocks -----------------------------
(* Model-checking instance of WFSLocks. *)
EXTENDS WFSLocks

CONSTANTS c1, c2, f1, f2
=============================================================================
