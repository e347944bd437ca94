---------------------------- MODULE MCMosaicSTAC ----------------------------
(* Model-checking instance of MosaicSTAC. *)
EXTENDS MosaicSTAC

CONSTANTS p1, p2
=============================================================================
