--------------------------- MODULE MCManagedImport --------------------------
(* Instances of ManagedImport for TLC. *)
EXTENDS ManagedImport
=============================================================================
