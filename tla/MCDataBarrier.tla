--------------------------- MODULE MCDataBarrier ---------------------------
(* Instances of DataBarrier for TLC; writers and readers are interchangeable. *)
EXTENDS DataBarrier, TLC

Symmetric == Permutations(Writers) \cup Permutations(Readers)
=============================================================================
