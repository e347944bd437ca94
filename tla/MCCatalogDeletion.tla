------------------------- MODULE MCCatalogDeletion --------------------------
(* Instances of CatalogDeletion for TLC; the calls are interchangeable.     *)
EXTENDS CatalogDeletion, TLC

Symmetric == Permutations(Calls \ Alone)
=============================================================================
