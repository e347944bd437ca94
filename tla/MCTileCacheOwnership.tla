------------------------ MODULE MCTileCacheOwnership ------------------------
(* Instances of TileCacheOwnership for TLC: the cfg files give the starts   *)
(* and say whether the operator follows the documented procedure.           *)
EXTENDS TileCacheOwnership
=============================================================================
