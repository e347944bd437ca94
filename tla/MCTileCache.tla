---------------------------- MODULE MCTileCache -----------------------------
(* Small instances of TileCache: the keys of KeysOf1 belong to resource r1, *)
(* the others to r2; both count in the scope global.                        *)
EXTENDS TileCache

CONSTANTS KeysOf1, GlobalQuota, ResourceQuota, PurgeR2

MCScopes   == {"r1", "r2", "global"}
MCScopesOf == [k \in Keys |-> <<IF k \in KeysOf1 THEN "r1" ELSE "r2", "global">>]
MCQuota    == [s \in MCScopes |-> CASE s = "global" -> GlobalQuota
                                    [] s = "r1"     -> ResourceQuota
                                    [] s = "r2"     -> 0]
MCWipedBy  == [s \in (IF PurgeR2 THEN {"r2"} ELSE {}) |-> {s}]
=============================================================================
