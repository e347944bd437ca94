----------------------------- MODULE MCTileJobs -----------------------------
(* An instance of TileJobs: tiled has one chunk, clear is an unbounded      *)
(* truncate of all resources, and split, which is created on its own, has   *)
(* two chunks that run at once. A chunk is one tile.                        *)
EXTENDS TileJobs

CONSTANTS tiled, clear, split, c1, c2

MCTilesIn == [c \in Chunks |-> 1]

MCChunksOf == [j \in Jobs |-> CASE j = tiled -> {c2} [] j = clear -> {} [] j = split -> {c1, c2}]

MCResourceOf == [j \in Jobs |-> IF j = clear THEN AllResources ELSE CHOOSE r \in Resources : TRUE]
=============================================================================
