SPECIFICATION FairSpec
CONSTANTS
    tiled = tiled
    clear = clear
    split = split
    c1 = c1
    c2 = c2
    Jobs = {tiled, clear, split}
    Together = {{tiled, clear}, {split}}
    Chunks = {c1, c2}
    ChunksOf <- MCChunksOf
    TilesIn <- MCTilesIn
    Resources = {r1}
    ResourceOf <- MCResourceOf
    AllResources = all
    Clear = {clear}
    Workers = {w1}
    ChunkWorkers = 2
    None = none
    Workspace = ws
    Scopes = {r1}
    MaxRestarts = 1
INVARIANTS QuiescedScopeSilent SkippedTilesRecorded SucceededMeansComplete
PROPERTIES JobsSettle QuiesceReturns
CHECK_DEADLOCK FALSE
