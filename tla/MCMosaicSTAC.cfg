CONSTANTS
    p1 = p1
    p2 = p2
    Paths = {p1, p2}
    MaxJobs = 2
    MaxGen = 3
    MaxFaults = 1
    MaxCrashes = 1
    MaxEdits = 1
    BoundJobs = 1
    BoundGens = 2
SPECIFICATION FairBoth
INVARIANTS LiveGenerationWhole CancelHonoured FingerprintTrue
PROPERTIES EditsKept HarvestsSettle CollectionCatchesUp
CHECK_DEADLOCK FALSE
