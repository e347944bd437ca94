CONSTANTS
    p1 = p1
    p2 = p2
    p3 = p3
    Procs = {p1, p2, p3}
    None = None
    MaxMutations = 2
SPECIFICATION FairSpec
INVARIANTS SingleWriter FencedIsQuiet
PROPERTIES ImplementsPrefix OnlyOwnerReleases StaleOwnerFenced
CHECK_DEADLOCK FALSE
