CONSTANTS
    c1 = c1
    c2 = c2
    f1 = f1
    f2 = f2
    None = None
    Clients = {c1, c2}
    Writers = {c2}
    Features = {f1, f2}
    MaxGrants = 2
    MaxLocks = 2
    MaxPerOwner = 1
    MaxFaults = 1
    MaxCrashes = 1
SPECIFICATION FairSpec
INVARIANTS GrantSurvives GrantsExclusive
PROPERTIES WritesRespectLocks RequestsFinish
