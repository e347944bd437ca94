SPECIFICATION FairSpec
CONSTANTS
    Keys = {a, b}
    KeysOf1 = {a}
    GlobalQuota = 3
    ResourceQuota = 2
    PurgeR2 = TRUE
    Scopes <- MCScopes
    ScopesOf <- MCScopesOf
    Quota <- MCQuota
    WipedBy <- MCWipedBy
    Sizes = {1, 2}
    Readers = {r}
    Ambiguous = TRUE
    MaxPuts = 2
    MaxCrashes = 1
INVARIANTS UsageAccurate ServedPayload QuotaHeld
PROPERTIES PendingResolved
CHECK_DEADLOCK FALSE
