CONSTANTS
    w1 = w1
    w2 = w2
    a1 = a1
    a2 = a2
    r1 = r1
    r2 = r2
    Workers = {w1, w2}
    Rollers = {a1, a2}
    Call = Call
    Revisions = {r1, r2}
    MaxRetries = 1
    MaxFaults = 1
    MaxCrashes = 1
    None = None
    Final = Final
SPECIFICATION FairSpec
INVARIANTS ServedFileKept SelectedRevisionKept CancelledLeavesNothing
PROPERTIES ImportSettles
CHECK_DEADLOCK FALSE
