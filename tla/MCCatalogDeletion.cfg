CONSTANTS
    s1 = s1
    w = w
    c1 = c1
    c2 = c2
    c3 = c3
    Services = {s1}
    Workspace = w
    Published = {}
    Calls = {c1, c2, c3}
    Alone = {c3}
    None = None
    Traffic = {s1}
    MaxRaces = 1
    MaxFailures = 1
    MaxCrashes = 1
SPECIFICATION Spec
SYMMETRY Symmetric
INVARIANTS ManagedFileKept CompletedIsClean
PROPERTIES DeletedStaysHidden
CHECK_DEADLOCK FALSE
