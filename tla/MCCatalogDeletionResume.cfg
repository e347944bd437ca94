CONSTANTS
    s1 = s1
    w = w
    c1 = c1
    Services = {s1}
    Workspace = w
    Published = {s1}
    Calls = {c1}
    Alone = {}
    None = None
    Traffic = {}
    MaxRaces = 0
    MaxFailures = 1
    MaxCrashes = 1
SPECIFICATION FairSpec
CHECK_DEADLOCK FALSE
PROPERTIES DeletionCompletes
