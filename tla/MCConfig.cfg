SPECIFICATION Spec
CONSTANTS
    Clients = {c1, c2}
    c1 = c1
    c2 = c2
    None = None
    MaxOps = 3
    MaxEdits = 1
    MaxFails = 1
    MaxCrashes = 1
    MaxVersions = 2
SYMMETRY ClientSymmetry
CHECK_DEADLOCK FALSE
INVARIANTS DurableEntries NoDangling HistoryTruthful
PROPERTIES ImplementsLayers
