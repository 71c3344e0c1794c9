SPECIFICATION StoreSpec
CONSTANTS
    Requests = {r1, r2}
    Pools = {p1}
    Lanes = {1}
    Default = Default
    NoOne = NoOne
    Dropped = Dropped
    Selectors = {s1}
    Members = {1, 2, 3, 4}
    Weight <- MCWeight
SYMMETRY Symmetry
CHECK_DEADLOCK FALSE
INVARIANTS ProbesAccounted HardDownReachesAll FairShare
PROPERTIES ApplyKeepsTrips
