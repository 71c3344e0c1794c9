SPECIFICATION MCSpec
CONSTANTS
    Requests = {r1, r2, r3}
    Keys = {"k1", "k2"}
    Groups = {"leaf", "root"}
    Pools = {"p1", "p2"}
    NoGroup = "none"
    NoPool = "any"
    Nobody = Nobody
    Parent <- MCParent
    Buckets <- MCBuckets
    GroupBuckets <- MCGroupBuckets
    Limit <- MCLimit
    ConcurrentCap <- MCConcurrentCap
    MayUse <- MCMayUse
    ShardOf <- MCShardOf
    GovShards = 2
    Fee = 1
    MaxTokens = 1
    SweepAge = 2
    MaxClock = 3
    MaxEdits = 2
SYMMETRY Symmetry
CHECK_DEADLOCK FALSE
INVARIANTS CapsHold OvershootBounded NoCircularWait
