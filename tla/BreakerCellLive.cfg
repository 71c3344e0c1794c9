SPECIFICATION FairSpec
CONSTANTS
    Requests = {r1, r2}
    Routes = {"main", "guarded", "leastbad"}
    BaseCooldown = 1
    MaxCooldown = 2
    MaxHonoredRetryAfter = 3
    HardDownCooldown = 2
    TripMode = "Consecutive"
    ConsecutiveN = 1
    WindowSecs = 1
    MinRequests = 1
    ThresholdNum = 1
    ThresholdDen = 2
    WindowCapacity = 1
    TimeMax = 1000
    RetryAfters = {}
    MaxTime = 1
    MaxProbes = 1
PROPERTIES NoWedge
