SPECIFICATION HSpec
CONSTANTS
    Requests = {r1, r2}
    Routes = {"main", "guarded", "leastbad"}
    BaseCooldown = 1
    MaxCooldown = 2
    MaxHonoredRetryAfter = 3
    HardDownCooldown = 2
    TripMode = "ErrorRate"
    ConsecutiveN = 1
    WindowSecs = 1
    MinRequests = 2
    ThresholdNum = 1
    ThresholdDen = 2
    WindowCapacity = 2
    TimeMax = 1000
    RetryAfters = {4}
    MaxTime = 2
    MaxProbes = 1
SYMMETRY Symmetry
PROPERTIES HardDownSticks AdmissionSound TripLasts
