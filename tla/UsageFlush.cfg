SPECIFICATION Spec
CONSTANTS
    Nodes = {n1, n2}
    n1 = n1
    n2 = n2
    MaxWindow = 1
    MaxCounts = 2
    MaxErrors = 1
    MaxEnds = 1
    MaxDrops = 1
CHECK_DEADLOCK FALSE
INVARIANTS FleetTotal
PROPERTIES GracefulStopLosesNothing ImplementsLedger EventuallyFlushed
