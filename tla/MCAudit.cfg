SPECIFICATION AuditSpec
CONSTANTS
    Recorders = {r1, r2, r3}
    Flusher = flusher
    Cap = 4
    MaxWhats = 5
    MaxFaults = 2
    MaxCrashes = 1
SYMMETRY Symmetry
INVARIANTS ChainVerifies NothingPruned
PROPERTIES AppendOnly
CHECK_DEADLOCK FALSE
