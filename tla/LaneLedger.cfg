SPECIFICATION FairSpec
CONSTANTS
    Requests = {r1, r2, r3}
    MaxConcurrent = 2
    MaxRequests = 2
INVARIANTS PermitsConserved BudgetConserved
PROPERTIES NoLostWakeup
