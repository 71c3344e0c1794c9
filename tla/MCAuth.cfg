SPECIFICATION AuthSpec
CONSTANTS
    ldap = ldap
    oidc = oidc
    adminIdp = adminIdp
    DataReqs = {d1}
    AdminReqs = {a1, a2}
    DataCreds = {dc}
    AdminCreds = {ac}
    DataChain <- MCDataChain
    AdminChain <- MCAdminChain
    DataPermits = 1
    AdminPermits = 1
    MaxEntries = 2
    IdentifyTtls = {1}
    PassTtl = 1
    MaxClock = 1
    MaxFlushes = 1
CHECK_DEADLOCK FALSE
INVARIANTS FlushRevokes
PROPERTIES DeniedAdmitsNothing AdminAnswered
