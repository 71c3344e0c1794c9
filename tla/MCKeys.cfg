SPECIFICATION KeysSpec
CONSTANTS
    Subs = {s1}
    Callers = {c1, c2}
    Slots = {t1, t2}
    Ttl = 2
    MaxClock = 6
    MaxEpoch = 3
    MaxMints = 3
    MaxAdmin = 2
    MaxFails = 2
    MaxRestarts = 1
SYMMETRY Symmetry
CHECK_DEADLOCK FALSE
INVARIANTS RevokedStaysDead SupersededStaysDead CacheAgrees SyncedMeansSeen PeerRevokeVisible
