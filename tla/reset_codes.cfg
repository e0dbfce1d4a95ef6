SPECIFICATION MCSpec
CONSTANTS
    NoRequest = NoRequest
    r1 = r1
    r2 = r2
    r3 = r3
    r4 = r4
    Requests = {r1, r2, r3, r4}
    Cooldown = 1
    Window = 2
    Limit = 2
    Ttl = 2
    MaxAttempts = 2
    MaxTime = 3
    MaxSpread = 3
SYMMETRY Symmetry
CHECK_DEADLOCK FALSE
INVARIANTS
    OnlyOverlapMiscounts
    OnlyOverlapCrowdsCodes
    OnlyCodeRetiresCode
    NeverAllWaiting
PROPERTIES
    SerialIsRecovery
