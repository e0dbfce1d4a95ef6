SPECIFICATION Spec
CONSTANTS
    NoRequest = NoRequest
    r1 = r1
    r2 = r2
    r3 = r3
    r4 = r4
    Requests = {r1, r2, r3, r4}
SYMMETRY Symmetry
CHECK_DEADLOCK FALSE
INVARIANTS
    SuccessorEndsToken
    OnlyOverlapForks
    OnlyRefreshEndsToken
    OnlyRacingSurvives
PROPERTIES
    SerialIsRotation
