SPECIFICATION FairSpec
CONSTANTS
    Convs = {c1, c2}
    Requests = {r1, r2}
    NoConv = NoConv
PROPERTIES
    ImplementsTurnLog
    RequestsEnd
CHECK_DEADLOCK FALSE
