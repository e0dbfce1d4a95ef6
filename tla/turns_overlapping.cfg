SPECIFICATION Spec
CONSTANTS
    Convs = {c1}
    Requests = {r1, r2, r3}
    NoConv = NoConv
SYMMETRY Symmetry
INVARIANTS
    NoOrphans
    OnlyOverlapDropsTurns
    StateIsComplete
    CurrentSummaryIsCurrent
    SummaryKnowsItsTurns
CHECK_DEADLOCK FALSE
