SPECIFICATION Spec
CONSTANTS
    Documents = {d1, d2}
    Users = {u1, u2}
    Everyone = Everyone
    Deletions = {x1, x2}
    Searches = {q1, q2}
    Nothing = Nothing
SYMMETRY Symmetry
INVARIANTS
    CompletedIsStored
    DeletionIsClean
    RetrievedIsAccessible
    RetrievedWasCompleted
PROPERTIES
    ImplementsLibrary
CHECK_DEADLOCK FALSE
