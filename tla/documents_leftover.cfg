SPECIFICATION Spec
CONSTANTS
    Documents = {d1}
    Users = {u1}
    Everyone = Everyone
    Deletions = {x1}
    Searches = {}
    Nothing = Nothing
SYMMETRY Symmetry
INVARIANTS
    DeletionRemovesVectors
CHECK_DEADLOCK FALSE
