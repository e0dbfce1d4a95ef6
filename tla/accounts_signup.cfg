SPECIFICATION Spec
CONSTANTS
    NoRequest = NoRequest
    r1 = r1
    r2 = r2
    r3 = r3
    Requests = {r1, r2, r3}
    n1 = n1
    n2 = n2
    Names = {n1, n2}
    s1 = s1
    s2 = s2
    Subjects = {s1, s2}
    NoSubject = NoSubject
SYMMETRY Symmetry
CHECK_DEADLOCK FALSE
INVARIANTS
    EmailsIdentify
    OnlyOverlapRelinks
    OnlyOverlapErrs
PROPERTIES
    ImplementsDirectory
