SPECIFICATION MCSpec
CONSTANTS
    a1 = a1
    a2 = a2
    t1 = t1
    t2 = t2
    NoAction = NoAction
    ActionIds = {a1, a2}
    Texts = {t1, t2}
    Capacity = 1
    Updates <- AllUpdates
    Assessments <- AllAssessments
INVARIANTS
    GuidanceIsDecision
