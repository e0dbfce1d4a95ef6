SPECIFICATION MCSpec
CONSTANTS
    a1 = a1
    a2 = a2
    t1 = t1
    t2 = t2
    w1 = w1
    w2 = w2
    focus = focus
    discovery = discovery
    commitment = commitment
    NoAction = NoAction
    NoText = NoText
    ActionIds = {a1}
    Texts = {t1}
    Capacity = 1
    GroundedFields = {focus}
    UnderstandingFields = {discovery}
    ActionFields = {commitment}
    Wordings = {w1, w2}
    Updates <- AllUpdates
    Assessments <- AllAssessments
    Revisions <- AllRevisions
INVARIANTS
    OnlyMissedRefreshKeepsDiscovery
PROPERTIES
    CommitmentsAreEarned
    DiscoveriesAreTested
