------------------------- MODULE MCSummaryRetention --------------------------
(***************************************************************************)
(* Instances of SummaryRetention: one field of each kind, two wordings, in *)
(* two scenarios; a behaviour keeps to one.                                *)
(***************************************************************************)
EXTENDS SummaryRetention, MCInputs

CONSTANTS focus, discovery, commitment, w1, w2

Change(operation, previous, action, evidence) ==
    [operation |-> operation, previous |-> previous, action |-> action,
     evidence |-> evidence]

Preserve == Change("preserve", NoText, NoAction, "none")

Revision(text, change) ==
    [text |-> [f \in SummaryFields |-> text], change |-> [f \in ActionFields |-> change]]

-----------------------------------------------------------------------------
(* Commitments: every change of the one commitment, supported or not.      *)
CommitmentRevisions ==
    {Revision(text, c) : text \in {w1, NoText}, c \in {d \in Changes : d.previous # w2}}

CommitmentUpdates ==
    {Update(NoAction, "planned", "null", "intention", "null"),
     Update(NoAction, "considering", "null", "consideration", "null"),
     Update(a1, "null", "not_ready", "readiness_boundary", "action"),
     Update(a1, "abandoned", "null", "reported_action", "null")}

CommitmentAssessments ==
    [stage: {"possibilities", "action"},
     move: {"support_choice", "develop_experiment", "teach_selectively"},
     response: {"affirmed"}, generation: {"unknown"},
     unknowns: {{}}, basis: SUBSET {"user_owned_outcome"},
     usefulness: {"none"}, inquiry: {Quiet}, requested: {"none", "rehearsal"},
     target: {NoAction, a1}, progress: {Progress("establish", "support", FALSE)},
     support: {NoSupport, Support("preparation", TRUE, "none"),
               Support("exploration", TRUE, "action")}]

-----------------------------------------------------------------------------
(* Discoveries: everything that establishes, tests or revises one.         *)
DiscoveryRevisions == {Revision(text, Preserve) : text \in {w1, w2, NoText}}

DiscoveryAssessments ==
    [stage: {"possibilities"},
     move: {"test_understanding", "explore_options"},
     response: {"affirmed", "corrected", "new_evidence"},
     generation: {"unknown"}, unknowns: {{}}, basis: {{}},
     usefulness: {"helpful", "possibly_unhelpful"},
     inquiry: {Quiet, Inquiry("stalled", FALSE, FALSE)},
     requested: {"none"}, target: {NoAction},
     progress: {NoProgress, Progress("retain", "discovery", FALSE),
                Progress("establish", "synthesis", FALSE),
                Progress("revise", "discovery", TRUE)},
     support: {NoSupport}]

-----------------------------------------------------------------------------
(* A behaviour of one of the scenarios *)
VARIABLE scenario

Scenarios == {"commitments", "discoveries"}

UpdatesOf ==
    [s \in Scenarios |-> IF s = "commitments" THEN CommitmentUpdates ELSE NoUpdates]

AssessmentsOf ==
    [s \in Scenarios |->
        IF s = "commitments" THEN CommitmentAssessments ELSE DiscoveryAssessments]

RevisionsOf ==
    [s \in Scenarios |->
        IF s = "commitments" THEN CommitmentRevisions ELSE DiscoveryRevisions]

AllUpdates == UNION {UpdatesOf[s] : s \in Scenarios}
AllAssessments == UNION {AssessmentsOf[s] : s \in Scenarios}
AllRevisions == UNION {RevisionsOf[s] : s \in Scenarios}

MCInit == SummaryInit /\ scenario \in Scenarios

MCTurnStep ==
    /\ ~due
    /\ \/ BeginTurn
       \/ \E u \in UpdatesOf[scenario] : ApplyUpdate(u)
       \/ \E evidence \in BOOLEAN : FinishExtraction(evidence)
       \/ ExtractionUnusable \/ ExtractionError
       \/ \E a \in AssessmentsOf[scenario] : Assess(a)
       \/ AssessmentUnusable \/ AssessmentError
       \/ Decide
       \/ LoseTurn
    /\ UNCHANGED summaryVars

MCNext ==
    /\ \/ MCTurnStep
       \/ SaveThenRefresh
       \/ \E r \in RevisionsOf[scenario] : Refresh(r)
       \/ RefreshFails
       \/ RefreshCutOff
    /\ UNCHANGED scenario

MCSpec == MCInit /\ [][MCNext]_<<allVars, scenario>>
=============================================================================
