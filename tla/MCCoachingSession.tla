------------------------- MODULE MCCoachingSession --------------------------
(***************************************************************************)
(* Instances of CoachingSession.  The domain of an assessment is far too   *)
(* large to enumerate at once; each scenario varies the inputs one group   *)
(* of rules reads and fixes the others, and a behaviour keeps to one.      *)
(***************************************************************************)
EXTENDS MCInputs

-----------------------------------------------------------------------------
(* Boundaries: one action, the ways a client sets and lifts its refusals,  *)
(* and assessments that want to help with it.                              *)
BoundaryUpdates ==
    {Update(NoAction, "planned", "null", "intention", "null"),
     Update(NoAction, "considering", "not_ready", "readiness_boundary", "null"),
     Update(a1, "null", "not_ready", "readiness_boundary", "action"),
     Update(a1, "null", "ready", "readiness_confirmation", "null"),
     Update(a1, "abandoned", "null", "reported_action", "null"),
     Update(a1, "null", "declined", "readiness_boundary", "preparation"),
     Update(a1, "null", "declined", "readiness_boundary", "topic"),
     Update(a1, "null", "ready", "readiness_confirmation", "topic")}

BoundaryAssessments ==
    {a \in [stage: {"action"},
            move: {"teach_selectively", "support_choice", "develop_experiment"},
            response: {"affirmed"}, generation: {"unknown"}, unknowns: {{}},
            basis: {{"user_owned_outcome", "knowledge_gap_observed"}},
            usefulness: {"none"},
            inquiry: {Quiet, Inquiry("stalled", FALSE, FALSE)},
            requested: {"none", "conceptual_explanation", "rehearsal"},
            target: {NoAction, a1},
            progress: {Progress("establish", "support", FALSE)},
            support: {NoSupport, Support("preparation", TRUE, "none"),
                      Support("exploration", TRUE, "action"),
                      Support("execution", FALSE, "none")}] :
       a.inquiry # Quiet \/ a.support.scope = "execution" \/ a.target = NoAction
         => a.requested = "none"}

-----------------------------------------------------------------------------
(* Repairs: what the client's answer and the inquiry say.                  *)
RepairAssessments ==
    [stage: {"possibilities"},
     move: {"test_understanding", "teach_selectively", "explore_options",
            "reflect", "support_choice"},
     response: {"affirmed", "refined", "corrected", "declined"},
     generation: {"unknown", "productive"}, unknowns: {{}},
     basis: {{"knowledge_gap_observed"}},
     usefulness: {"helpful", "possibly_unhelpful"},
     inquiry: {Quiet, Inquiry("stalled", FALSE, FALSE),
               Inquiry("stalled", FALSE, TRUE), Inquiry("advancing", TRUE, FALSE)},
     requested: {"none"}, target: {NoAction},
     progress: {Progress("retain", "discovery", FALSE),
                Progress("establish", "synthesis", FALSE),
                Progress("revise", "discovery", TRUE)},
     support: {NoSupport}]

-----------------------------------------------------------------------------
(* Gates: what has to be known and owned before a later stage.             *)
GateUpdates ==
    {Update(NoAction, "planned", "null", "intention", "null"),
     Update(NoAction, "considering", "null", "consideration", "null")}

GateAssessments ==
    {a \in [stage: Stages,
            move: {"teach_selectively", "develop_experiment", "close_or_continue"},
            response: {"affirmed"}, generation: {"unknown"},
            unknowns: SUBSET {"direct_evidence", "desired_help", "user_owned_outcome"},
            basis: SUBSET {"user_owned_outcome", "knowledge_gap_observed"},
            usefulness: {"none"}, inquiry: {Quiet}, requested: {"none"},
            target: {NoAction},
            progress: {NoProgress, Progress("retain", "discovery", FALSE),
                       Progress("establish", "support", FALSE)},
            support: {NoSupport}] :
       "knowledge_gap_observed" \in a.basis => a.move = "teach_selectively"}

-----------------------------------------------------------------------------
(* Merging: two actions and two texts, no assessment worth varying.        *)
MergeUpdates ==
    [id: {NoAction, a1}, text: {t1, t2}, status: {"null"},
     readiness: {"unknown", "not_ready", "ready"},
     basis: {"readiness_boundary", "readiness_confirmation"},
     scope: {"null", "preparation"}, source: {"message"}]
    \cup
    {[Update(a1, "planned", "unknown", "correction", "null") EXCEPT !.text = t2],
     Update(a1, "null", "ready", "information_limit", "null"),
     [Update(NoAction, "considering", "null", "consideration", "null")
        EXCEPT !.source = "history"]}

MergeAssessments ==
    [stage: {"action"}, move: {"develop_experiment"}, response: {"affirmed"},
     generation: {"unknown"}, unknowns: {{}}, basis: {{"user_owned_outcome"}},
     usefulness: {"none"}, inquiry: {Quiet}, requested: {"none"},
     target: {NoAction}, progress: {Progress("establish", "support", FALSE)},
     support: {NoSupport}]

-----------------------------------------------------------------------------
(* A behaviour of one of the scenarios *)
VARIABLE scenario

Scenarios == {"boundaries", "repairs", "gates", "merge"}

UpdatesOf ==
    [s \in Scenarios |->
        CASE s = "boundaries" -> BoundaryUpdates
          [] s = "repairs" -> NoUpdates
          [] s = "gates" -> GateUpdates
          [] s = "merge" -> MergeUpdates]

AssessmentsOf ==
    [s \in Scenarios |->
        CASE s = "boundaries" -> BoundaryAssessments
          [] s = "repairs" -> RepairAssessments
          [] s = "gates" -> GateAssessments
          [] s = "merge" -> MergeAssessments]

AllUpdates == UNION {UpdatesOf[s] : s \in Scenarios}
AllAssessments == UNION {AssessmentsOf[s] : s \in Scenarios}

\* Where actions do not matter to each other, one is enough.
Actions(s) == IF s = "merge" THEN ActionIds ELSE {a1}

MCInit == Init /\ scenario \in Scenarios

MCNext ==
    /\ \/ BeginTurn
       \/ \E u \in UpdatesOf[scenario] :
            ApplyUpdate(u) /\ Recorded(draft'.actions) \subseteq Actions(scenario)
       \/ \E evidence \in BOOLEAN : FinishExtraction(evidence)
       \/ ExtractionUnusable
       \/ ExtractionError
       \/ \E a \in AssessmentsOf[scenario] : Assess(a)
       \/ AssessmentUnusable
       \/ AssessmentError
       \/ Decide
       \/ SaveTurn
       \/ LoseTurn
    /\ UNCHANGED scenario

MCSpec == MCInit /\ [][MCNext]_<<vars, scenario>>
=============================================================================
