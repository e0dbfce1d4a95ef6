-------------------------- MODULE SummaryRetention ---------------------------
(***************************************************************************)
(* The continuity summary of a conversation, kept up to date from the      *)
(* decisions of CoachingSession.  Once a turn is saved, the model proposes *)
(* a revision of the summary; refresh_summary refuses a revision whose     *)
(* changes are unsupported, and the retention gate decides, field by       *)
(* field, between the revision's text and the one that was there.          *)
(***************************************************************************)
EXTENDS CoachingSession

CONSTANTS
    GroundedFields,       \* presenting_focus, follow_up_question
    UnderstandingFields,  \* primary_discovery, developmental_theme, coach_notes,
                          \* prior_session_continuity
    ActionFields,         \* commitment, next_experiment
    Wordings,             \* what a field of a summary may say
    NoText,               \* None
    Revisions             \* revisions the model may return

SummaryFields == GroundedFields \cup UnderstandingFields \cup ActionFields

ASSUME FieldsAssumption ==
    /\ GroundedFields \cap UnderstandingFields = {}
    /\ GroundedFields \cap ActionFields = {}
    /\ UnderstandingFields \cap ActionFields = {}
ASSUME NoTextAssumption == NoText \notin Wordings

Summaries == [SummaryFields -> Wordings \cup {NoText}]
EmptySummary == [f \in SummaryFields |-> NoText]

(* SummaryActionChange.  evidence says where the cited excerpts are from:  *)
(* none are cited, not all are quotes of the latest message, all are, or   *)
(* all are and the action they name was recorded from them too.            *)
Changes ==
    [operation: {"preserve", "replace", "clear"},
     previous: Wordings \cup {NoText}, action: ActionIds \cup {NoAction},
     evidence: {"none", "unquoted", "quoted", "of_action"}]

SummaryRevisions == [text: Summaries, change: [ActionFields -> Changes]]

ASSUME RevisionsAssumption == Revisions \subseteq SummaryRevisions

VARIABLES
    summary,    \* the texts of the coaching_summaries row
    status,     \* its generation_status, "none" where there is no row
    due,        \* a turn is saved and the summary not yet refreshed for it
    decision,   \* that turn's decision
    takenBack,  \* history: texts that stood in the summary when the client
                \* revised the understanding, and were not tested since
    missed      \* history: those of them whose refresh failed or was cut off

summaryVars == <<summary, status, due, decision, takenBack, missed>>
allVars == <<vars, summaryVars>>

-----------------------------------------------------------------------------
(* refresh_summary: what a change of a commitment or experiment must rest on *)

(* CoachingPolicyService.action_is_permitted *)
ActionIsPermitted(d) == Enforce(d).stage = "action"

ActionExists(d, c) == c.action # NoAction => c.action \in Recorded(d.actions)

InClientWords(c) == c.evidence \in {"quoted", "of_action"}

ClearSupported(d, previous, c) ==
    /\ previous # NoText
    /\ c.action \in Recorded(d.actions)
    /\ d.actions[c.action].status = "abandoned"
    /\ c.evidence = "of_action"

ReplaceSupported(d, text, c) ==
    /\ text # NoText
    /\ HasProgress(d) /\ ActionIsPermitted(d) =>
         /\ c.action \in Recorded(d.actions)
         /\ d.actions[c.action].status \in {"planned", "ongoing"}
         /\ d.target \in {NoAction, c.action}

Supported(d, s, r) ==
    \A f \in ActionFields :
        LET c == r.change[f]
        IN  c.operation # "preserve" =>
              /\ c.previous = s[f]
              /\ InClientWords(c)
              /\ ActionExists(d, c)
              /\ IF c.operation = "clear" THEN ClearSupported(d, s[f], c)
                                          ELSE ReplaceSupported(d, r.text[f], c)

-----------------------------------------------------------------------------
(* _apply_retention_gate: d is the decision, enforced once more *)

Retained(eligible, text, previous) ==
    IF eligible /\ text # NoText THEN text ELSE previous

InvalidatesUnderstanding(d) ==
    IF HasProgress(d) THEN Revising(d)
    ELSE d.response \in {"refined", "corrected", "new_evidence"}

Tested(d) == "tested_understanding" \in d.basis

\* Mutant: grounded evidence is enough for a discovery.
RetainedWhenGrounded(d, text, previous) ==
    IF d.evidence /\ text # NoText THEN text
    ELSE IF InvalidatesUnderstanding(d) THEN NoText
    ELSE previous

\* Mutant: what the client revised stays until something replaces it.
RetainedUntilReplaced(d, text, previous) ==
    IF Tested(d) /\ text # NoText THEN text ELSE previous

RetainedUnderstanding(d, text, previous) ==
    IF Tested(d) /\ text # NoText THEN text
    ELSE IF InvalidatesUnderstanding(d) THEN NoText
    ELSE previous

\* Mutant: a replacement the evidence supports needs no permission.
RetainedOnEvidence(d, change, text, previous) ==
    CASE change.operation = "clear" -> NoText
      [] change.operation = "preserve" -> previous
      [] OTHER -> Retained(d.evidence, text, previous)

RetainedChange(d, change, text, previous) ==
    CASE change.operation = "clear" -> NoText
      [] change.operation = "preserve" -> previous
      [] OTHER -> Retained(d.stage = "action", text, previous)

Gated(d, s, r) ==
    [f \in SummaryFields |->
        CASE f \in GroundedFields -> Retained(d.evidence, r.text[f], s[f])
          [] f \in UnderstandingFields ->
                RetainedUnderstanding(d, r.text[f], s[f])
          [] f \in ActionFields ->
                RetainedChange(d, r.change[f], r.text[f], s[f])]
-----------------------------------------------------------------------------
SummaryInit ==
    /\ Init
    /\ summary = EmptySummary
    /\ status = "none"
    /\ due = FALSE
    /\ decision = DefaultState
    /\ takenBack = {}
    /\ missed = {}

(* What the client said of the understanding in a turn, for the history.   *)
ClientRevised(d) ==
    \/ Revising(d)
    \/ ~HasProgress(d) /\ d.response \in {"refined", "corrected", "new_evidence"}

Standing == {<<f, summary[f]>> : f \in {g \in UnderstandingFields : summary[g] # NoText}}

(* The turn is saved first; its decision is what the summary is refreshed  *)
(* from.                                                                   *)
SaveThenRefresh ==
    /\ ~due
    /\ SaveTurn
    /\ due' = TRUE
    /\ decision' = work
    /\ takenBack' = takenBack \cup
                    (IF ClientRevised(work) THEN Standing ELSE {})
    /\ UNCHANGED <<summary, status, missed>>

Settle == due' = FALSE /\ decision' = DefaultState

Refresh(r) ==
    /\ due
    /\ Supported(decision, summary, r)
    /\ LET d == Enforce(decision)
       IN  /\ summary' = Gated(d, summary, r)
           /\ takenBack' = takenBack \
                (IF Tested(d) THEN {<<f, r.text[f]>> : f \in UnderstandingFields} ELSE {})
    /\ status' = "current"
    /\ Settle
    /\ UNCHANGED <<vars, missed>>

Missing == missed' = missed \cup
                     (IF ClientRevised(decision) THEN Standing ELSE {})

(* The model fails or proposes an unsupported change: the summary is kept  *)
(* and marked stale.                                                       *)
RefreshFails ==
    /\ due
    /\ status' = "stale"
    /\ Settle
    /\ Missing
    /\ UNCHANGED <<vars, summary, takenBack>>

(* The request is cancelled after the turn was saved, or the mark fails.   *)
RefreshCutOff ==
    /\ due
    /\ Settle
    /\ Missing
    /\ UNCHANGED <<vars, summary, status, takenBack>>

(* The rest of a turn.  The next one starts when the client has the answer *)
(* to this one, which is sent after the refresh.                           *)
TurnStep ==
    /\ ~due
    /\ \/ BeginTurn
       \/ \E u \in Updates : ApplyUpdate(u)
       \/ \E evidence \in BOOLEAN : FinishExtraction(evidence)
       \/ ExtractionUnusable \/ ExtractionError
       \/ \E a \in Assessments : Assess(a)
       \/ AssessmentUnusable \/ AssessmentError
       \/ Decide
       \/ LoseTurn
    /\ UNCHANGED summaryVars

SummaryNext ==
    \/ TurnStep
    \/ SaveThenRefresh
    \/ \E r \in Revisions : Refresh(r)
    \/ RefreshFails
    \/ RefreshCutOff

SummarySpec == SummaryInit /\ [][SummaryNext]_allVars

-----------------------------------------------------------------------------
SummaryTypeOK ==
    /\ summary \in Summaries
    /\ status \in {"none", "current", "stale"}
    /\ due \in BOOLEAN
    /\ decision \in WorkingStates
    /\ takenBack \subseteq UnderstandingFields \X Wordings
    /\ missed \subseteq UnderstandingFields \X Wordings

(* SUMMARY_PROMPT: "practice, preparation, positive feedback on wording,   *)
(* and agreement with an understanding NEVER establish commitment", and a  *)
(* clear requires an abandoned action.  A commitment or experiment enters  *)
(* a summary only after a turn that earned the action stage and left the   *)
(* conversation with an action the client plans or does, and leaves it     *)
(* without a successor only when an action is abandoned.  The gate does    *)
(* not see the recorded stage: it enforces the saved decision again.       *)
CommitmentsAreEarned ==
    [][\A f \in ActionFields : summary'[f] # summary[f] =>
         IF summary'[f] = NoText
         THEN \E i \in Recorded(ws.actions) : ws.actions[i].status = "abandoned"
         ELSE /\ decision.stage = "action"
              /\ ws.understanding = "supported" /\ ws.evidence
              /\ "user_owned_outcome" \in decision.basis
              /\ \E i \in Relevant(decision) :
                    ws.actions[i].status \in {"planned", "ongoing"}
              /\ \A i \in Relevant(decision) : ~Refused(decision, i)]_allVars

(* A discovery, theme or note enters a summary only in a turn whose        *)
(* recorded decision holds a tested understanding.                         *)
DiscoveriesAreTested ==
    [][\A f \in UnderstandingFields :
         summary'[f] \notin {summary[f], NoText} => Tested(decision)]_allVars

(* What the client revised away stays in the summary only where the        *)
(* refresh of that very turn failed or was cut off.                        *)
OnlyMissedRefreshKeepsDiscovery ==
    ~due => Standing \cap takenBack \subseteq missed
=============================================================================
