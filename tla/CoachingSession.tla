-------------------------- MODULE CoachingSession ---------------------------
(***************************************************************************)
(* The coaching state of one conversation, turn after turn: the persisted  *)
(* working state is prepared, the model's extraction is merged into it,    *)
(* the model's assessment is validated against it, the policy is enforced, *)
(* the reply is written under the policy, and the durable part is saved.   *)
(* Either model call may fail: the turn then falls back to a conservative  *)
(* state.  What the models return is any value of Updates and Assessments. *)
(***************************************************************************)
EXTENDS ActionContext, Naturals, FiniteSets

CONSTANTS
    Updates,        \* action updates the extraction may return
    Assessments,    \* turn assessments the model may return
    Capacity        \* most action records of a conversation (10 in the code)

(* CoachingTurnAssessment.  basis holds the listed basis with the ownership *)
(* and knowledge claims that cite valid evidence; tested understanding is   *)
(* never taken from the list.                                               *)
TurnAssessments ==
    [stage: Stages, move: Moves, response: Responses, generation: Generations,
     unknowns: SUBSET Unknowns, basis: SUBSET (Bases \ {"tested_understanding"}),
     usefulness: Usefulness, inquiry: Inquiries, requested: RequestedSupports,
     target: ActionIds \cup {NoAction}, progress: Progresses, support: Supports]

ASSUME UpdatesAssumption == Updates \subseteq ActionUpdates
ASSUME AssessmentsAssumption == Assessments \subseteq TurnAssessments

VARIABLES
    ws,         \* persisted coaching_working_states.state
    started,    \* the conversation has a saved turn
    phase,      \* where the turn in progress is
    attempt,    \* 1 or 2, of the model call in progress
    heard,      \* the history read for this turn holds a coach reply
    draft,      \* the action context being merged
    work        \* the turn's working state: extracted, proposed, then decided

vars == <<ws, started, phase, attempt, heard, draft, work>>

Phases == {"idle", "extracting", "assessing", "proposed", "decided"}

NoRecord == [text |-> CHOOSE t \in Texts : TRUE, status |-> "absent",
             readiness |-> "unknown", scope |-> "unknown",
             prepDeclined |-> FALSE, topicDeclined |-> FALSE]

(* CoachingWorkingState() with all its defaults *)
DefaultState ==
    [stage |-> "discovery", move |-> "clarify", last |-> "none",
     response |-> "not_applicable", generation |-> "unknown",
     unknowns |-> {}, basis |-> {}, evidence |-> FALSE,
     usefulness |-> "none", inquiry |-> NoInquiry,
     actions |-> [i \in ActionIds |-> NoRecord], requested |-> "none",
     target |-> NoAction, understanding |-> "none",
     progress |-> NoProgress, support |-> NoSupport]

(* What later turns read of the saved state.  Turn-scoped assessments are  *)
(* dropped by save_conversation_turn; the saved stage, unknowns, basis,    *)
(* answer and last move are shown to the model, but prepare_state_for_turn *)
(* and the extraction replace them before any rule reads them.             *)
DurableStates ==
    [move: Moves, generation: Generations, evidence: BOOLEAN,
     actions: [ActionIds -> ActionRecords], understanding: Understandings]

Durable(s) ==
    [move |-> s.move, generation |-> s.generation, evidence |-> s.evidence,
     actions |-> s.actions, understanding |-> s.understanding]

\* Mutant: the previous move is not carried over.
ExtractedWithoutLast(s, actions, evidence) ==
    [DefaultState EXCEPT !.evidence = evidence, !.actions = actions,
                         !.understanding = s.understanding]

(* update_working_state: the model lists the evidence afresh; the last     *)
(* move, the action records and the shared picture are not its to write.   *)
Extracted(s, actions, evidence) ==
    [DefaultState EXCEPT !.last = s.move, !.evidence = evidence,
                         !.actions = actions, !.understanding = s.understanding]

Withdraw(understanding) ==
    IF understanding = "none" THEN "none" ELSE "needs_revision"

\* Mutant: a failed model call leaves the picture as it was.
ConservativeOfAll(s, last) ==
    [DefaultState EXCEPT !.last = last, !.generation = s.generation,
                         !.evidence = s.evidence, !.actions = s.actions,
                         !.unknowns = {"tested_understanding", "desired_help"},
                         !.understanding = s.understanding]

Conservative(s, last) ==
    [DefaultState EXCEPT !.last = last, !.generation = s.generation,
                         !.evidence = s.evidence, !.actions = s.actions,
                         !.unknowns = {"tested_understanding", "desired_help"},
                         !.understanding = Withdraw(s.understanding)]

\* Mutant: no progress assessment is needed for a late stage.
ValidWithoutProgress(a) ==
    /\ a.progress.effect = "retain" => Shared(ws)
    /\ a.target # NoAction => a.target \in Recorded(work.actions)
    /\ heard => a.inquiry.progress # "none"

(* assess_turn: what the model may claim, given the persisted state and    *)
(* the merged action context.                                              *)
Valid(a) ==
    /\ ~HasProgress(a) => a.stage # "action" /\ ~IsInvitation(a)
    /\ a.progress.effect = "retain" => Shared(ws)
    /\ a.target # NoAction => a.target \in Recorded(work.actions)
    /\ a.support.boundary # "none" =>
         /\ a.target # NoAction
         /\ work.actions[a.target].scope \in {"unknown", a.support.boundary}
    /\ heard => a.inquiry.progress # "none"

Assessed(a) ==
    LET picture == CASE a.progress.effect = "establish" -> "supported"
                     [] a.progress.effect = "revise" -> Withdraw(ws.understanding)
                     [] OTHER -> ws.understanding
    IN  [work EXCEPT
           !.stage = a.stage, !.move = a.move, !.generation = a.generation,
           !.unknowns = a.unknowns,
           !.basis = a.basis \cup (IF picture = "supported"
                                   THEN {"tested_understanding"} ELSE {}),
           !.response = IF heard THEN a.response ELSE "not_applicable",
           !.usefulness = IF heard THEN a.usefulness ELSE "none",
           !.inquiry = IF heard THEN a.inquiry ELSE NoInquiry,
           !.requested = a.requested, !.target = a.target,
           !.understanding = picture,
           !.progress = a.progress, !.support = a.support]

-----------------------------------------------------------------------------
Init ==
    /\ ws = Durable(DefaultState)
    /\ started = FALSE
    /\ phase = "idle"
    /\ attempt = 1
    /\ heard = FALSE
    /\ draft = FreshDraft(ws.actions)
    /\ work = DefaultState

(* A message arrives: retrieve_data loads the working state and a history. *)
(* An empty reply is saved like any other (generate_stream checks nothing), *)
(* so even a conversation with turns may have no coach reply to answer.    *)
BeginTurn ==
    /\ phase = "idle"
    /\ heard' \in {h \in BOOLEAN : h => started}
    /\ draft' = FreshDraft(ws.actions)
    /\ phase' = "extracting"
    /\ UNCHANGED <<ws, started, attempt, work>>

ApplyUpdate(u) ==
    /\ phase = "extracting"
    /\ Merged(draft, u, draft')
    /\ UNCHANGED <<ws, started, phase, attempt, heard, work>>

FinishExtraction(evidence) ==
    /\ phase = "extracting"
    /\ Cardinality(Recorded(draft.actions)) <= Capacity
    /\ work' = Extracted(ws, draft.actions, evidence)
    /\ phase' = "assessing"
    /\ attempt' = 1
    /\ draft' = FreshDraft(ws.actions)
    /\ UNCHANGED <<ws, started, heard>>

FallBack(s) ==
    /\ work' = s
    /\ phase' = "proposed"
    /\ attempt' = 1
    /\ draft' = FreshDraft(ws.actions)
    /\ UNCHANGED <<ws, started, heard>>

\* Mutant: the merge writes into the records it was given.
ExtractionUnusableInPlace ==
    /\ phase = "extracting"
    /\ \/ /\ attempt = 1
          /\ attempt' = 2
          /\ draft' = FreshDraft(draft.actions)
          /\ UNCHANGED <<ws, started, phase, heard, work>>
       \/ attempt = 2 /\ FallBack(Conservative(ws, ws.move))

(* Unusable output (bad JSON or schema, nothing extracted, or an update    *)
(* that the merge refuses) is retried once, from the previous state again. *)
ExtractionUnusable ==
    /\ phase = "extracting"
    /\ \/ /\ attempt = 1
          /\ attempt' = 2
          /\ draft' = FreshDraft(ws.actions)
          /\ UNCHANGED <<ws, started, phase, heard, work>>
       \/ attempt = 2 /\ FallBack(Conservative(ws, ws.move))

\* Timeouts and provider errors are not retried here.
ExtractionError == phase = "extracting" /\ FallBack(Conservative(ws, ws.move))

Assess(a) ==
    /\ phase = "assessing"
    /\ Valid(a)
    /\ work' = Assessed(a)
    /\ phase' = "proposed"
    /\ attempt' = 1
    /\ UNCHANGED <<ws, started, heard, draft>>

AssessmentUnusable ==
    /\ phase = "assessing"
    /\ \/ /\ attempt = 1
          /\ attempt' = 2
          /\ UNCHANGED <<ws, started, phase, heard, draft, work>>
       \/ attempt = 2 /\ FallBack(Conservative(work, work.last))

AssessmentError == phase = "assessing" /\ FallBack(Conservative(work, work.last))

(* assess_coaching_move: the enforced state is recorded as the decision    *)
Decide ==
    /\ phase = "proposed"
    /\ work' = Enforce(work)
    /\ phase' = "decided"
    /\ UNCHANGED <<ws, started, attempt, heard, draft>>

(* The stage and the move the reply is written under: the policy text is   *)
(* built from the decision, enforced once more.                            *)
Guidance == Enforce(work)

SaveTurn ==
    /\ phase = "decided"
    /\ ws' = Durable(work)
    /\ started' = TRUE
    /\ phase' = "idle"
    /\ heard' = FALSE
    /\ draft' = FreshDraft(ws'.actions)
    /\ work' = DefaultState
    /\ UNCHANGED attempt

(* A failing reply or save, or a client that goes away, ends the turn with *)
(* nothing saved.                                                          *)
LoseTurn ==
    /\ phase # "idle"
    /\ phase' = "idle"
    /\ attempt' = 1
    /\ heard' = FALSE
    /\ draft' = FreshDraft(ws.actions)
    /\ work' = DefaultState
    /\ UNCHANGED <<ws, started>>

Next ==
    \/ BeginTurn
    \/ \E u \in Updates : ApplyUpdate(u)
    \/ \E evidence \in BOOLEAN : FinishExtraction(evidence)
    \/ ExtractionUnusable
    \/ ExtractionError
    \/ \E a \in Assessments : Assess(a)
    \/ AssessmentUnusable
    \/ AssessmentError
    \/ Decide
    \/ SaveTurn
    \/ LoseTurn

Spec == Init /\ [][Next]_vars

-----------------------------------------------------------------------------
TypeOK ==
    /\ ws \in DurableStates
    /\ started \in BOOLEAN
    /\ phase \in Phases
    /\ attempt \in {1, 2}
    /\ heard \in BOOLEAN
    /\ draft \in Drafts
    /\ work \in WorkingStates

Decided == phase = "decided"

(***************************************************************************)
(* Safety of the decision                                                  *)
(***************************************************************************)

(* A turn reaches the action stage only when everything it rests on is     *)
(* there at once: an understanding still supported, grounded evidence, an  *)
(* outcome the client owns, an action the client plans or has begun, no    *)
(* unknown that stands in the way, and no refusal among the actions the    *)
(* turn is about.  The pieces are set in different calls and turns         *)
(* (assess_turn, _merge_action_context, conservative_state) and meet in    *)
(* enforce.                                                                *)
ActionIsEarned ==
    Decided /\ work.stage = "action" =>
        /\ Shared(work) /\ work.evidence
        /\ {"tested_understanding", "user_owned_outcome"} \subseteq work.basis
        /\ work.unknowns \cap (DiscoveryBlockingUnknowns \cup
              {"desired_help", "user_owned_outcome", "tested_understanding"}) = {}
        /\ OwnedAction(work)
        /\ ~\E i \in Relevant(work) : Refused(work, i)

(* docs/calibration-cycle-5.md: topic refusals also block conceptual       *)
(* teaching on that topic, and preparation, discussion refusals and        *)
(* abandonment remain binding.  No reply is written under a policy that    *)
(* offers practical help, support or teaching against a refusal of the     *)
(* action it is about, except permitted exploration or preparation of an   *)
(* action refused only as an action.  (It is about the reply, not the      *)
(* record: a recorded decision can still name teaching after refused       *)
(* execution, and only the second enforcement turns it away.)              *)
BoundariesBind ==
    Decided =>
        LET given == Guidance
        IN  /\ (\E i \in Relevant(work) : work.actions[i].topicDeclined) =>
                 /\ given.stage = "discovery"
                 /\ given.move \in {"shift_focus", "explore_readiness"}
            /\ PracticalMove(given) => Blocking(given, given) = {}

(* Teaching answers an observed knowledge gap, on grounded evidence, and   *)
(* never follows a saved turn that taught: what was taught is not in the   *)
(* record any more, only the move it was taught under, which the state     *)
(* carries through extraction, retries and fallbacks.                      *)
TeachingIsEarned ==
    Decided /\ work.move = "teach_selectively" =>
        /\ "knowledge_gap_observed" \in work.basis
        /\ work.evidence
        /\ ws.move # "teach_selectively"

(* Whatever path the rules take, the picture and the basis agree: a        *)
(* supported picture is in the basis and not among the unknowns, and in a  *)
(* turn that judged progress, tested understanding is never claimed        *)
(* without a supported picture (_downgrade keeps it, "revise" and the      *)
(* fallback withdraw it).                                                  *)
PictureAndBasisAgree ==
    Decided =>
        /\ Shared(work) => /\ "tested_understanding" \in work.basis
                           /\ "tested_understanding" \notin work.unknowns
        /\ HasProgress(work) /\ "tested_understanding" \in work.basis
             => Shared(work)

(***************************************************************************)
(* Repeated enforcement                                                    *)
(***************************************************************************)

(* docs/calibration-cycle-5.md: "policy downgrades must be idempotent".    *)
(* The move a reply is written under is the recorded move.                 *)
GuidanceIsDecision ==
    Decided => Guidance.stage = work.stage /\ Guidance.move = work.move

(* What does hold: a decision of the action stage is left exactly as it    *)
(* is, and repeating the enforcement never reaches the action stage, nor   *)
(* offers support or teaching, that the recorded decision did not.         *)
GuidanceNeverWidens ==
    Decided =>
        LET given == Guidance
        IN  IF work.stage = "action" THEN given = work
            ELSE /\ given.stage # "action"
                 /\ given.move \in {"support_choice", "teach_selectively"}
                      => given.move = work.move

(***************************************************************************)
(* What is merged                                                          *)
(***************************************************************************)

(* What was recorded of an action when the attempt began.                  *)
Before(i) ==
    IF i \in Recorded(ws.actions) THEN ws.actions[i] ELSE Blank(draft.actions[i].text)

(* docs/calibration-cycle-5.md: preparation and topic permission updates   *)
(* cannot change action status.  Whatever the records being merged say     *)
(* differently from the saved ones, an update of that scope has said in    *)
(* this attempt: no scope writes what belongs to another, and of an        *)
(* attempt that broke off half-way nothing is left for the next.           *)
UpdatesAreScoped ==
    phase = "extracting" =>
        \A i \in Recorded(draft.actions) :
          LET old == Before(i)
              new == draft.actions[i]
              said == {scope \in PermissionScopes \cup {"action"} :
                         <<i, scope>> \in draft.touched}
          IN  /\ i \in Recorded(ws.actions) \cup draft.created
              /\ <<new.status, new.readiness, new.scope>>
                   # <<old.status, old.readiness, old.scope>> => "action" \in said
              /\ new.prepDeclined # old.prepDeclined => "preparation" \in said
              /\ new.topicDeclined # old.topicDeclined => "topic" \in said
              /\ new.text # old.text => said # {}

(***************************************************************************)
(* From turn to turn                                                       *)
(***************************************************************************)

(* A refusal of an action, once saved, is lifted only by readiness: no     *)
(* later update, retry or fallback turns it into "unknown", and no record  *)
(* of an action is lost.                                                   *)
RefusalsSurvive ==
    [][\A i \in Recorded(ws.actions) :
         /\ i \in Recorded(ws'.actions)
         /\ ws.actions[i].readiness \in NegativeReadiness =>
              ws'.actions[i].readiness \in NegativeReadiness \cup {"ready"}]_vars

(* Two saved turns in a row never both teach.                              *)
NoTeachingTwice ==
    [][SaveTurn =>
       ~(ws.move = "teach_selectively" /\ ws'.move = "teach_selectively")]_vars

(* A picture that was withdrawn (by a revision or a failed model call)     *)
(* comes back only in a turn whose assessment establishes it anew.  And    *)
(* where there was a reply to react to, a turn is saved with a supported   *)
(* picture only if its assessment judged the reaction: a turn that fell    *)
(* back carries no picture on (conservative_state).                        *)
PictureIsReestablished ==
    [][SaveTurn /\ ws'.understanding = "supported" =>
         /\ ~Shared(ws) => work.progress.effect = "establish"
         /\ heard => work.inquiry.progress # "none"]_vars
=============================================================================
