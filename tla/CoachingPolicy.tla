--------------------------- MODULE CoachingPolicy ---------------------------
(***************************************************************************)
(* CoachingPolicyService.enforce: the rules that keep a proposed coaching  *)
(* move proportionate to the evidence held about the conversation.  Pure:  *)
(* a working state goes in, the enforced working state comes out.          *)
(*                                                                         *)
(* Data is kept to what the rules tell apart.  A list without duplicates   *)
(* is a set; free text is a Boolean ("some reported fact or observation"); *)
(* an optional assessment that is absent has the tag "none".  The action   *)
(* context is a function of the action identifier, whose status is         *)
(* "absent" where there is no record.                                      *)
(***************************************************************************)
CONSTANTS
    ActionIds,      \* identifiers of action records (uuid4 strings)
    NoAction,       \* support_action_id = None
    Texts           \* what an action record is about: its (actor, action)

ASSUME ActionIdAssumption == NoAction \notin ActionIds
ASSUME TextsAssumption == Texts # {}

-----------------------------------------------------------------------------
(* The literal types of app/schemas/coaching.py *)

Stages == {"discovery", "reflection", "possibilities", "action"}

DiscoveryMoves ==
    {"reflect", "clarify", "separate_observation_from_interpretation",
     "explore_desired_help", "explore_readiness", "deepen", "shift_focus",
     "challenge_tentatively", "test_understanding"}

Moves ==
    DiscoveryMoves \cup
    {"explore_options", "teach_selectively", "develop_experiment",
     "consolidate_commitment", "support_choice", "close_or_continue"}

Unknowns ==
    {"direct_evidence", "observable_pattern", "interpretation_separation",
     "desired_help", "prior_attempts", "user_owned_outcome",
     "tested_understanding", "readiness", "knowledge_gap"}

Bases ==
    {"grounded_evidence", "observation_interpretation_distinction",
     "desired_help_known", "prior_attempts_known", "user_owned_outcome",
     "tested_understanding", "knowledge_gap_observed",
     "client_feedback_reopened_discovery", "policy_downgrade"}

Responses ==
    {"not_applicable", "affirmed", "refined", "corrected", "new_evidence",
     "not_ready", "declined"}

Generations == {"unknown", "emerging", "productive"}
Usefulness == {"none", "unknown", "helpful", "possibly_unhelpful"}
RequestedSupports ==
    {"none", "exploration", "conceptual_explanation", "action_wording",
     "action_planning", "rehearsal"}
Understandings == {"none", "supported", "needs_revision"}

Statuses ==
    {"considering", "planned", "attempted", "ongoing", "completed",
     "abandoned", "unknown"}
Readinesses == {"unknown", "not_ready", "declined", "ready"}
BoundaryScopes == {"action", "preparation", "topic", "unknown"}

ActionRecords ==
    [text: Texts, status: Statuses \cup {"absent"}, readiness: Readinesses,
     scope: BoundaryScopes, prepDeclined: BOOLEAN, topicDeclined: BOOLEAN]

Inquiries ==
    [progress: {"none", "unknown", "advancing", "stalled"},
     pause: BOOLEAN, teaching: BOOLEAN]
Progresses ==
    [effect: {"none", "unknown", "establish", "retain", "revise"},
     direction: {"discovery", "synthesis", "support", "consolidate"},
     material: BOOLEAN]
Supports ==
    [scope: {"none", "exploration", "preparation", "execution"},
     permitted: BOOLEAN, boundary: BoundaryScopes \cup {"none"}]

NoInquiry == [progress |-> "none", pause |-> FALSE, teaching |-> FALSE]
NoProgress == [effect |-> "none", direction |-> "discovery", material |-> FALSE]
NoSupport == [scope |-> "none", permitted |-> FALSE, boundary |-> "none"]

WorkingStates ==
    [stage: Stages, move: Moves, last: Moves \cup {"none"},
     response: Responses, generation: Generations,
     unknowns: SUBSET Unknowns, basis: SUBSET Bases, evidence: BOOLEAN,
     usefulness: Usefulness, inquiry: Inquiries,
     actions: [ActionIds -> ActionRecords], requested: RequestedSupports,
     target: ActionIds \cup {NoAction}, understanding: Understandings,
     progress: Progresses, support: Supports]

-----------------------------------------------------------------------------
(* Readings of a working state *)

DiscoveryBlockingUnknowns ==
    {"direct_evidence", "observable_pattern", "interpretation_separation"}
ReopeningResponses ==
    {"refined", "corrected", "new_evidence", "not_ready", "declined"}

Shared(s) == s.understanding = "supported"
HasProgress(s) == s.progress.effect # "none"
Revising(s) == s.progress.effect = "revise"
Stalled(s) == s.inquiry.progress = "stalled"
PossiblyUnhelpful(s) == s.usefulness = "possibly_unhelpful"

Recorded(actions) == {i \in ActionIds : actions[i].status # "absent"}
Relevant(s) == {i \in Recorded(s.actions) : s.target \in {NoAction, i}}

\* Mutant: a plain yes establishes the shared picture by itself.
NormalizeYesEstablishes(s) ==
    IF s.last = "test_understanding" /\ s.response = "affirmed" /\ ~HasProgress(s)
    THEN [s EXCEPT !.understanding = "supported",
                   !.basis = @ \cup {"tested_understanding"},
                   !.unknowns = @ \ {"tested_understanding"}]
    ELSE s

(* Material revision withdraws the shared picture; a supported picture, or *)
(* a plain yes to the last synthesis, counts as tested understanding.      *)
Affirmed(s) ==
    /\ s.last = "test_understanding"
    /\ s.response = "affirmed"
    /\ ~HasProgress(s)

Normalize(s) ==
    LET picture == IF Revising(s) /\ s.understanding # "none"
                   THEN "needs_revision" ELSE s.understanding
        withdrawn == IF Revising(s) THEN {"tested_understanding"} ELSE {}
        tested == IF picture = "supported" \/ Affirmed(s)
                  THEN {"tested_understanding"} ELSE {}
    IN  [s EXCEPT !.understanding = picture,
                  !.basis = (@ \ withdrawn) \cup tested,
                  !.unknowns = (@ \cup withdrawn) \ tested]

\* Mutant: the picture is discarded like anything else.
DowngradePlainly(s, stage, move, unknowns, reason, discarded) ==
    [s EXCEPT !.stage = stage, !.move = move, !.unknowns = unknowns,
              !.basis = (@ \ discarded) \cup {reason}]

(* A supported picture survives every downgrade: it is never discarded     *)
(* from the basis nor listed among the unknowns.                           *)
Downgrade(s, stage, move, unknowns, reason, discarded) ==
    LET kept == IF Shared(s) THEN {"tested_understanding"} ELSE {}
    IN  [s EXCEPT !.stage = stage,
                  !.move = move,
                  !.unknowns = unknowns \ kept,
                  !.basis = (@ \ (discarded \ kept)) \cup {reason}]

-----------------------------------------------------------------------------
(* In the rules below n is the normalized state.  Several flags are read   *)
(* from it once, before any rewriting, while w and v are the state after   *)
(* the rewritings that do not return.                                      *)

\* Mutant: teaching nobody proposed.
UnproposedTeaching(n) ==
    /\ n.last # "teach_selectively"
    /\ "knowledge_gap_observed" \in n.basis
    /\ n.evidence

EarnedTeaching(n) ==
    /\ n.move = "teach_selectively"
    /\ n.last # "teach_selectively"
    /\ "knowledge_gap_observed" \in n.basis
    /\ n.evidence

TeachingRepairs(n) ==
    /\ EarnedTeaching(n)
    /\ n.response \notin {"not_ready", "declined"} \/ n.inquiry.teaching

PracticalHelp(n) ==
    n.requested \in {"action_wording", "action_planning", "rehearsal"}

ExecutionRefused(n) ==
    /\ n.stage = "action"
    /\ n.support.scope = "execution"
    /\ ~n.support.permitted

PracticalMove(n) ==
    /\ ~ExecutionRefused(n)
    /\ \/ n.stage = "action"
       \/ n.move = "support_choice"
       \/ n.move = "teach_selectively" /\ n.requested # "conceptual_explanation"

NonexecutingSupport(n) ==
    /\ n.support.permitted
    /\ n.support.scope \in {"exploration", "preparation"}
    /\ Shared(n)

PreparationRequested(n) ==
    \/ NonexecutingSupport(n) /\ n.support.scope = "preparation"
    \/ PracticalHelp(n) /\ n.support.scope # "execution"

(* Refused execution steps back to possibilities; permitted exploration or *)
(* preparation never authorizes the action stage.                          *)
Redirect(n) ==
    IF ExecutionRefused(n)
    THEN Downgrade(n, "possibilities", "reflect", n.unknowns,
                   "policy_downgrade", {})
    ELSE IF NonexecutingSupport(n) /\ n.stage = "action"
    THEN [n EXCEPT !.stage = "possibilities", !.move = "support_choice"]
    ELSE n

(* Actions the client refused, and the refusals that permitted exploration *)
(* or preparation may work around without touching the action itself.      *)
Refused(n, i) ==
    \/ n.actions[i].readiness \in {"not_ready", "declined"}
    \/ n.actions[i].status = "abandoned"
    \/ n.actions[i].topicDeclined
    \/ PreparationRequested(n) /\ n.actions[i].prepDeclined

Excused(n, w, i) ==
    /\ NonexecutingSupport(n)
    /\ ~(PreparationRequested(n) /\ n.actions[i].prepDeclined)
    /\ ~n.actions[i].topicDeclined
    /\ \/ n.actions[i].scope = "action"
       \/ n.actions[i].scope = "unknown" /\ n.support.boundary = "action"
    /\ n.actions[i].status # "abandoned"
    /\ w.stage # "action"

Blocking(n, w) == {i \in Relevant(n) : Refused(n, i) /\ ~Excused(n, w, i)}

\* Mutant: the stage is lowered, the move forgotten.
HonorBoundaryStageOnly(n, w) ==
    Downgrade(w, "discovery", w.move, n.unknowns \cup {"readiness"},
              "policy_downgrade", {})

HonorBoundary(n, w) ==
    Downgrade(w, "discovery",
              IF Stalled(n) THEN "shift_focus" ELSE "explore_readiness",
              n.unknowns \cup {"readiness"},
              IF Stalled(n) \/ n.response \in {"corrected", "not_ready", "declined"}
              THEN "client_feedback_reopened_discovery" ELSE "policy_downgrade",
              {})

(* Support and closing invitations need a shared picture, no material      *)
(* unknown and grounded evidence; support also needs permission that is    *)
(* not for execution.                                                      *)
IsInvitation(w) == w.move \in {"support_choice", "close_or_continue"}

InvitationUnready(w) == ~Shared(w) \/ w.progress.material \/ ~w.evidence

SupportUnpermitted(w) ==
    /\ w.move = "support_choice"
    /\ ~w.support.permitted \/ w.support.scope \in {"none", "execution"}

InvitationGranted(w) ==
    IsInvitation(w) /\ ~InvitationUnready(w) /\ ~SupportUnpermitted(w)

\* unknowns is the list of the normalized state, as in the code
Reconsider(w, unknowns) ==
    IF ~IsInvitation(w) THEN w
    ELSE IF InvitationUnready(w)
    THEN Downgrade(w,
             IF w.progress.material \/ Revising(w) THEN "discovery" ELSE "reflection",
             IF w.progress.material THEN "clarify" ELSE "test_understanding",
             unknowns \cup (IF Shared(w) THEN {} ELSE {"tested_understanding"}),
             IF Revising(w) THEN "client_feedback_reopened_discovery"
                            ELSE "policy_downgrade", {})
    ELSE Downgrade(w, "possibilities", "explore_options", unknowns,
                   "policy_downgrade", {})

-----------------------------------------------------------------------------
(* Repairs: feedback from the client reopens discovery. *)

SynthesisUseful(v) ==
    /\ v.move = "test_understanding"
    /\ \/ /\ v.last # "test_understanding"
          /\ v.response \notin {"declined", "not_ready"}
       \/ /\ v.progress.direction = "synthesis"
          /\ v.progress.effect \in {"establish", "revise"}

InquiryStuck(n, v) ==
    /\ Stalled(n)
    /\ n.generation # "productive"
    /\ n.response # "corrected"
    /\ ~TeachingRepairs(n)
    /\ ~SynthesisUseful(v)
    /\ n.evidence

TeachingDue(n) ==
    TeachingRepairs(n) /\ (PossiblyUnhelpful(n) \/ Stalled(n))

Reopened(n) ==
    LET detail == n.response \in {"refined", "new_evidence"}
    IN  /\ n.response \in ReopeningResponses
        /\ ~(/\ detail
             /\ Shared(n)
             /\ n.progress.effect \in {"retain", "establish"})
        /\ ~(detail /\ PossiblyUnhelpful(n))

Reopen(v, move, unknown) ==
    Downgrade(v, "discovery", move, unknown,
              "client_feedback_reopened_discovery", {"tested_understanding"})

ReopenMove(n, v) ==
    IF EarnedTeaching(n) THEN "teach_selectively"
    ELSE IF v.move \in DiscoveryMoves THEN v.move
    ELSE "clarify"

NeedsRepair(n, v) ==
    InquiryStuck(n, v) \/ TeachingDue(n) \/ Reopened(n) \/ PossiblyUnhelpful(n)

Repair(n, v) ==
    LET untested == n.unknowns \cup {"tested_understanding"}
    IN  IF InquiryStuck(n, v) THEN Reopen(v, "shift_focus", untested)
        ELSE IF TeachingDue(n) THEN Reopen(v, "teach_selectively", untested)
        ELSE IF Reopened(n) /\ n.response \in {"not_ready", "declined"}
        THEN Downgrade(v, "discovery", "explore_readiness",
                       n.unknowns \cup {"readiness"},
                       "client_feedback_reopened_discovery", {})
        ELSE IF Reopened(n) THEN Reopen(v, ReopenMove(n, v), untested)
        ELSE Reopen(v, IF v.move \in {"shift_focus", "explore_desired_help"}
                       THEN v.move ELSE "test_understanding", untested)

-----------------------------------------------------------------------------
(* Gates: each stage and move has to be earned, the first one missing      *)
(* decides.                                                                *)

Permitted(stage) ==
    DiscoveryMoves \cup {"teach_selectively"}
    \cup (IF stage \in {"possibilities", "action"} THEN {"explore_options"} ELSE {})
    \cup (IF stage = "action"
          THEN {"develop_experiment", "consolidate_commitment"} ELSE {})

Later(v) == v.stage \in {"possibilities", "action"}

OwnedAction(n) ==
    \E i \in Relevant(n) : n.actions[i].status \in {"planned", "ongoing"}

Gate(n, v) ==
    LET u == n.unknowns
        back(stage, move, unknowns) ==
            Downgrade(v, stage, move, unknowns, "policy_downgrade", {})
    IN  IF ~n.evidence
        THEN back("discovery", "clarify",
                  u \cup {"direct_evidence", "observable_pattern"})
        ELSE IF v.move = "teach_selectively"
                /\ "knowledge_gap_observed" \notin n.basis
        THEN back("discovery", "clarify", u \cup {"knowledge_gap"})
        ELSE IF v.move = "teach_selectively" /\ v.last = "teach_selectively"
        THEN Downgrade(v, "reflection", "test_understanding",
                       u \cup {"tested_understanding"}, "policy_downgrade",
                       {"knowledge_gap_observed"})
        ELSE IF Later(v) /\ u \cap DiscoveryBlockingUnknowns # {}
        THEN back("discovery", "clarify", u)
        ELSE IF Later(v) /\ "desired_help" \in u
        THEN back("reflection", "explore_desired_help", u)
        ELSE IF v.stage = "action" /\ "user_owned_outcome" \notin n.basis
        THEN back("possibilities", "explore_options", u \cup {"user_owned_outcome"})
        ELSE IF v.stage = "action" /\ HasProgress(n) /\ ~OwnedAction(n)
        THEN back("possibilities", "explore_options", u \cup {"user_owned_outcome"})
        ELSE IF v.stage = "action" /\ "tested_understanding" \notin n.basis
        THEN back("reflection", "test_understanding", u \cup {"tested_understanding"})
        ELSE IF v.stage = "action" /\ "user_owned_outcome" \in u
        THEN back("possibilities", "explore_options", u)
        ELSE IF v.move \notin Permitted(v.stage)
        THEN back(v.stage, "clarify", u)
        ELSE v

-----------------------------------------------------------------------------
(* CoachingPolicyService.enforce *)
Enforce(s) ==
    LET n == Normalize(s)
        w == Redirect(n)
        v == Reconsider(w, n.unknowns)
    IN  IF n.inquiry.pause
        THEN Downgrade(n, "discovery", "explore_readiness", n.unknowns,
                       "policy_downgrade", {})
        ELSE IF \E i \in Relevant(n) : n.actions[i].topicDeclined
        THEN Downgrade(n, "discovery", "shift_focus", n.unknowns,
                       "policy_downgrade", {})
        ELSE IF Blocking(n, w) # {} /\ (PracticalHelp(n) \/ PracticalMove(n))
        THEN HonorBoundary(n, w)
        ELSE IF InvitationGranted(w) THEN [w EXCEPT !.stage = "possibilities"]
        ELSE IF NeedsRepair(n, v) THEN Repair(n, v)
        ELSE Gate(n, v)
=============================================================================
