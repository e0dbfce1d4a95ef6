---------------------- MODULE CoachingSession_proofs ------------------------
(***************************************************************************)
(* The safety of a coaching session for any number of actions, any updates *)
(* and assessments the model may return, and any sequence of turns,        *)
(* retries, fallbacks and lost turns.                                      *)
(***************************************************************************)
EXTENDS CoachingSession, TLAPS

-----------------------------------------------------------------------------
(* What CoachingPolicyService.enforce returns, for every working state.    *)

(* The literals the rules use belong to the types of the schema.           *)
LEMMA Literals ==
    /\ {"discovery", "reflection", "possibilities", "action"} = Stages
    /\ {"reflect", "clarify", "explore_readiness", "shift_focus", "explore_options",
        "explore_desired_help", "test_understanding", "teach_selectively",
        "support_choice"} \subseteq Moves
    /\ DiscoveryMoves \subseteq Moves
    /\ {"policy_downgrade", "client_feedback_reopened_discovery",
        "tested_understanding"} \subseteq Bases
    /\ {"direct_evidence", "observable_pattern", "tested_understanding", "readiness",
        "desired_help", "user_owned_outcome", "knowledge_gap"} \subseteq Unknowns
BY DEF Stages, Moves, DiscoveryMoves, Bases, Unknowns

(* What the rules need of the type of a working state.                     *)
LEMMA Fields ==
    ASSUME NEW s \in WorkingStates
    PROVE  /\ s.stage \in Stages /\ s.move \in Moves
           /\ s.unknowns \subseteq Unknowns /\ s.basis \subseteq Bases
           /\ s.understanding \in Understandings
BY DEF WorkingStates

(* A downgrade names a stage, a move, unknowns and a reason of the schema. *)
LEMMA DowngradeType ==
    ASSUME NEW s \in WorkingStates, NEW stage \in Stages, NEW move \in Moves,
           NEW unknowns \in SUBSET Unknowns, NEW reason \in Bases, NEW discarded
    PROVE  Downgrade(s, stage, move, unknowns, reason, discarded) \in WorkingStates
BY DEF Downgrade, WorkingStates

(* The normalization at the head of enforce returns a working state.        *)
LEMMA NormalizeType ==
    ASSUME NEW s \in WorkingStates
    PROVE  Normalize(s) \in WorkingStates
<1>1. ASSUME NEW picture \in Understandings,
             NEW withdrawn \in SUBSET {"tested_understanding"},
             NEW tested \in SUBSET {"tested_understanding"}
      PROVE  [s EXCEPT !.understanding = picture,
                       !.basis = (@ \ withdrawn) \cup tested,
                       !.unknowns = (@ \cup withdrawn) \ tested] \in WorkingStates
  BY DEF WorkingStates, Unknowns, Bases
<1>2. s.understanding \in Understandings /\ "needs_revision" \in Understandings
  BY DEF WorkingStates, Understandings
<1> QED BY <1>1, <1>2 DEF Normalize

(* Stepping back from the action stage returns a working state.             *)
LEMMA RedirectType ==
    ASSUME NEW n \in WorkingStates
    PROVE  Redirect(n) \in WorkingStates
<1>1. Downgrade(n, "possibilities", "reflect", n.unknowns, "policy_downgrade", {})
        \in WorkingStates
  BY DowngradeType, Literals, Fields
<1>2. [n EXCEPT !.stage = "possibilities", !.move = "support_choice"] \in WorkingStates
  BY DEF WorkingStates, Stages, Moves, DiscoveryMoves
<1> QED BY <1>1, <1>2 DEF Redirect

(* Turning an unready invitation away returns a working state.              *)
LEMMA ReconsiderType ==
    ASSUME NEW w \in WorkingStates, NEW unknowns \in SUBSET Unknowns
    PROVE  Reconsider(w, unknowns) \in WorkingStates
<1>1. ASSUME NEW stage \in {"discovery", "reflection"},
             NEW move \in {"clarify", "test_understanding"},
             NEW more \in SUBSET {"tested_understanding"},
             NEW reason \in {"client_feedback_reopened_discovery", "policy_downgrade"}
      PROVE  Downgrade(w, stage, move, unknowns \cup more, reason, {}) \in WorkingStates
  BY DowngradeType, Literals
<1>2. Downgrade(w, "possibilities", "explore_options", unknowns,
                "policy_downgrade", {}) \in WorkingStates
  BY DowngradeType, Literals
<1> QED BY <1>1, <1>2 DEF Reconsider

(* Honouring a refusal returns a working state.                             *)
LEMMA HonorBoundaryType ==
    ASSUME NEW n \in WorkingStates, NEW w \in WorkingStates
    PROVE  HonorBoundary(n, w) \in WorkingStates
<1>1. n.unknowns \cup {"readiness"} \in SUBSET Unknowns
  BY Literals, Fields
<1> QED BY <1>1, DowngradeType, Literals DEF HonorBoundary

(* Reopening discovery on feedback returns a working state.                 *)
LEMMA RepairType ==
    ASSUME NEW n \in WorkingStates, NEW v \in WorkingStates
    PROVE  Repair(n, v) \in WorkingStates
<1>1. /\ n.unknowns \cup {"tested_understanding"} \in SUBSET Unknowns
      /\ n.unknowns \cup {"readiness"} \in SUBSET Unknowns
  BY Literals, Fields
<1>2. ASSUME NEW move \in Moves, NEW unknowns \in SUBSET Unknowns
      PROVE  Reopen(v, move, unknowns) \in WorkingStates
  BY DowngradeType, Literals DEF Reopen
<1>3. ReopenMove(n, v) \in Moves
  BY Literals DEF ReopenMove
<1>4. Downgrade(v, "discovery", "explore_readiness", n.unknowns \cup {"readiness"},
                "client_feedback_reopened_discovery", {}) \in WorkingStates
  BY <1>1, DowngradeType, Literals
<1>5. (IF v.move \in {"shift_focus", "explore_desired_help"}
       THEN v.move ELSE "test_understanding") \in Moves
  BY Literals
<1> QED BY <1>1, <1>2, <1>3, <1>4, <1>5, Literals DEF Repair

(* Every gate goes back to a stage and move of the schema or changes       *)
(* nothing.                                                                *)
LEMMA GateType ==
    ASSUME NEW n \in WorkingStates, NEW v \in WorkingStates
    PROVE  Gate(n, v) \in WorkingStates
<1>1. ASSUME NEW stage \in Stages, NEW move \in Moves,
             NEW more \in SUBSET Unknowns, NEW discarded
      PROVE  Downgrade(v, stage, move, n.unknowns \cup more, "policy_downgrade",
                       discarded) \in WorkingStates
  <2>1. n.unknowns \cup more \in SUBSET Unknowns
    BY Fields
  <2> QED BY <2>1, DowngradeType, Literals
<1>2. ASSUME NEW stage \in Stages, NEW move \in Moves
      PROVE  Downgrade(v, stage, move, n.unknowns, "policy_downgrade", {})
               \in WorkingStates
  BY DowngradeType, Literals, Fields
<1>3. /\ v.stage \in Stages
      /\ {"discovery", "reflection", "possibilities"} \subseteq Stages
  BY Fields, Literals
<1> QED BY <1>1, <1>2, <1>3, Literals DEF Gate

(* enforce returns a working state.                                        *)
THEOREM EnforceType ==
    ASSUME NEW s \in WorkingStates
    PROVE  Enforce(s) \in WorkingStates
<1> DEFINE n == Normalize(s)
           w == Redirect(n)
           v == Reconsider(w, n.unknowns)
<1>1. n \in WorkingStates
  BY NormalizeType
<1>2. w \in WorkingStates
  BY <1>1, RedirectType
<1>3. n.unknowns \in SUBSET Unknowns
  BY <1>1, Fields
<1>4. v \in WorkingStates
  BY <1>2, <1>3, ReconsiderType
<1>5. ASSUME NEW move \in {"explore_readiness", "shift_focus"}
      PROVE  Downgrade(n, "discovery", move, n.unknowns, "policy_downgrade", {})
               \in WorkingStates
  BY <1>1, <1>3, DowngradeType, Literals
<1>6. /\ HonorBoundary(n, w) \in WorkingStates
      /\ Repair(n, v) \in WorkingStates
      /\ Gate(n, v) \in WorkingStates
  BY <1>1, <1>2, <1>4, HonorBoundaryType, RepairType, GateType
<1>7. [w EXCEPT !.stage = "possibilities"] \in WorkingStates
  BY <1>2, Literals DEF WorkingStates
<1> HIDE DEF n, w, v
<1>8. Enforce(s) = IF n.inquiry.pause
        THEN Downgrade(n, "discovery", "explore_readiness", n.unknowns,
                       "policy_downgrade", {})
        ELSE IF \E i \in Relevant(n) : n.actions[i].topicDeclined
        THEN Downgrade(n, "discovery", "shift_focus", n.unknowns,
                       "policy_downgrade", {})
        ELSE IF Blocking(n, w) # {} /\ (PracticalHelp(n) \/ PracticalMove(n))
        THEN HonorBoundary(n, w)
        ELSE IF InvitationGranted(w) THEN [w EXCEPT !.stage = "possibilities"]
        ELSE IF NeedsRepair(n, v) THEN Repair(n, v)
        ELSE Gate(n, v)
  BY DEF Enforce, n, w, v
<1> QED BY <1>5, <1>6, <1>7, <1>8

-----------------------------------------------------------------------------
(* What a rewriting leaves alone: everything the rules read besides the    *)
(* stage, the move, the unknowns and the basis.                            *)
SameClient(s, d) ==
    /\ d.last = s.last /\ d.response = s.response /\ d.evidence = s.evidence
    /\ d.actions = s.actions /\ d.target = s.target
    /\ d.requested = s.requested /\ d.inquiry = s.inquiry
    /\ d.understanding = s.understanding
    /\ d.progress = s.progress /\ d.support = s.support

(* _downgrade changes the stage, move, unknowns and basis, nothing else.    *)
LEMMA DowngradeEffect ==
    ASSUME NEW s \in WorkingStates, NEW stage, NEW move, NEW unknowns,
           NEW reason, NEW discarded
    PROVE  LET d == Downgrade(s, stage, move, unknowns, reason, discarded)
           IN  /\ SameClient(s, d)
               /\ d.stage = stage /\ d.move = move
               /\ d.unknowns \subseteq unknowns
               /\ s.basis \ discarded \subseteq d.basis
BY DEF Downgrade, WorkingStates, SameClient

(* Normalizing leaves the proposal, the evidence and the actions alone.     *)
LEMMA NormalizeEffect ==
    ASSUME NEW s \in WorkingStates
    PROVE  LET n == Normalize(s)
           IN  /\ n.stage = s.stage /\ n.move = s.move
               /\ n.last = s.last /\ n.evidence = s.evidence
               /\ n.progress = s.progress
               /\ "tested_understanding" \in n.basis =>
                    \/ Shared(n) /\ "tested_understanding" \notin n.unknowns
                    \/ ~HasProgress(s)
                    \/ "tested_understanding" \in s.basis /\ ~Shared(s)
BY DEF Normalize, WorkingStates, Affirmed, Shared, HasProgress, Revising

(* Stepping back changes only the stage, move and reasons of a proposal.    *)
LEMMA RedirectEffect ==
    ASSUME NEW n \in WorkingStates
    PROVE  LET w == Redirect(n)
           IN  /\ SameClient(n, w)
               /\ n.basis \subseteq w.basis
               /\ w.stage = "action" => w = n /\ ~ExecutionRefused(n)
               /\ w.move = "teach_selectively" => w.move = n.move
<1>1. CASE ExecutionRefused(n)
  BY <1>1, DowngradeEffect DEF Redirect
<1>2. CASE ~ExecutionRefused(n) /\ NonexecutingSupport(n) /\ n.stage = "action"
  BY <1>2 DEF Redirect, WorkingStates, SameClient
<1>3. CASE ~ExecutionRefused(n) /\ ~(NonexecutingSupport(n) /\ n.stage = "action")
  BY <1>3 DEF Redirect, SameClient
<1> QED BY <1>1, <1>2, <1>3

(* An invitation turned away leaves neither support nor the action stage.   *)
LEMMA ReconsiderEffect ==
    ASSUME NEW w \in WorkingStates, NEW unknowns
    PROVE  LET v == Reconsider(w, unknowns)
           IN  /\ SameClient(w, v)
               /\ w.basis \subseteq v.basis
               /\ v.stage = "action" => v = w
               /\ v.move = "teach_selectively" => v = w
<1>1. CASE ~IsInvitation(w)
  BY <1>1 DEF Reconsider, SameClient
<1>2. CASE IsInvitation(w)
  BY <1>2, DowngradeEffect DEF Reconsider
<1> QED BY <1>1, <1>2

(* A repair leads to discovery, and to teaching only when it is earned.    *)
LEMMA RepairEffect ==
    ASSUME NEW n \in WorkingStates, NEW v \in WorkingStates,
           SameClient(n, v), n.basis \subseteq v.basis
    PROVE  LET d == Repair(n, v)
           IN  /\ d.stage = "discovery"
               /\ SameClient(n, d)
               /\ d.move = "teach_selectively" =>
                    EarnedTeaching(n) /\ "knowledge_gap_observed" \in d.basis
<1>1. ASSUME NEW move, NEW unknowns
      PROVE  LET d == Reopen(v, move, unknowns)
             IN  /\ d.stage = "discovery" /\ d.move = move /\ SameClient(n, d)
                 /\ "knowledge_gap_observed" \in n.basis =>
                      "knowledge_gap_observed" \in d.basis
  BY DowngradeEffect DEF Reopen, SameClient
<1>2. LET d == Downgrade(v, "discovery", "explore_readiness",
                         n.unknowns \cup {"readiness"},
                         "client_feedback_reopened_discovery", {})
      IN  d.stage = "discovery" /\ d.move = "explore_readiness" /\ SameClient(n, d)
  BY DowngradeEffect DEF SameClient
<1>3. ReopenMove(n, v) = "teach_selectively" => EarnedTeaching(n)
  BY DEF ReopenMove, DiscoveryMoves
<1>4. EarnedTeaching(n) => "knowledge_gap_observed" \in n.basis
  BY DEF EarnedTeaching
<1>5. TeachingDue(n) => EarnedTeaching(n)
  BY DEF TeachingDue, TeachingRepairs
<1>6. CASE InquiryStuck(n, v)
  BY <1>1, <1>6 DEF Repair
<1>7. CASE ~InquiryStuck(n, v) /\ TeachingDue(n)
  BY <1>1, <1>4, <1>5, <1>7 DEF Repair
<1>8. CASE ~InquiryStuck(n, v) /\ ~TeachingDue(n) /\ Reopened(n)
           /\ n.response \in {"not_ready", "declined"}
  BY <1>2, <1>8 DEF Repair
<1>9. CASE ~InquiryStuck(n, v) /\ ~TeachingDue(n) /\ Reopened(n)
           /\ n.response \notin {"not_ready", "declined"}
  BY <1>1, <1>3, <1>4, <1>9 DEF Repair
<1>10. CASE ~InquiryStuck(n, v) /\ ~TeachingDue(n) /\ ~Reopened(n)
  BY <1>1, <1>10 DEF Repair
<1> QED BY <1>6, <1>7, <1>8, <1>9, <1>10

(* What passes every gate, with the move it came with or with "clarify".   *)
LEMMA GateEffect ==
    ASSUME NEW n \in WorkingStates, NEW v \in WorkingStates, SameClient(n, v)
    PROVE  LET d == Gate(n, v)
           IN  /\ SameClient(n, d)
               /\ d.stage = "action" =>
                    /\ v.stage = "action" /\ d.unknowns \subseteq n.unknowns \cup v.unknowns
                    /\ v.basis \subseteq d.basis
                    /\ n.evidence
                    /\ n.unknowns \cap (DiscoveryBlockingUnknowns \cup
                          {"desired_help", "user_owned_outcome"}) = {}
                    /\ {"tested_understanding", "user_owned_outcome"} \subseteq n.basis
                    /\ HasProgress(n) => OwnedAction(n)
               /\ d.move = "teach_selectively" =>
                    /\ d = v /\ n.evidence
                    /\ "knowledge_gap_observed" \in n.basis
                    /\ v.last # "teach_selectively"
<1>1. ASSUME NEW stage, NEW move, NEW unknowns, NEW discarded
      PROVE  LET d == Downgrade(v, stage, move, unknowns, "policy_downgrade", discarded)
             IN  /\ SameClient(n, d) /\ d.stage = stage /\ d.move = move
                 /\ d.unknowns \subseteq unknowns
                 /\ v.basis \ discarded \subseteq d.basis
  BY DowngradeEffect DEF SameClient
<1> QED BY <1>1 DEF Gate, Later

(* enforce decides to teach only on grounded evidence of a knowledge gap,  *)
(* and never right after teaching.                                         *)
THEOREM EnforceTeaching ==
    ASSUME NEW s \in WorkingStates, Enforce(s).move = "teach_selectively"
    PROVE  LET d == Enforce(s)
           IN  /\ "knowledge_gap_observed" \in d.basis
               /\ d.evidence
               /\ d.last # "teach_selectively"
<1> DEFINE n == Normalize(s)
           w == Redirect(n)
           v == Reconsider(w, n.unknowns)
           d == Enforce(s)
<1>1. n \in WorkingStates /\ w \in WorkingStates /\ v \in WorkingStates
  BY NormalizeType, RedirectType, ReconsiderType, Fields
<1>2. SameClient(n, w) /\ n.basis \subseteq w.basis
  BY <1>1, RedirectEffect
<1>3. SameClient(w, v) /\ w.basis \subseteq v.basis
  BY <1>1, ReconsiderEffect
<1>4. SameClient(n, v) /\ n.basis \subseteq v.basis
  BY <1>2, <1>3 DEF SameClient
<1>5. ASSUME NEW x \in WorkingStates, NEW stage,
             NEW move \in {"explore_readiness", "shift_focus"},
             NEW unknowns, NEW reason, NEW discarded
      PROVE  Downgrade(x, stage, move, unknowns, reason, discarded).move
               # "teach_selectively"
  BY DowngradeEffect
<1>6. HonorBoundary(n, w).move # "teach_selectively"
  BY <1>1, <1>5 DEF HonorBoundary
<1>7. InvitationGranted(w) => [w EXCEPT !.stage = "possibilities"].move # "teach_selectively"
  BY <1>1 DEF InvitationGranted, IsInvitation, WorkingStates
<1>8. ASSUME d = Repair(n, v)
      PROVE  "knowledge_gap_observed" \in d.basis /\ d.evidence /\ d.last # "teach_selectively"
  <2>1. SameClient(n, d) /\ EarnedTeaching(n) /\ "knowledge_gap_observed" \in d.basis
    BY <1>1, <1>4, <1>8, RepairEffect
  <2> QED BY <2>1 DEF SameClient, EarnedTeaching
<1>9. ASSUME d = Gate(n, v)
      PROVE  "knowledge_gap_observed" \in d.basis /\ d.evidence /\ d.last # "teach_selectively"
  <2>1. /\ SameClient(n, d) /\ d = v /\ n.evidence
        /\ "knowledge_gap_observed" \in n.basis /\ v.last # "teach_selectively"
    BY <1>1, <1>4, <1>9, GateEffect
  <2> QED BY <1>4, <2>1 DEF SameClient
<1> QED BY <1>1, <1>5, <1>6, <1>7, <1>8, <1>9 DEF Enforce

(* enforce decides on the action stage only when all that it rests on is   *)
(* there: the proposal must have judged progress, and must not claim       *)
(* tested understanding without a supported picture.                       *)
THEOREM EnforceAction ==
    ASSUME NEW s \in WorkingStates, Enforce(s).stage = "action",
           s.stage = "action" => HasProgress(s),
           "tested_understanding" \in s.basis => Shared(s)
    PROVE  LET d == Enforce(s)
           IN  /\ Shared(d) /\ d.evidence
               /\ {"tested_understanding", "user_owned_outcome"} \subseteq d.basis
               /\ d.unknowns \cap (DiscoveryBlockingUnknowns \cup
                     {"desired_help", "user_owned_outcome", "tested_understanding"}) = {}
               /\ OwnedAction(d)
               /\ ~\E i \in Relevant(d) : Refused(d, i)
<1> DEFINE n == Normalize(s)
           w == Redirect(n)
           v == Reconsider(w, n.unknowns)
           d == Enforce(s)
<1>1. n \in WorkingStates /\ w \in WorkingStates /\ v \in WorkingStates
  BY NormalizeType, RedirectType, ReconsiderType, Fields
<1>2. SameClient(n, w) /\ SameClient(w, v) /\ n.basis \subseteq v.basis
  BY <1>1, RedirectEffect, ReconsiderEffect
<1>3. SameClient(n, v)
  BY <1>2 DEF SameClient
\* every rule but the gates leads to discovery or possibilities
<1>4. d = Gate(n, v) /\ ~(Blocking(n, w) # {} /\ PracticalMove(n))
  <2>1. ASSUME NEW x \in WorkingStates, NEW move, NEW unknowns, NEW reason, NEW discarded
        PROVE  Downgrade(x, "discovery", move, unknowns, reason, discarded).stage # "action"
    BY DowngradeEffect
  <2>2. HonorBoundary(n, w).stage # "action"
    BY <1>1, <2>1 DEF HonorBoundary
  <2>3. [w EXCEPT !.stage = "possibilities"].stage # "action"
    BY <1>1 DEF WorkingStates
  <2>4. Repair(n, v).stage # "action"
    BY <1>1, <1>2, <1>3, RepairEffect
  <2> QED BY <1>1, <2>1, <2>2, <2>3, <2>4 DEF Enforce
<1>5. /\ SameClient(n, d) /\ v.stage = "action"
      /\ d.unknowns \subseteq n.unknowns \cup v.unknowns
      /\ v.basis \subseteq d.basis /\ n.evidence
      /\ n.unknowns \cap (DiscoveryBlockingUnknowns \cup
            {"desired_help", "user_owned_outcome"}) = {}
      /\ {"tested_understanding", "user_owned_outcome"} \subseteq n.basis
      /\ HasProgress(n) => OwnedAction(n)
  BY <1>1, <1>3, <1>4, GateEffect
\* so the proposal came through unchanged
<1>6. v = w /\ w = n /\ ~ExecutionRefused(n)
  BY <1>1, <1>5, RedirectEffect, ReconsiderEffect
<1>7. HasProgress(s) /\ HasProgress(n)
  BY <1>5, <1>6, NormalizeEffect DEF HasProgress
<1>8. Shared(n) /\ "tested_understanding" \notin n.unknowns
  BY <1>5, <1>7, NormalizeEffect
<1>9. ~\E i \in Relevant(n) : Refused(n, i)
  <2>1. PracticalMove(n)
    BY <1>5, <1>6 DEF PracticalMove
  <2>2. Blocking(n, n) = {}
    BY <1>4, <1>6, <2>1
  <2>3. \A i : ~Excused(n, n, i)
    BY <1>5, <1>6 DEF Excused
  <2> QED BY <2>2, <2>3 DEF Blocking
<1>10. OwnedAction(d) /\ Shared(d) /\ d.evidence
  BY <1>5, <1>7, <1>8 DEF OwnedAction, Relevant, Shared, SameClient
<1>11. ~\E i \in Relevant(d) : Refused(d, i)
  BY <1>5, <1>9 DEF Relevant, Refused, PreparationRequested, NonexecutingSupport,
                    PracticalHelp, Shared, SameClient
<1> QED BY <1>2, <1>5, <1>6, <1>8, <1>10, <1>11

(* enforce never rewrites what the client said of an action, nor the last  *)
(* move.                                                                   *)
THEOREM EnforceKeeps ==
    ASSUME NEW s \in WorkingStates
    PROVE  Enforce(s).actions = s.actions /\ Enforce(s).last = s.last
<1> DEFINE n == Normalize(s)
           w == Redirect(n)
           v == Reconsider(w, n.unknowns)
           d == Enforce(s)
<1>1. n \in WorkingStates /\ w \in WorkingStates /\ v \in WorkingStates
  BY NormalizeType, RedirectType, ReconsiderType, Fields
<1>2. n.actions = s.actions /\ n.last = s.last
  BY DEF Normalize, WorkingStates
<1>3. SameClient(n, w) /\ SameClient(w, v) /\ n.basis \subseteq v.basis
  BY <1>1, RedirectEffect, ReconsiderEffect
<1>4. SameClient(n, v)
  BY <1>3 DEF SameClient
<1>5. ASSUME NEW stage, NEW move, NEW unknowns, NEW reason, NEW discarded
      PROVE  SameClient(n, Downgrade(n, stage, move, unknowns, reason, discarded))
  BY <1>1, DowngradeEffect
<1>6. SameClient(n, HonorBoundary(n, w))
  BY <1>1, <1>3, DowngradeEffect DEF HonorBoundary, SameClient
<1>7. SameClient(n, [w EXCEPT !.stage = "possibilities"])
  BY <1>1, <1>3 DEF SameClient, WorkingStates
<1>8. SameClient(n, Repair(n, v)) /\ SameClient(n, Gate(n, v))
  BY <1>1, <1>3, <1>4, RepairEffect, GateEffect
<1>9. SameClient(n, d)
  BY <1>5, <1>6, <1>7, <1>8 DEF Enforce
<1> QED BY <1>2, <1>9 DEF SameClient

-----------------------------------------------------------------------------
(* Tested understanding: no rule adds it, and what is supported keeps it.   *)
KeepsPicture(n, d) ==
    /\ SameClient(n, d)
    /\ d.response = n.response /\ d.usefulness = n.usefulness
    /\ d.generation = n.generation
    /\ "tested_understanding" \in d.basis => "tested_understanding" \in n.basis
    /\ Shared(n) /\ "tested_understanding" \in n.basis
                 /\ "tested_understanding" \notin n.unknowns =>
          "tested_understanding" \in d.basis \ d.unknowns

(* The relation chains.                                                     *)
LEMMA KeepsPictureChains ==
    ASSUME NEW n, NEW w, NEW v, KeepsPicture(n, w), KeepsPicture(w, v)
    PROVE  KeepsPicture(n, v)
BY DEF KeepsPicture, SameClient, Shared

(* No downgrade for a reason of its own adds tested understanding.          *)
LEMMA DowngradeKeepsPicture ==
    ASSUME NEW s \in WorkingStates, NEW stage, NEW move, NEW unknowns,
           NEW reason \in {"policy_downgrade", "client_feedback_reopened_discovery"},
           NEW discarded
    PROVE  KeepsPicture(s, Downgrade(s, stage, move, unknowns, reason, discarded))
BY DEF Downgrade, WorkingStates, KeepsPicture, SameClient, Shared

(* Nor does a change of the stage or the move alone.                        *)
LEMMA MoveKeepsPicture ==
    ASSUME NEW s \in WorkingStates, NEW stage, NEW move
    PROVE  /\ KeepsPicture(s, s)
           /\ KeepsPicture(s, [s EXCEPT !.stage = stage])
           /\ KeepsPicture(s, [s EXCEPT !.stage = stage, !.move = move])
BY DEF WorkingStates, KeepsPicture, SameClient, Shared

(* enforce keeps the picture of the normalized state, and with it what the  *)
(* client said of it.                                                       *)
THEOREM EnforceKeepsPicture ==
    ASSUME NEW s \in WorkingStates
    PROVE  KeepsPicture(Normalize(s), Enforce(s))
<1> DEFINE n == Normalize(s)
           w == Redirect(n)
           v == Reconsider(w, n.unknowns)
<1>1. n \in WorkingStates /\ w \in WorkingStates /\ v \in WorkingStates
  BY NormalizeType, RedirectType, ReconsiderType, Fields
<1>2. KeepsPicture(n, n) /\ KeepsPicture(n, w)
  BY <1>1, DowngradeKeepsPicture, MoveKeepsPicture DEF Redirect
<1>3. KeepsPicture(w, v)
  BY <1>1, DowngradeKeepsPicture, MoveKeepsPicture DEF Reconsider
<1>4. KeepsPicture(n, v)
  BY <1>2, <1>3, KeepsPictureChains
<1>5. KeepsPicture(n, HonorBoundary(n, w))
  <2>1. KeepsPicture(w, HonorBoundary(n, w))
    BY <1>1, DowngradeKeepsPicture DEF HonorBoundary
  <2> QED BY <1>2, <2>1, KeepsPictureChains
<1>6. KeepsPicture(n, [w EXCEPT !.stage = "possibilities"])
  BY <1>1, <1>2, MoveKeepsPicture, KeepsPictureChains
<1>7. KeepsPicture(v, Repair(n, v))
  BY <1>1, DowngradeKeepsPicture DEF Repair, Reopen
<1>8. KeepsPicture(v, Gate(n, v))
  BY <1>1, DowngradeKeepsPicture, MoveKeepsPicture DEF Gate
<1>9. KeepsPicture(n, Repair(n, v)) /\ KeepsPicture(n, Gate(n, v))
  BY <1>4, <1>7, <1>8, KeepsPictureChains
<1>10. ASSUME NEW stage, NEW move, NEW unknowns
       PROVE  KeepsPicture(n, Downgrade(n, stage, move, unknowns, "policy_downgrade", {}))
  BY <1>1, DowngradeKeepsPicture
<1> QED BY <1>5, <1>6, <1>9, <1>10 DEF Enforce

(* What normalizing does to the picture, and what it leaves alone.          *)
LEMMA NormalizePicture ==
    ASSUME NEW s \in WorkingStates
    PROVE  LET n == Normalize(s)
           IN  /\ n.actions = s.actions /\ n.target = s.target
               /\ n.requested = s.requested /\ n.inquiry = s.inquiry
               /\ n.support = s.support /\ n.progress = s.progress
               /\ n.response = s.response /\ n.usefulness = s.usefulness
               /\ n.generation = s.generation /\ n.evidence = s.evidence
               /\ n.stage = s.stage /\ n.move = s.move /\ n.last = s.last
               /\ Shared(n) <=> Shared(s) /\ ~Revising(s)
               /\ Shared(n) => "tested_understanding" \in n.basis \ n.unknowns
               /\ Affirmed(s) => "tested_understanding" \in n.basis \ n.unknowns
               /\ "tested_understanding" \in n.basis =>
                     Shared(n) \/ Affirmed(s) \/ "tested_understanding" \in s.basis
               /\ "knowledge_gap_observed" \in s.basis =>
                     "knowledge_gap_observed" \in n.basis
<1>1. s.understanding \in Understandings
  BY DEF WorkingStates
<1> QED BY <1>1 DEF Normalize, WorkingStates, Shared, Revising, Understandings

(* A picture that is supported after enforce counts as tested.              *)
THEOREM SharedIsTested ==
    ASSUME NEW s \in WorkingStates, Shared(Enforce(s))
    PROVE  "tested_understanding" \in Enforce(s).basis \ Enforce(s).unknowns
BY EnforceKeepsPicture, NormalizePicture DEF KeepsPicture, SameClient, Shared

(* In a turn that judged progress, tested understanding is never claimed    *)
(* without a supported picture.                                             *)
THEOREM TestedIsShared ==
    ASSUME NEW s \in WorkingStates,
           "tested_understanding" \in s.basis => Shared(s),
           HasProgress(Enforce(s)), "tested_understanding" \in Enforce(s).basis
    PROVE  Shared(Enforce(s))
<1> DEFINE n == Normalize(s)
<1>1. KeepsPicture(n, Enforce(s))
  BY EnforceKeepsPicture
<1>2. HasProgress(s) /\ "tested_understanding" \in n.basis
  BY <1>1, NormalizePicture DEF KeepsPicture, SameClient, HasProgress
<1>3. ~Affirmed(s)
  BY <1>2 DEF Affirmed
<1>4. Shared(n)
  <2>1. CASE Revising(s)
    BY <1>2, <1>3, <2>1 DEF Normalize, WorkingStates, Shared, Revising
  <2> QED BY <1>2, <1>3, <2>1, NormalizePicture
<1> QED BY <1>1, <1>4 DEF KeepsPicture, SameClient, Shared

(* An affirmed but unsupported picture that a repair discarded is discarded *)
(* again when the decision is enforced again.                               *)
LEMMA RepairRepeats ==
    ASSUME NEW s \in WorkingStates, s.stage = "action" => HasProgress(s),
           Affirmed(Enforce(s)), ~Shared(Enforce(s)),
           "tested_understanding" \notin Enforce(s).basis
    PROVE  "tested_understanding" \notin Enforce(Enforce(s)).basis
<1> DEFINE n == Normalize(s)
           w == Redirect(n)
           v == Reconsider(w, n.unknowns)
           e == Enforce(s)
           n2 == Normalize(e)
           w2 == Redirect(n2)
           v2 == Reconsider(w2, n2.unknowns)
<1>1. n \in WorkingStates /\ w \in WorkingStates /\ v \in WorkingStates
  BY NormalizeType, RedirectType, ReconsiderType, Fields
<1>2. e \in WorkingStates /\ n2 \in WorkingStates
  BY EnforceType, NormalizeType
<1>3. KeepsPicture(n, e)
  BY EnforceKeepsPicture
<1>4. /\ n.actions = e.actions /\ n.target = e.target /\ n.requested = e.requested
      /\ n.inquiry = e.inquiry /\ n.support = e.support /\ n.progress = e.progress
      /\ n.response = e.response /\ n.usefulness = e.usefulness
      /\ n.generation = e.generation /\ n.evidence = e.evidence /\ n.last = e.last
      /\ ~Shared(n)
  BY <1>3 DEF KeepsPicture, SameClient, Shared
\* the proposal was affirmed too, so something discarded what it tested
<1>5. /\ ~HasProgress(n) /\ n.response = "affirmed" /\ n.last = "test_understanding"
      /\ n.stage # "action"
      /\ "tested_understanding" \in n.basis
  BY <1>4, NormalizePicture DEF Affirmed, HasProgress
<1> HIDE DEF n, w, v, e
<1>6. w = n
  BY <1>4, <1>5 DEF w, Redirect, ExecutionRefused, NonexecutingSupport
<1>7. ASSUME NEW x \in WorkingStates, "tested_understanding" \in x.basis,
             NEW stage, NEW move, NEW unknowns, NEW reason,
             NEW discarded \in SUBSET {"knowledge_gap_observed"}
      PROVE  "tested_understanding"
               \in Downgrade(x, stage, move, unknowns, reason, discarded).basis
  BY <1>7 DEF Downgrade, WorkingStates
<1>8. "tested_understanding" \in v.basis
  BY <1>1, <1>5, <1>6, <1>7 DEF v, Reconsider
\* and only a repair does
<1>9. /\ ~n.inquiry.pause
      /\ ~\E i \in Relevant(n) : n.actions[i].topicDeclined
      /\ ~(Blocking(n, w) # {} /\ (PracticalHelp(n) \/ PracticalMove(n)))
      /\ NeedsRepair(n, v) /\ e = Repair(n, v)
  <2>1. "tested_understanding" \in HonorBoundary(n, w).basis
    BY <1>1, <1>5, <1>6, <1>7 DEF HonorBoundary
  <2>2. "tested_understanding" \in [w EXCEPT !.stage = "possibilities"].basis
    BY <1>1, <1>5, <1>6 DEF WorkingStates
  <2>3. "tested_understanding" \in Gate(n, v).basis
    BY <1>1, <1>7, <1>8 DEF Gate
  <2>4. "tested_understanding" \notin e.basis
    BY DEF e
  <2>5. e = (IF n.inquiry.pause
             THEN Downgrade(n, "discovery", "explore_readiness", n.unknowns,
                            "policy_downgrade", {})
             ELSE IF \E i \in Relevant(n) : n.actions[i].topicDeclined
             THEN Downgrade(n, "discovery", "shift_focus", n.unknowns,
                            "policy_downgrade", {})
             ELSE IF Blocking(n, w) # {} /\ (PracticalHelp(n) \/ PracticalMove(n))
             THEN HonorBoundary(n, w)
             ELSE IF InvitationGranted(w) THEN [w EXCEPT !.stage = "possibilities"]
             ELSE IF NeedsRepair(n, v) THEN Repair(n, v)
             ELSE Gate(n, v))
    BY DEF e, n, w, v, Enforce
  <2> QED BY <1>1, <1>5, <1>7, <2>1, <2>2, <2>3, <2>4, <2>5
<1>10. ~Reopened(n)
  BY <1>5 DEF Reopened, ReopeningResponses
<1>11. /\ e.stage = "discovery"
       /\ \/ InquiryStuck(n, v) /\ e.move = "shift_focus"
          \/ TeachingDue(n) /\ e.move = "teach_selectively"
          \/ /\ PossiblyUnhelpful(n)
             /\ e.move \in {"shift_focus", "explore_desired_help", "test_understanding"}
  <2>1. ASSUME NEW move, NEW unknowns
        PROVE  Reopen(v, move, unknowns).stage = "discovery"
               /\ Reopen(v, move, unknowns).move = move
    BY <1>1, DowngradeEffect DEF Reopen
  <2> QED BY <1>9, <1>10, <2>1 DEF Repair, NeedsRepair
\* the second time the same repair is due
<1>12. /\ n2.actions = n.actions /\ n2.target = n.target /\ n2.requested = n.requested
       /\ n2.inquiry = n.inquiry /\ n2.support = n.support
       /\ n2.response = n.response /\ n2.usefulness = n.usefulness
       /\ n2.generation = n.generation /\ n2.evidence = n.evidence
       /\ n2.last = n.last /\ n2.stage = "discovery" /\ n2.move = e.move
       /\ ~Shared(n2)
       /\ "knowledge_gap_observed" \in e.basis => "knowledge_gap_observed" \in n2.basis
  BY <1>2, <1>4, <1>11, NormalizePicture DEF e
<1>13. w2 = n2 /\ v2 = n2
  BY <1>11, <1>12 DEF Redirect, ExecutionRefused, NonexecutingSupport,
                      Reconsider, IsInvitation
<1>14. Relevant(n2) = Relevant(n) /\ Blocking(n2, w2) = Blocking(n, w)
  BY <1>4, <1>12 DEF Relevant, Blocking, Refused, Excused, PreparationRequested,
                     NonexecutingSupport, PracticalHelp
<1>15. PracticalMove(n2) => PracticalMove(n)
  BY <1>5, <1>11, <1>12 DEF PracticalMove, ExecutionRefused, TeachingDue,
                            TeachingRepairs, EarnedTeaching
<1>16. ~Reopened(n2)
  BY <1>10, <1>12, <1>5 DEF Reopened, ReopeningResponses
<1>17. NeedsRepair(n2, v2)
  <2>1. CASE PossiblyUnhelpful(n)
    BY <1>12, <2>1 DEF NeedsRepair, PossiblyUnhelpful
  <2>2. CASE InquiryStuck(n, v) /\ e.move = "shift_focus"
    BY <1>12, <1>13, <2>2
       DEF NeedsRepair, InquiryStuck, Stalled, TeachingRepairs, EarnedTeaching,
           SynthesisUseful
  <2>3. CASE TeachingDue(n) /\ e.move = "teach_selectively"
    <3>1. "knowledge_gap_observed" \in n2.basis
      BY <1>12, <2>3, EnforceTeaching DEF e
    <3> QED BY <1>12, <2>3, <3>1
            DEF NeedsRepair, TeachingDue, TeachingRepairs, EarnedTeaching, Stalled,
                PossiblyUnhelpful
  <2> QED BY <1>11, <2>1, <2>2, <2>3
<1>18. ~InvitationGranted(w2)
  BY <1>11, <1>12, <1>13 DEF InvitationGranted, IsInvitation
<1>19. Enforce(e) = Repair(n2, v2)
  BY <1>9, <1>12, <1>14, <1>15, <1>17, <1>18 DEF Enforce, PracticalHelp
<1>20. ASSUME NEW move, NEW unknowns
       PROVE  "tested_understanding" \notin Reopen(n2, move, unknowns).basis
  BY <1>2, <1>12 DEF Reopen, Downgrade, WorkingStates
<1> QED BY <1>13, <1>16, <1>19, <1>20 DEF Repair, e

(* Enforcing a decision again never claims tested understanding that the    *)
(* decision did not.                                                        *)
THEOREM EnforceTestsOnce ==
    ASSUME NEW s \in WorkingStates, s.stage = "action" => HasProgress(s),
           "tested_understanding" \in Enforce(Enforce(s)).basis
    PROVE  "tested_understanding" \in Enforce(s).basis
<1> DEFINE e == Enforce(s)
<1>1. e \in WorkingStates
  BY EnforceType
<1>2. "tested_understanding" \in Normalize(e).basis
  BY <1>1, EnforceKeepsPicture DEF KeepsPicture
<1>3. Shared(e) \/ Affirmed(e) \/ "tested_understanding" \in e.basis
  BY <1>1, <1>2, NormalizePicture
<1> QED BY <1>1, <1>3, SharedIsTested, RepairRepeats

-----------------------------------------------------------------------------
(* Enforcing a decision again *)

(* A decision of the action stage is the normalized proposal itself.        *)
LEMMA ActionIsNormalized ==
    ASSUME NEW s \in WorkingStates, Enforce(s).stage = "action"
    PROVE  LET n == Normalize(s)
           IN  /\ Enforce(s) = n /\ ~ExecutionRefused(n)
               /\ "tested_understanding" \in n.basis
<1> DEFINE n == Normalize(s)
           w == Redirect(n)
           v == Reconsider(w, n.unknowns)
           d == Enforce(s)
<1>1. n \in WorkingStates /\ w \in WorkingStates /\ v \in WorkingStates
  BY NormalizeType, RedirectType, ReconsiderType, Fields
<1>2. SameClient(n, w) /\ SameClient(w, v) /\ n.basis \subseteq v.basis
  BY <1>1, RedirectEffect, ReconsiderEffect
<1>3. SameClient(n, v)
  BY <1>2 DEF SameClient
<1>4. d = Gate(n, v)
  <2>1. ASSUME NEW x \in WorkingStates, NEW move, NEW unknowns, NEW reason, NEW discarded
        PROVE  Downgrade(x, "discovery", move, unknowns, reason, discarded).stage # "action"
    BY DowngradeEffect
  <2>2. HonorBoundary(n, w).stage # "action"
    BY <1>1, <2>1 DEF HonorBoundary
  <2>3. [w EXCEPT !.stage = "possibilities"].stage # "action"
    BY <1>1 DEF WorkingStates
  <2>4. Repair(n, v).stage # "action"
    BY <1>1, <1>2, <1>3, RepairEffect
  <2> QED BY <1>1, <2>1, <2>2, <2>3, <2>4 DEF Enforce
<1>5. v.stage = "action" /\ "tested_understanding" \in n.basis
  BY <1>1, <1>3, <1>4, GateEffect
<1>6. v = w /\ w = n /\ ~ExecutionRefused(n)
  BY <1>1, <1>5, RedirectEffect, ReconsiderEffect
<1>7. ~IsInvitation(n)
  <2>1. CASE IsInvitation(w)
    <3>1. ASSUME NEW stage \in {"discovery", "reflection", "possibilities"},
                 NEW move, NEW unknowns
          PROVE  Downgrade(w, stage, move, unknowns, "policy_downgrade", {}).stage
                   # "action" /\
                 Downgrade(w, stage, move, unknowns,
                           "client_feedback_reopened_discovery", {}).stage # "action"
      BY <1>1, DowngradeEffect
    <3> QED BY <1>5, <2>1, <3>1 DEF Reconsider
  <2> QED BY <1>6, <2>1
<1>8. n.move \in Permitted("action")
  BY <1>1, <1>7 DEF IsInvitation, Permitted, WorkingStates, Moves, DiscoveryMoves
<1>9. Gate(n, v) = v
  <2>1. ASSUME NEW stage \in {"discovery", "reflection", "possibilities"},
               NEW move, NEW unknowns, NEW discarded
        PROVE  Downgrade(v, stage, move, unknowns, "policy_downgrade", discarded).stage
                 # "action"
    BY <1>1, DowngradeEffect
  <2> HIDE DEF n, w, v, d
  <2> QED BY <1>4, <1>5, <1>6, <1>8, <2>1 DEF Gate, d
<1> QED BY <1>4, <1>5, <1>6, <1>9

(* No rule leads to the action stage.                                       *)
THEOREM EnforceNeverAdvances ==
    ASSUME NEW s \in WorkingStates, Enforce(s).stage = "action"
    PROVE  s.stage = "action"
BY ActionIsNormalized, NormalizePicture

(* A decision of the action stage that holds a supported picture is left as *)
(* it is.                                                                   *)
THEOREM ActionIsFixed ==
    ASSUME NEW s \in WorkingStates, Enforce(s).stage = "action", Shared(Enforce(s))
    PROVE  Enforce(Enforce(s)) = Enforce(s)
<1> DEFINE n == Normalize(s)
<1>1. n \in WorkingStates /\ Enforce(s) = n
  BY NormalizeType, ActionIsNormalized
<1>2. Shared(n) /\ ~Revising(n) /\ "tested_understanding" \in n.basis \ n.unknowns
  BY <1>1, NormalizePicture DEF Revising
<1> HIDE DEF n
<1>3. /\ (n.basis \ {}) \cup {"tested_understanding"} = n.basis
      /\ (n.unknowns \cup {}) \ {"tested_understanding"} = n.unknowns
  BY <1>2
<1>4. Normalize(n) = [n EXCEPT !.understanding = n.understanding,
                               !.basis = n.basis, !.unknowns = n.unknowns]
  BY <1>2, <1>3 DEF Normalize, Shared
<1>5. Normalize(n) = n
  BY <1>1, <1>4 DEF WorkingStates
<1>6. Enforce(n) = Enforce(s)
  BY <1>5, Zenon DEF Enforce, n
<1> QED BY <1>1, <1>6

(* Away from the action stage, enforce neither offers support nor teaches   *)
(* unless that was proposed.                                                *)
THEOREM EnforceOffersWhatIsProposed ==
    ASSUME NEW s \in WorkingStates, s.stage # "action",
           Enforce(s).move \in {"support_choice", "teach_selectively"}
    PROVE  /\ Enforce(s).move = s.move
           /\ ~(/\ Blocking(Normalize(s), Normalize(s)) # {}
                /\ PracticalHelp(Normalize(s)) \/ PracticalMove(Normalize(s)))
<1> DEFINE n == Normalize(s)
           w == Redirect(n)
           v == Reconsider(w, n.unknowns)
           d == Enforce(s)
<1>1. n \in WorkingStates /\ w \in WorkingStates /\ v \in WorkingStates
  BY NormalizeType, RedirectType, ReconsiderType, Fields
<1>2. n.stage # "action" /\ n.move = s.move
  BY NormalizePicture
<1>3. w = n
  BY <1>2 DEF Redirect, ExecutionRefused
<1>4. SameClient(n, v) /\ n.basis \subseteq v.basis
  BY <1>1, <1>3, ReconsiderEffect
<1>5. ASSUME NEW x \in WorkingStates, NEW stage,
             NEW move \in (DiscoveryMoves \cup {"explore_options"}),
             NEW unknowns, NEW reason, NEW discarded
      PROVE  Downgrade(x, stage, move, unknowns, reason, discarded).move
               \notin {"support_choice", "teach_selectively"}
  BY DowngradeEffect DEF DiscoveryMoves
<1>6. HonorBoundary(n, w).move \notin {"support_choice", "teach_selectively"}
  BY <1>1, <1>5 DEF HonorBoundary, DiscoveryMoves
<1>7. Repair(n, v).move \in {"support_choice", "teach_selectively"} =>
        Repair(n, v).move = "teach_selectively" /\ n.move = "teach_selectively"
  <2>1. ASSUME NEW move, NEW unknowns
        PROVE  Reopen(v, move, unknowns).move = move
    BY <1>1, DowngradeEffect DEF Reopen
  <2>2. ReopenMove(n, v) # "support_choice"
    BY DEF ReopenMove, DiscoveryMoves
  <2>3. Repair(n, v).move # "support_choice"
    BY <1>1, <1>5, <2>1, <2>2 DEF Repair, DiscoveryMoves
  <2>4. Repair(n, v).move = "teach_selectively" => EarnedTeaching(n)
    BY <1>1, <1>4, RepairEffect
  <2> QED BY <2>3, <2>4 DEF EarnedTeaching
<1>8. v.move \in {"support_choice", "teach_selectively"} => v = n
  <2>1. CASE IsInvitation(w)
    BY <1>1, <1>5, <2>1 DEF Reconsider, DiscoveryMoves
  <2>2. CASE ~IsInvitation(w)
    BY <1>3, <2>2 DEF Reconsider
  <2> QED BY <2>1, <2>2
<1>9. Gate(n, v).move \in {"support_choice", "teach_selectively"} =>
        Gate(n, v) = v
  BY <1>1, <1>5 DEF Gate, DiscoveryMoves
<1>10. [w EXCEPT !.stage = "possibilities"].move = n.move
  BY <1>1, <1>3 DEF WorkingStates
<1>11. ASSUME NEW move \in {"explore_readiness", "shift_focus"}
       PROVE  Downgrade(n, "discovery", move, n.unknowns, "policy_downgrade", {}).move
                \notin {"support_choice", "teach_selectively"}
  BY <1>1, <1>5 DEF DiscoveryMoves
<1>12. d.move \in {"support_choice", "teach_selectively"}
  OBVIOUS
<1>13. /\ ~(Blocking(n, w) # {} /\ (PracticalHelp(n) \/ PracticalMove(n)))
       /\ \/ d = [w EXCEPT !.stage = "possibilities"]
          \/ d = Repair(n, v) \/ d = Gate(n, v)
  <2>1. d = (IF n.inquiry.pause
             THEN Downgrade(n, "discovery", "explore_readiness", n.unknowns,
                            "policy_downgrade", {})
             ELSE IF \E i \in Relevant(n) : n.actions[i].topicDeclined
             THEN Downgrade(n, "discovery", "shift_focus", n.unknowns,
                            "policy_downgrade", {})
             ELSE IF Blocking(n, w) # {} /\ (PracticalHelp(n) \/ PracticalMove(n))
             THEN HonorBoundary(n, w)
             ELSE IF InvitationGranted(w) THEN [w EXCEPT !.stage = "possibilities"]
             ELSE IF NeedsRepair(n, v) THEN Repair(n, v)
             ELSE Gate(n, v))
    BY DEF Enforce
  <2> HIDE DEF n, w, v, d
  <2> QED BY <1>6, <1>11, <1>12, <2>1
<1> HIDE DEF n, w, v, d
<1>14. d.move = n.move
  BY <1>7, <1>8, <1>9, <1>10, <1>12, <1>13
<1> QED BY <1>2, <1>3, <1>13, <1>14 DEF d, n

(* A refusal of the topic ends in discovery, whatever was proposed.         *)
THEOREM EnforceDropsTopics ==
    ASSUME NEW s \in WorkingStates, NEW i \in Relevant(s), s.actions[i].topicDeclined
    PROVE  /\ Enforce(s).stage = "discovery"
           /\ Enforce(s).move \in {"shift_focus", "explore_readiness"}
<1> DEFINE n == Normalize(s)
<1>1. n \in WorkingStates /\ n.actions = s.actions /\ n.target = s.target
  BY NormalizeType, NormalizePicture
<1>2. i \in Relevant(n) /\ n.actions[i].topicDeclined
  BY <1>1 DEF Relevant
<1>3. ASSUME NEW move
      PROVE  LET d == Downgrade(n, "discovery", move, n.unknowns, "policy_downgrade", {})
             IN  d.stage = "discovery" /\ d.move = move
  BY <1>1, DowngradeEffect
<1> QED BY <1>2, <1>3 DEF Enforce

-----------------------------------------------------------------------------
(* Types of the merge *)

(* _merge_action_context writes a record of the schema.                     *)
LEMMA RevisedType ==
    ASSUME NEW r \in ActionRecords, NEW u \in ActionUpdates
    PROVE  Revised(r, u) \in ActionRecords
<1>1. ASSUME NEW text \in Texts, NEW status \in Statuses \cup {"absent"},
             NEW readiness \in Readinesses, NEW scope \in BoundaryScopes,
             NEW prep \in BOOLEAN, NEW topic \in BOOLEAN
      PROVE  [r EXCEPT !.text = text, !.status = status, !.readiness = readiness,
                       !.scope = scope, !.prepDeclined = prep,
                       !.topicDeclined = topic] \in ActionRecords
  BY DEF ActionRecords
<1>2. /\ r.status \in Statuses \cup {"absent"} /\ r.readiness \in Readinesses
      /\ r.scope \in BoundaryScopes
      /\ r.prepDeclined \in BOOLEAN /\ r.topicDeclined \in BOOLEAN
  BY DEF ActionRecords
<1>3. /\ u.text \in Texts /\ u.status \in Statuses \cup {"null"}
      /\ u.readiness \in Readinesses \cup {"null"}
      /\ u.scope \in BoundaryScopes \cup {"null"}
  BY DEF ActionUpdates
<1> DEFINE own == u.scope \notin PermissionScopes
           states(scope) == u.scope = scope /\ u.readiness \notin {"null", "unknown"}
           status == IF u.status = "null" THEN r.status ELSE u.status
           readiness == IF own /\ u.readiness # "null" /\ ~Faded(r, u)
                        THEN u.readiness ELSE r.readiness
           scope == IF own /\ u.scope # "null" THEN u.scope ELSE r.scope
           prep == IF states("preparation")
                   THEN u.readiness \in NegativeReadiness ELSE r.prepDeclined
           topic == IF states("topic")
                    THEN u.readiness \in NegativeReadiness ELSE r.topicDeclined
<1>4. /\ status \in Statuses \cup {"absent"} /\ readiness \in Readinesses
      /\ scope \in BoundaryScopes
  BY <1>2, <1>3
<1>5. prep \in BOOLEAN /\ topic \in BOOLEAN
  <2>1. ASSUME NEW c \in BOOLEAN, NEW x \in BOOLEAN, NEW y \in BOOLEAN
        PROVE  (IF c THEN x ELSE y) \in BOOLEAN
    BY Zenon
  <2>2. (u.readiness \in NegativeReadiness) \in BOOLEAN
    OBVIOUS
  <2>3. states("preparation") \in BOOLEAN /\ states("topic") \in BOOLEAN
    BY Zenon
  <2> QED BY <1>2, <2>1, <2>2, <2>3, Zenon
<1>6. Revised(r, u) = [r EXCEPT !.text = u.text, !.status = status,
                                !.readiness = readiness, !.scope = scope,
                                !.prepDeclined = prep, !.topicDeclined = topic]
  BY Zenon DEF Revised
<1> HIDE DEF status, readiness, scope, prep, topic
<1>7. [r EXCEPT !.text = u.text, !.status = status, !.readiness = readiness,
                !.scope = scope, !.prepDeclined = prep, !.topicDeclined = topic]
        \in ActionRecords
  BY <1>1, <1>3, <1>4, <1>5, Zenon
<1> QED BY <1>6, <1>7, Zenon

(* A new record, before its update, is a record of the schema.              *)
LEMMA BlankType ==
    ASSUME NEW text \in Texts
    PROVE  Blank(text) \in ActionRecords
BY DEF Blank, ActionRecords, Statuses, Readinesses, BoundaryScopes

(* An update is about a known action or about none.                         *)
LEMMA AboutKnown ==
    ASSUME NEW d \in Drafts, NEW u \in ActionUpdates, NEW old \in About(d, u),
           KnownId(d, u), old # NoAction
    PROVE  old \in Recorded(d.actions)
BY DEF About, KnownId, SameText

(* An update leaves the draft a draft.                                     *)
LEMMA MergedType ==
    ASSUME NEW d \in Drafts, NEW u \in ActionUpdates, NEW e, Merged(d, u, e)
    PROVE  e \in Drafts
<1>1. ASSUME NEW id \in ActionIds
      PROVE  Touch(d, id, u) \in SUBSET (ActionIds \X (PermissionScopes \cup {"action"}))
  BY DEF Touch, ScopeOf, Drafts
<1>2. CASE Ignored(d, u) /\ e = d
  BY <1>2
<1>3. ASSUME NEW old \in About(d, u), Admissible(d, u, old), Retains(d, u, old),
             e = [d EXCEPT !.touched = Touch(d, old, u)]
      PROVE  e \in Drafts
  <2>1. old \in ActionIds
    BY <1>3, AboutKnown DEF Admissible, Retains, Recorded
  <2> QED BY <1>1, <1>3, <2>1 DEF Drafts
<1>4. ASSUME NEW old \in About(d, u) \ {NoAction}, Admissible(d, u, old),
             e = [d EXCEPT !.actions[old] = Revised(@, u), !.touched = Touch(d, old, u)]
      PROVE  e \in Drafts
  <2>1. old \in ActionIds
    BY <1>4, AboutKnown DEF Admissible, Recorded
  <2>2. Revised(d.actions[old], u) \in ActionRecords
    BY <2>1, RevisedType DEF Drafts
  <2> QED BY <1>1, <1>4, <2>1, <2>2 DEF Drafts
<1>5. ASSUME NEW id \in ActionIds \ Recorded(d.actions),
             e = [actions |-> [d.actions EXCEPT ![id] = Revised(Blank(u.text), u)],
                  touched |-> Touch(d, id, u), created |-> d.created \cup {id}]
      PROVE  e \in Drafts
  <2>1. Revised(Blank(u.text), u) \in ActionRecords
    BY RevisedType, BlankType DEF ActionUpdates
  <2> QED BY <1>1, <1>5, <2>1 DEF Drafts
<1> QED BY <1>2, <1>3, <1>4, <1>5 DEF Merged

-----------------------------------------------------------------------------
(* Types of the session *)

(* CoachingWorkingState() is a working state.                               *)
LEMMA DefaultType == DefaultState \in WorkingStates
<1>1. NoRecord \in ActionRecords
  <2>1. (CHOOSE t \in Texts : TRUE) \in Texts
    BY TextsAssumption
  <2> QED BY <2>1 DEF NoRecord, ActionRecords, Readinesses, BoundaryScopes
<1> QED BY <1>1 DEF DefaultState, WorkingStates, Stages, Moves, DiscoveryMoves,
                 Responses, Generations, Usefulness, Inquiries, NoInquiry,
                 RequestedSupports, Understandings, Progresses, NoProgress,
                 Supports, NoSupport

(* What save_conversation_turn keeps is a durable state.                    *)
LEMMA DurableType ==
    ASSUME NEW s \in WorkingStates
    PROVE  Durable(s) \in DurableStates
BY DEF Durable, DurableStates, WorkingStates

(* The merge starts from a draft.                                           *)
LEMMA FreshDraftType ==
    ASSUME NEW actions \in [ActionIds -> ActionRecords]
    PROVE  FreshDraft(actions) \in Drafts
BY DEF FreshDraft, Drafts

(* A withdrawn picture is a tag of the schema.                              *)
LEMMA WithdrawType ==
    ASSUME NEW understanding \in Understandings
    PROVE  Withdraw(understanding) \in Understandings
BY DEF Withdraw, Understandings

(* update_working_state returns a working state.                            *)
LEMMA ExtractedType ==
    ASSUME NEW s \in DurableStates, NEW actions \in [ActionIds -> ActionRecords],
           NEW evidence \in BOOLEAN
    PROVE  Extracted(s, actions, evidence) \in WorkingStates
BY DefaultType DEF Extracted, WorkingStates, DurableStates

(* The fallback starts from the saved state or from the extracted one.     *)
LEMMA ConservativeType ==
    ASSUME NEW s \in DurableStates \cup WorkingStates, NEW last \in Moves \cup {"none"}
    PROVE  Conservative(s, last) \in WorkingStates
<1>1. /\ s.generation \in Generations /\ s.evidence \in BOOLEAN
      /\ s.actions \in [ActionIds -> ActionRecords]
      /\ Withdraw(s.understanding) \in Understandings
  BY WithdrawType DEF DurableStates, WorkingStates
<1>2. {"tested_understanding", "desired_help"} \in SUBSET Unknowns
  BY DEF Unknowns
<1>3. ASSUME NEW generation \in Generations, NEW evidence \in BOOLEAN,
             NEW actions \in [ActionIds -> ActionRecords],
             NEW unknowns \in SUBSET Unknowns, NEW understanding \in Understandings
      PROVE  [DefaultState EXCEPT !.last = last, !.generation = generation,
                !.evidence = evidence, !.actions = actions, !.unknowns = unknowns,
                !.understanding = understanding] \in WorkingStates
  BY DefaultType DEF WorkingStates
<1> QED BY <1>1, <1>2, <1>3 DEF Conservative

(* assess_turn returns a working state for any assessment.                  *)
LEMMA AssessedType ==
    ASSUME TypeOK, NEW a \in TurnAssessments
    PROVE  Assessed(a) \in WorkingStates
<1>1. ASSUME NEW picture \in Understandings, NEW tested \in SUBSET {"tested_understanding"},
             NEW response \in Responses, NEW usefulness \in Usefulness,
             NEW inquiry \in Inquiries
      PROVE  [work EXCEPT
                !.stage = a.stage, !.move = a.move, !.generation = a.generation,
                !.unknowns = a.unknowns, !.basis = a.basis \cup tested,
                !.response = response, !.usefulness = usefulness, !.inquiry = inquiry,
                !.requested = a.requested, !.target = a.target,
                !.understanding = picture,
                !.progress = a.progress, !.support = a.support] \in WorkingStates
  BY DEF TypeOK, WorkingStates, TurnAssessments, Bases
<1>2. /\ "supported" \in Understandings /\ Withdraw(ws.understanding) \in Understandings
      /\ ws.understanding \in Understandings
  BY WithdrawType DEF TypeOK, DurableStates, Understandings
<1>3. /\ "not_applicable" \in Responses /\ "none" \in Usefulness /\ NoInquiry \in Inquiries
      /\ a.response \in Responses /\ a.usefulness \in Usefulness /\ a.inquiry \in Inquiries
  BY DEF Responses, Usefulness, NoInquiry, Inquiries, TurnAssessments
<1> DEFINE picture == CASE a.progress.effect = "establish" -> "supported"
                        [] a.progress.effect = "revise" -> Withdraw(ws.understanding)
                        [] OTHER -> ws.understanding
           tested == IF picture = "supported" THEN {"tested_understanding"} ELSE {}
           response == IF heard THEN a.response ELSE "not_applicable"
           usefulness == IF heard THEN a.usefulness ELSE "none"
           inquiry == IF heard THEN a.inquiry ELSE NoInquiry
           result == [work EXCEPT
                !.stage = a.stage, !.move = a.move, !.generation = a.generation,
                !.unknowns = a.unknowns, !.basis = a.basis \cup tested,
                !.response = response, !.usefulness = usefulness, !.inquiry = inquiry,
                !.requested = a.requested, !.target = a.target,
                !.understanding = picture,
                !.progress = a.progress, !.support = a.support]
<1>4. /\ picture \in Understandings /\ tested \in SUBSET {"tested_understanding"}
      /\ response \in Responses /\ usefulness \in Usefulness /\ inquiry \in Inquiries
  BY <1>2, <1>3
<1>5. Assessed(a) = result
  BY Zenon DEF Assessed
<1>6. result \in WorkingStates
  <2> HIDE DEF picture, tested, response, usefulness, inquiry
  <2> QED BY <1>1, <1>4
<1> QED BY <1>5, <1>6, Zenon

(* A new conversation is well typed.                                        *)
LEMMA InitType == Init => TypeOK
BY DefaultType, DurableType, FreshDraftType
   DEF Init, TypeOK, Phases, DurableStates

(* Ending a turn clears what it had gathered.                              *)
LEMMA FallBackType ==
    ASSUME TypeOK, NEW s \in WorkingStates, FallBack(s)
    PROVE  TypeOK'
BY FreshDraftType DEF FallBack, TypeOK, Phases, DurableStates

(* Every step of a turn keeps the types.                                    *)
LEMMA NextType ==
    ASSUME TypeOK, [Next]_vars
    PROVE  TypeOK'
<1> USE DEF Phases
<1>0. /\ ws.actions \in [ActionIds -> ActionRecords] /\ ws.move \in Moves \cup {"none"}
      /\ work.last \in Moves \cup {"none"} /\ FreshDraft(ws.actions) \in Drafts
  BY FreshDraftType DEF TypeOK, DurableStates, WorkingStates
<1>1. CASE BeginTurn
  BY <1>0, <1>1 DEF BeginTurn, TypeOK
<1>2. ASSUME NEW u \in Updates, ApplyUpdate(u)
      PROVE  TypeOK'
  BY <1>2, MergedType, UpdatesAssumption DEF ApplyUpdate, TypeOK
<1>3. ASSUME NEW evidence \in BOOLEAN, FinishExtraction(evidence)
      PROVE  TypeOK'
  <2>1. draft.actions \in [ActionIds -> ActionRecords]
    BY DEF TypeOK, Drafts
  <2> QED BY <1>0, <1>3, <2>1, ExtractedType DEF FinishExtraction, TypeOK
<1>4. CASE ExtractionUnusable
  BY <1>0, <1>4, FallBackType, ConservativeType DEF ExtractionUnusable, TypeOK
<1>5. CASE ExtractionError
  BY <1>0, <1>5, FallBackType, ConservativeType DEF ExtractionError, TypeOK
<1>6. ASSUME NEW a \in Assessments, Assess(a)
      PROVE  TypeOK'
  BY <1>6, AssessedType, AssessmentsAssumption DEF Assess, TypeOK
<1>7. CASE AssessmentUnusable
  BY <1>0, <1>7, FallBackType, ConservativeType DEF AssessmentUnusable, TypeOK
<1>8. CASE AssessmentError
  BY <1>0, <1>8, FallBackType, ConservativeType DEF AssessmentError, TypeOK
<1>9. CASE Decide
  BY <1>9, EnforceType DEF Decide, TypeOK
<1>10. CASE SaveTurn
  <2>1. ws' \in DurableStates
    BY <1>10, DurableType DEF SaveTurn, TypeOK
  <2>2. FreshDraft(ws'.actions) \in Drafts
    BY <2>1, FreshDraftType DEF DurableStates
  <2> QED BY <1>10, <2>1, <2>2, DefaultType DEF SaveTurn, TypeOK
<1>11. CASE LoseTurn
  BY <1>0, <1>11, DefaultType DEF LoseTurn, TypeOK
<1>12. CASE UNCHANGED vars
  BY <1>12 DEF vars, TypeOK
<1> QED BY <1>1, <1>2, <1>3, <1>4, <1>5, <1>6, <1>7, <1>8, <1>9, <1>10, <1>11,
           <1>12 DEF Next

(* Every variable keeps its type, whatever the models return.              *)
THEOREM TypeCorrect == Spec => []TypeOK
BY InitType, NextType, PTL DEF Spec

-----------------------------------------------------------------------------
(* The decision *)

(* What the rules are given: only a turn that judged progress proposes the *)
(* action stage, and tested understanding comes with a supported picture.  *)
ProposalIsBacked ==
    phase = "proposed" =>
        /\ work.stage = "action" => HasProgress(work)
        /\ "tested_understanding" \in work.basis => Shared(work)

(* The turn carries the move of the saved one to the rules that read it.   *)
LastIsPrevious ==
    phase \in {"assessing", "proposed", "decided"} => work.last = ws.move

DecisionInv ==
    TypeOK /\ ProposalIsBacked /\ LastIsPrevious /\ ActionIsEarned /\ TeachingIsEarned

(* A new conversation has decided nothing.                                  *)
LEMMA InitDecision == Init => DecisionInv
BY InitType DEF Init, DecisionInv, ProposalIsBacked, LastIsPrevious,
                ActionIsEarned, TeachingIsEarned, Decided

(* The fallback proposes nothing that would have to be earned.              *)
LEMMA ConservativeIsBacked ==
    ASSUME NEW s \in DurableStates \cup WorkingStates, NEW last \in Moves \cup {"none"}
    PROVE  LET d == Conservative(s, last)
           IN  d.stage = "discovery" /\ d.basis = {} /\ d.last = last
BY DEF Conservative, DefaultState

(* A turn that falls back keeps the invariant of decisions.                 *)
LEMMA FallBackDecision ==
    ASSUME NEW s \in DurableStates \cup WorkingStates,
           FallBack(Conservative(s, ws.move)), ws.move \in Moves \cup {"none"}
    PROVE  (ProposalIsBacked /\ LastIsPrevious /\ ActionIsEarned /\ TeachingIsEarned)'
BY ConservativeIsBacked
   DEF FallBack, ProposalIsBacked, LastIsPrevious, ActionIsEarned, TeachingIsEarned, Decided

(* A valid assessment keeps the invariant of decisions.                     *)
LEMMA AssessDecision ==
    ASSUME DecisionInv, NEW a \in Assessments, Assess(a)
    PROVE  ProposalIsBacked' /\ LastIsPrevious'
<1>1. work \in WorkingStates /\ a \in TurnAssessments
  BY AssessmentsAssumption DEF DecisionInv, TypeOK
<1>2. "tested_understanding" \notin a.basis
  BY <1>1 DEF TurnAssessments
<1>3. /\ Assessed(a).stage = a.stage
      /\ Assessed(a).progress = a.progress
      /\ Assessed(a).last = work.last
  BY <1>1 DEF Assessed, WorkingStates
<1>4. "tested_understanding" \in Assessed(a).basis => Shared(Assessed(a))
  BY <1>1, <1>2 DEF Assessed, WorkingStates, Shared
<1>5. a.stage = "action" => HasProgress(a)
  BY DEF Assess, Valid
<1> QED BY <1>3, <1>4, <1>5 DEF Assess, ProposalIsBacked, LastIsPrevious, DecisionInv,
                               HasProgress

(* Every step of a turn keeps the invariant of decisions.                   *)
LEMMA NextDecision ==
    ASSUME DecisionInv, [Next]_vars
    PROVE  DecisionInv'
<1> USE DEF DecisionInv
<1>0. TypeOK'
  BY NextType
<1>1. ws \in DurableStates /\ work \in WorkingStates /\ ws.move \in Moves \cup {"none"}
  BY DEF TypeOK, DurableStates
<1> DEFINE Rest == ProposalIsBacked /\ LastIsPrevious /\ ActionIsEarned /\ TeachingIsEarned
<1>2. CASE BeginTurn \/ LoseTurn \/ SaveTurn
  BY <1>0, <1>2 DEF BeginTurn, LoseTurn, SaveTurn, ProposalIsBacked, LastIsPrevious,
              ActionIsEarned, TeachingIsEarned, Decided
<1>3. ASSUME NEW u \in Updates, ApplyUpdate(u)
      PROVE  Rest'
  BY <1>3 DEF ApplyUpdate, ProposalIsBacked, LastIsPrevious,
              ActionIsEarned, TeachingIsEarned, Decided
<1>4. ASSUME NEW evidence \in BOOLEAN, FinishExtraction(evidence)
      PROVE  Rest'
  BY <1>4 DEF FinishExtraction, Extracted, DefaultState, ProposalIsBacked,
              LastIsPrevious, ActionIsEarned, TeachingIsEarned, Decided
<1>5. CASE ExtractionUnusable
  <2>1. CASE attempt = 1
    BY <1>0, <1>5, <2>1 DEF ExtractionUnusable, ProposalIsBacked, LastIsPrevious,
                            ActionIsEarned, TeachingIsEarned, Decided
  <2>2. CASE FallBack(Conservative(ws, ws.move))
    BY <1>0, <1>1, <2>2, FallBackDecision
  <2> QED BY <1>5, <2>1, <2>2 DEF ExtractionUnusable
<1>6. CASE ExtractionError
  BY <1>0, <1>1, <1>6, FallBackDecision DEF ExtractionError
<1>7. ASSUME NEW a \in Assessments, Assess(a)
      PROVE  Rest'
  <2>1. ProposalIsBacked' /\ LastIsPrevious'
    BY <1>7, AssessDecision
  <2> QED BY <1>7, <2>1 DEF Assess, ActionIsEarned, TeachingIsEarned, Decided
<1>8. CASE AssessmentUnusable
  <2>1. CASE attempt = 1
    BY <1>0, <1>8, <2>1 DEF AssessmentUnusable, ProposalIsBacked, LastIsPrevious,
                            ActionIsEarned, TeachingIsEarned, Decided
  <2>2. CASE FallBack(Conservative(work, work.last))
    BY <1>0, <1>1, <1>8, <2>2, FallBackDecision DEF AssessmentUnusable, LastIsPrevious
  <2> QED BY <1>8, <2>1, <2>2 DEF AssessmentUnusable
<1>9. CASE AssessmentError
  BY <1>0, <1>1, <1>9, FallBackDecision DEF AssessmentError, LastIsPrevious
<1>10. CASE Decide
  <2>1. ActionIsEarned'
    BY <1>1, <1>10, EnforceAction DEF Decide, ActionIsEarned, ProposalIsBacked
  <2>2. TeachingIsEarned'
    BY <1>1, <1>10, EnforceTeaching, EnforceKeeps
       DEF Decide, TeachingIsEarned, LastIsPrevious
  <2>3. LastIsPrevious' /\ ProposalIsBacked'
    BY <1>1, <1>10, EnforceKeeps DEF Decide, LastIsPrevious, ProposalIsBacked
  <2> QED BY <1>0, <2>1, <2>2, <2>3
<1>11. CASE UNCHANGED vars
  BY <1>0, <1>11
     DEF vars, ProposalIsBacked, LastIsPrevious, ActionIsEarned, TeachingIsEarned,
         Decided
<1> QED BY <1>0, <1>2, <1>3, <1>4, <1>5, <1>6, <1>7, <1>8, <1>9, <1>10, <1>11 DEF Next

(* The invariant of decisions holds in every reachable state.               *)
LEMMA DecisionInvariant == Spec => []DecisionInv
BY InitDecision, NextDecision, PTL DEF Spec

(* No conversation ever decides on the action stage without what it rests  *)
(* on.                                                                     *)
THEOREM ActionAlwaysEarned == Spec => []ActionIsEarned
<1>1. DecisionInv => ActionIsEarned
  BY DEF DecisionInv
<1> QED BY <1>1, DecisionInvariant, PTL

(* No conversation ever decides to teach without an observed gap.          *)
THEOREM TeachingAlwaysEarned == Spec => []TeachingIsEarned
<1>1. DecisionInv => TeachingIsEarned
  BY DEF DecisionInv
<1> QED BY <1>1, DecisionInvariant, PTL

(* No two saved turns in a row teach.                                      *)
THEOREM TeachingNeverRepeats == Spec => NoTeachingTwice
<1>1. ASSUME DecisionInv, SaveTurn
      PROVE  ~(ws.move = "teach_selectively" /\ ws'.move = "teach_selectively")
  BY <1>1 DEF DecisionInv, SaveTurn, LastIsPrevious, TeachingIsEarned, Decided, Durable
<1>2. DecisionInv /\ [Next]_vars =>
        [SaveTurn => ~(ws.move = "teach_selectively"
                       /\ ws'.move = "teach_selectively")]_vars
  BY <1>1
<1> QED BY <1>2, DecisionInvariant, PTL DEF Spec, NoTeachingTwice

-----------------------------------------------------------------------------
(* Refusals *)

(* x keeps every record of the saved state, and its refusal or a readiness *)
(* in its place.                                                           *)
Keeps(x, i) ==
    /\ i \in Recorded(x)
    /\ ws.actions[i].readiness \in NegativeReadiness =>
         x[i].readiness \in NegativeReadiness \cup {"ready"}

(* While updates are merged, a record not yet touched as an action still   *)
(* has the readiness it was saved with: this is what keeps a refusal that  *)
(* a first update turned into readiness from fading with a second one.     *)
DraftKeeps ==
    \A i \in Recorded(ws.actions) :
        /\ Keeps(draft.actions, i)
        /\ <<i, "action">> \notin draft.touched =>
             draft.actions[i].readiness = ws.actions[i].readiness

WorkKeeps ==
    phase \in {"assessing", "proposed", "decided"} =>
        \A i \in Recorded(ws.actions) : Keeps(work.actions, i)

RefusalInv == TypeOK /\ DraftKeeps /\ WorkKeeps

(* What one update does to one record.                                     *)
LEMMA RevisedKeeps ==
    ASSUME NEW r \in ActionRecords, NEW u \in ActionUpdates
    PROVE  LET q == Revised(r, u)
           IN  /\ r.status # "absent" => q.status # "absent"
               /\ ScopeOf(u) # "action" => q.readiness = r.readiness
               /\ r.readiness \in NegativeReadiness =>
                    q.readiness \in NegativeReadiness \cup {"ready"}
<1> DEFINE q == Revised(r, u)
<1>1. q.status = IF u.status = "null" THEN r.status ELSE u.status
  BY DEF Revised, Faded, ActionRecords
<1>2. q.readiness =
        IF /\ u.scope \notin PermissionScopes
           /\ u.readiness # "null"
           /\ ~(u.readiness = "unknown" /\ r.readiness \in NegativeReadiness)
        THEN u.readiness ELSE r.readiness
  BY DEF Revised, Faded, ActionRecords
<1>3. u.status \in Statuses \cup {"null"} /\ u.readiness \in Readinesses \cup {"null"}
  BY DEF ActionUpdates
<1> QED BY <1>1, <1>2, <1>3 DEF ScopeOf, Statuses, Readinesses, NegativeReadiness

(* One update of _merge_action_context keeps every saved refusal.           *)
LEMMA MergedKeeps ==
    ASSUME TypeOK, DraftKeeps, NEW u \in ActionUpdates, NEW e \in Drafts,
           Merged(draft, u, e), NEW i \in Recorded(ws.actions)
    PROVE  /\ Keeps(e.actions, i)
           /\ <<i, "action">> \notin e.touched =>
                e.actions[i].readiness = ws.actions[i].readiness
<1>1. /\ draft \in Drafts /\ i \in ActionIds /\ i \in Recorded(draft.actions)
      /\ draft.actions[i] \in ActionRecords
  BY DEF TypeOK, DraftKeeps, Keeps, Recorded, Drafts
<1>2. CASE e.actions = draft.actions /\ draft.touched \subseteq e.touched
  BY <1>2 DEF DraftKeeps, Keeps
<1>3. CASE Ignored(draft, u) /\ e = draft
  BY <1>2, <1>3
<1>4. ASSUME NEW old \in About(draft, u),
             e = [draft EXCEPT !.touched = Touch(draft, old, u)]
      PROVE  e.actions = draft.actions /\ draft.touched \subseteq e.touched
  BY <1>1, <1>4 DEF Touch, Drafts
<1>5. ASSUME NEW old \in About(draft, u) \ {NoAction}, Admissible(draft, u, old),
             e = [draft EXCEPT !.actions[old] = Revised(@, u),
                               !.touched = Touch(draft, old, u)]
      PROVE  /\ Keeps(e.actions, i)
             /\ <<i, "action">> \notin e.touched =>
                  e.actions[i].readiness = ws.actions[i].readiness
  <2>1. /\ old \in ActionIds
        /\ e.actions = [draft.actions EXCEPT ![old] = Revised(draft.actions[old], u)]
        /\ e.touched = draft.touched \cup {<<old, ScopeOf(u)>>}
        /\ draft.actions \in [ActionIds -> ActionRecords]
    BY <1>1, <1>5, AboutKnown DEF Admissible, Recorded, Touch, Drafts
  <2>2. CASE i # old
    BY <1>1, <2>1, <2>2 DEF DraftKeeps, Keeps, Recorded
  <2>3. CASE i = old
    <3>1. e.actions[i] = Revised(draft.actions[i], u)
      BY <2>1, <2>3
    <3>2. e.actions[i].status # "absent"
      BY <1>1, <3>1, RevisedKeeps DEF Recorded
    <3>3. ws.actions[i].readiness \in NegativeReadiness =>
            e.actions[i].readiness \in NegativeReadiness \cup {"ready"}
      <4>1. CASE ScopeOf(u) = "action"
        \* not touched before: the readiness is still the saved one
        <5>1. draft.actions[i].readiness = ws.actions[i].readiness
          BY <1>5, <2>3, <4>1 DEF Admissible, DraftKeeps
        <5> QED BY <1>1, <3>1, <5>1, RevisedKeeps
      <4>2. CASE ScopeOf(u) # "action"
        <5>1. e.actions[i].readiness = draft.actions[i].readiness
          BY <1>1, <3>1, <4>2, RevisedKeeps
        <5> QED BY <5>1 DEF DraftKeeps, Keeps
      <4> QED BY <4>1, <4>2
    <3>4. <<i, "action">> \notin e.touched =>
            e.actions[i].readiness = ws.actions[i].readiness
      <4>1. ASSUME <<i, "action">> \notin e.touched
            PROVE  /\ ScopeOf(u) # "action"
                   /\ <<i, "action">> \notin draft.touched
        BY <2>1, <2>3, <4>1
      <4> QED BY <1>1, <3>1, <4>1, RevisedKeeps DEF DraftKeeps
    <3> QED BY <1>1, <3>2, <3>3, <3>4 DEF Keeps, Recorded
  <2> QED BY <2>2, <2>3
<1>6. ASSUME NEW id \in ActionIds \ Recorded(draft.actions),
             e = [actions |-> [draft.actions EXCEPT ![id] = Revised(Blank(u.text), u)],
                  touched |-> Touch(draft, id, u), created |-> draft.created \cup {id}]
      PROVE  /\ Keeps(e.actions, i)
             /\ <<i, "action">> \notin e.touched =>
                  e.actions[i].readiness = ws.actions[i].readiness
  <2>1. i # id /\ e.actions[i] = draft.actions[i] /\ draft.touched \subseteq e.touched
    BY <1>1, <1>6 DEF Drafts, Touch
  <2> QED BY <1>1, <2>1 DEF DraftKeeps, Keeps, Recorded
<1> QED BY <1>2, <1>3, <1>4, <1>5, <1>6 DEF Merged

(* A turn that falls back keeps every saved refusal.                        *)
LEMMA FallBackKeeps ==
    ASSUME NEW s, FallBack(s),
           \A i \in Recorded(ws.actions) : Keeps(s.actions, i)
    PROVE  DraftKeeps' /\ WorkKeeps'
<1>1. /\ work' = s /\ phase' = "proposed" /\ ws' = ws
      /\ draft' = FreshDraft(ws.actions)
  BY DEF FallBack
<1>2. DraftKeeps'
  BY <1>1 DEF DraftKeeps, Keeps, FreshDraft
<1>3. WorkKeeps'
  BY <1>1 DEF WorkKeeps, Keeps
<1> QED BY <1>2, <1>3

(* Every step of a turn carries the saved refusals along.                   *)
LEMMA NextKeeps ==
    ASSUME RefusalInv, [Next]_vars
    PROVE  RefusalInv'
<1> USE DEF RefusalInv
<1>0. TypeOK'
  BY NextType
<1>1. work \in WorkingStates /\ Recorded(ws.actions) \subseteq ActionIds
  BY DEF TypeOK, Recorded
<1>2. \A i \in Recorded(ws.actions) : Keeps(ws.actions, i)
  BY DEF Keeps
<1>3. CASE BeginTurn \/ LoseTurn
  <2>1. /\ ws' = ws /\ draft' = FreshDraft(ws.actions)
        /\ phase' \in {"extracting", "idle"}
    BY <1>3 DEF BeginTurn, LoseTurn
  <2> QED BY <1>0, <2>1 DEF DraftKeeps, WorkKeeps, Keeps, FreshDraft
<1>4. ASSUME NEW u \in Updates, ApplyUpdate(u)
      PROVE  RefusalInv'
  <2>1. /\ Merged(draft, u, draft') /\ u \in ActionUpdates /\ draft' \in Drafts
        /\ ws' = ws /\ work' = work /\ phase' = phase
    BY <1>0, <1>4, UpdatesAssumption DEF ApplyUpdate, TypeOK
  <2>2. DraftKeeps'
    BY <2>1, MergedKeeps DEF DraftKeeps, Keeps
  <2>3. WorkKeeps'
    BY <2>1 DEF WorkKeeps, Keeps
  <2> QED BY <1>0, <2>2, <2>3
<1>5. ASSUME NEW evidence \in BOOLEAN, FinishExtraction(evidence)
      PROVE  RefusalInv'
  <2>1. /\ ws' = ws /\ draft' = FreshDraft(ws.actions)
        /\ work'.actions = draft.actions
    BY <1>5 DEF FinishExtraction, Extracted, DefaultState
  <2> QED BY <1>0, <2>1 DEF DraftKeeps, WorkKeeps, Keeps, FreshDraft
<1>6. ASSUME ExtractionUnusable \/ ExtractionError
      PROVE  RefusalInv'
  <2>1. CASE FallBack(Conservative(ws, ws.move))
    <3>1. Conservative(ws, ws.move).actions = ws.actions
      BY DEF Conservative, DefaultState
    <3> QED BY <1>0, <1>2, <2>1, <3>1, FallBackKeeps DEF Keeps
  <2>2. CASE attempt = 1 /\ ExtractionUnusable
    <3>1. ws' = ws /\ draft' = FreshDraft(ws.actions) /\ phase' = "extracting"
      BY <2>2 DEF ExtractionUnusable
    <3> QED BY <1>0, <3>1 DEF DraftKeeps, WorkKeeps, Keeps, FreshDraft
  <2> QED BY <1>6, <2>1, <2>2 DEF ExtractionUnusable, ExtractionError
<1>7. ASSUME NEW a \in Assessments, Assess(a)
      PROVE  RefusalInv'
  <2>1. Assessed(a).actions = work.actions
    BY <1>1 DEF Assessed, WorkingStates
  <2>2. ws' = ws /\ draft' = draft /\ work'.actions = work.actions /\ phase = "assessing"
    BY <1>7, <2>1 DEF Assess
  <2> QED BY <1>0, <2>2 DEF DraftKeeps, WorkKeeps, Keeps
<1>8. ASSUME AssessmentUnusable \/ AssessmentError
      PROVE  RefusalInv'
  <2>1. CASE FallBack(Conservative(work, work.last))
    <3>1. Conservative(work, work.last).actions = work.actions
      BY DEF Conservative, DefaultState
    <3>2. \A i \in Recorded(ws.actions) : Keeps(work.actions, i)
      BY <1>8 DEF AssessmentUnusable, AssessmentError, WorkKeeps
    <3> QED BY <1>0, <2>1, <3>1, <3>2, FallBackKeeps DEF Keeps
  <2>2. CASE UNCHANGED <<ws, started, phase, heard, draft, work>>
    BY <1>0, <2>2 DEF DraftKeeps, WorkKeeps, Keeps
  <2> QED BY <1>8, <2>1, <2>2 DEF AssessmentUnusable, AssessmentError
<1>9. CASE Decide
  <2>1. ws' = ws /\ draft' = draft /\ work'.actions = work.actions /\ phase = "proposed"
    BY <1>1, <1>9, EnforceKeeps DEF Decide
  <2> QED BY <1>0, <2>1 DEF DraftKeeps, WorkKeeps, Keeps
<1>10. CASE SaveTurn
  <2>1. draft' = FreshDraft(ws'.actions) /\ phase' = "idle"
    BY <1>10 DEF SaveTurn
  <2> QED BY <1>0, <2>1 DEF DraftKeeps, WorkKeeps, Keeps, FreshDraft
<1>11. CASE UNCHANGED vars
  BY <1>0, <1>11 DEF vars, DraftKeeps, WorkKeeps, Keeps
<1> QED BY <1>3, <1>4, <1>5, <1>6, <1>7, <1>8, <1>9, <1>10, <1>11 DEF Next

(* Every refusal saved is on its way through the turn.                     *)
LEMMA RefusalInvariant == Spec => []RefusalInv
<1>1. Init => RefusalInv
  BY InitType DEF Init, RefusalInv, DraftKeeps, WorkKeeps, Keeps, FreshDraft
<1> QED BY <1>1, NextKeeps, PTL DEF Spec

(* A saved refusal survives every turn, retry and fallback unless the      *)
(* client becomes ready, and no action record is lost.                     *)
THEOREM RefusalsAlwaysSurvive == Spec => RefusalsSurvive
<1>1. RefusalInv /\ [Next]_vars =>
        [\A i \in Recorded(ws.actions) :
           /\ i \in Recorded(ws'.actions)
           /\ ws.actions[i].readiness \in NegativeReadiness =>
                ws'.actions[i].readiness \in NegativeReadiness \cup {"ready"}]_vars
  <2>1. ASSUME RefusalInv, SaveTurn, NEW i \in Recorded(ws.actions)
        PROVE  /\ i \in Recorded(ws'.actions)
               /\ ws.actions[i].readiness \in NegativeReadiness =>
                    ws'.actions[i].readiness \in NegativeReadiness \cup {"ready"}
    BY <2>1 DEF RefusalInv, SaveTurn, WorkKeeps, Keeps, Durable
  <2>2. ASSUME Next, ~SaveTurn
        PROVE  ws' = ws
    BY <2>2 DEF Next, BeginTurn, ApplyUpdate, FinishExtraction, ExtractionUnusable,
                ExtractionError, Assess, AssessmentUnusable, AssessmentError, FallBack,
                Decide, LoseTurn
  <2> QED BY <2>1, <2>2 DEF RefusalInv, vars
<1> QED BY <1>1, RefusalInvariant, PTL DEF Spec, RefusalsSurvive

-----------------------------------------------------------------------------
(* The picture, and the second enforcement *)

(* Enforcing the decision again claims no tested understanding it did not.  *)
TestedOnce ==
    Decided /\ "tested_understanding" \in Guidance.basis =>
        "tested_understanding" \in work.basis

GuidanceInv ==
    PictureAndBasisAgree /\ GuidanceNeverWidens /\ BoundariesBind /\ TestedOnce

(* Any state decided by enforce from a proposal that is backed is one the   *)
(* guidance invariant speaks of.                                            *)
LEMMA DecideGuidance ==
    ASSUME DecisionInv, Decide
    PROVE  GuidanceInv'
<1> DEFINE e == Enforce(work)
           g == Enforce(e)
           n == Normalize(e)
<1>1. /\ phase = "proposed" /\ work \in WorkingStates
      /\ work.stage = "action" => HasProgress(work)
      /\ "tested_understanding" \in work.basis => Shared(work)
      /\ work' = e /\ phase' = "decided"
  BY DEF DecisionInv, TypeOK, Decide, ProposalIsBacked
<1>2. e \in WorkingStates /\ g \in WorkingStates /\ n \in WorkingStates
  BY <1>1, EnforceType, NormalizeType
<1>3. /\ Shared(e) => "tested_understanding" \in e.basis \ e.unknowns
      /\ HasProgress(e) /\ "tested_understanding" \in e.basis => Shared(e)
  BY <1>1, SharedIsTested, TestedIsShared
<1>4. "tested_understanding" \in g.basis => "tested_understanding" \in e.basis
  BY <1>1, EnforceTestsOnce
<1>5. IF e.stage = "action" THEN g = e
      ELSE /\ g.stage # "action"
           /\ g.move \in {"support_choice", "teach_selectively"} => g.move = e.move
  <2>1. CASE e.stage = "action"
    BY <1>1, <2>1, EnforceAction, ActionIsFixed
  <2>2. CASE e.stage # "action"
    BY <1>2, <2>2, EnforceNeverAdvances, EnforceOffersWhatIsProposed
  <2> QED BY <2>1, <2>2
<1>6. (\E i \in Relevant(e) : e.actions[i].topicDeclined) =>
        g.stage = "discovery" /\ g.move \in {"shift_focus", "explore_readiness"}
  BY <1>2, EnforceDropsTopics
<1>7. ASSUME PracticalMove(g)
      PROVE  Blocking(g, g) = {}
  <2>1. CASE e.stage = "action"
    <3>1. g = e /\ ~\E i \in Relevant(e) : Refused(e, i)
      BY <1>1, <1>5, <2>1, EnforceAction
    <3> QED BY <3>1 DEF Blocking
  <2>2. CASE e.stage # "action"
    <3>1. g.stage # "action" /\ g.move \in {"support_choice", "teach_selectively"}
      BY <1>5, <1>7, <2>2 DEF PracticalMove
    <3>2. g.move = e.move /\ ~(Blocking(n, n) # {} /\ (PracticalHelp(n) \/ PracticalMove(n)))
      BY <1>2, <2>2, <3>1, EnforceOffersWhatIsProposed
    <3>3. n.stage # "action" /\ n.move = e.move
      BY <1>2, <2>2, NormalizePicture
    <3>4. SameClient(n, g)
      BY <1>2, EnforceKeepsPicture DEF KeepsPicture
    <3> HIDE DEF n, g, e
    <3>5. PracticalMove(n)
      BY <1>7, <3>1, <3>2, <3>3, <3>4 DEF PracticalMove, ExecutionRefused, SameClient
    <3>6. Blocking(g, g) = Blocking(n, n)
      BY <3>1, <3>3, <3>4 DEF Blocking, Relevant, Refused, Excused, SameClient,
         PreparationRequested, NonexecutingSupport, PracticalHelp, Shared
    <3> QED BY <3>2, <3>5, <3>6
  <2> QED BY <2>1, <2>2
<1>8. PictureAndBasisAgree'
  BY <1>1, <1>3 DEF PictureAndBasisAgree, Decided
<1>9. GuidanceNeverWidens'
  BY <1>1, <1>5 DEF GuidanceNeverWidens, Guidance
<1>10. BoundariesBind'
  BY <1>1, <1>6, <1>7 DEF BoundariesBind, Guidance
<1>11. TestedOnce'
  BY <1>1, <1>4 DEF TestedOnce, Guidance
<1> QED BY <1>8, <1>9, <1>10, <1>11 DEF GuidanceInv

(* No other step ends in a decided turn.                                    *)
LEMMA OthersDecideNothing ==
    ASSUME Next, ~Decide
    PROVE  ~Decided'
BY DEF Next, BeginTurn, ApplyUpdate, FinishExtraction, ExtractionUnusable,
       ExtractionError, Assess, AssessmentUnusable, AssessmentError, SaveTurn,
       LoseTurn, FallBack, Decided

(* Every step of a turn keeps the invariant of the guidance.                *)
LEMMA NextGuidance ==
    ASSUME DecisionInv, GuidanceInv, [Next]_vars
    PROVE  GuidanceInv'
<1>1. CASE Decide
  BY <1>1, DecideGuidance
<1>2. CASE Next /\ ~Decide
  BY <1>2, OthersDecideNothing
     DEF GuidanceInv, PictureAndBasisAgree, GuidanceNeverWidens, BoundariesBind, TestedOnce
<1>3. CASE UNCHANGED vars
  BY <1>3 DEF vars, GuidanceInv, PictureAndBasisAgree, GuidanceNeverWidens, Guidance,
              BoundariesBind, TestedOnce, Decided
<1> QED BY <1>1, <1>2, <1>3

(* A new conversation has decided nothing.                                  *)
LEMMA InitGuidance == Init => GuidanceInv
BY DEF Init, GuidanceInv, PictureAndBasisAgree, GuidanceNeverWidens, BoundariesBind,
       TestedOnce, Decided

(* The invariant of the guidance holds in every reachable state.            *)
LEMMA GuidanceInvariant == Spec => []GuidanceInv
BY DecisionInvariant, InitGuidance, NextGuidance, PTL DEF Spec

(* No decision ever claims tested understanding without a supported picture *)
(* in a turn that judged progress, nor forgets the one it has.              *)
THEOREM PictureAlwaysAgrees == Spec => []PictureAndBasisAgree
<1>1. GuidanceInv => PictureAndBasisAgree
  BY DEF GuidanceInv
<1> QED BY <1>1, GuidanceInvariant, PTL

(* No reply is written under a policy wider than the decision.              *)
THEOREM GuidanceAlwaysNarrows == Spec => []GuidanceNeverWidens
<1>1. GuidanceInv => GuidanceNeverWidens
  BY DEF GuidanceInv
<1> QED BY <1>1, GuidanceInvariant, PTL

(* No reply offers practical help, support or teaching against a refusal of *)
(* the action it is about.                                                  *)
THEOREM BoundariesAlwaysBind == Spec => []BoundariesBind
<1>1. GuidanceInv => BoundariesBind
  BY DEF GuidanceInv
<1> QED BY <1>1, GuidanceInvariant, PTL

-----------------------------------------------------------------------------
(* Permissions and the picture, from turn to turn *)

(* An update changes only what its scope is about; any may correct the      *)
(* text.                                                                    *)
LEMMA RevisedIsScoped ==
    ASSUME NEW r \in ActionRecords, NEW u \in ActionUpdates,
           ScopeOf(u) # "action" => u.status = "null"
    PROVE  LET q == Revised(r, u)
           IN  /\ <<q.status, q.readiness, q.scope>> # <<r.status, r.readiness, r.scope>>
                    => ScopeOf(u) = "action"
               /\ q.prepDeclined # r.prepDeclined => ScopeOf(u) = "preparation"
               /\ q.topicDeclined # r.topicDeclined => ScopeOf(u) = "topic"
               /\ q.status = "absent" => r.status = "absent"
<1> DEFINE own == u.scope \notin PermissionScopes
           states(scope) == u.scope = scope /\ u.readiness \notin {"null", "unknown"}
           status == IF u.status = "null" THEN r.status ELSE u.status
           readiness == IF own /\ u.readiness # "null" /\ ~Faded(r, u)
                        THEN u.readiness ELSE r.readiness
           scope == IF own /\ u.scope # "null" THEN u.scope ELSE r.scope
           prep == IF states("preparation")
                   THEN u.readiness \in NegativeReadiness ELSE r.prepDeclined
           topic == IF states("topic")
                    THEN u.readiness \in NegativeReadiness ELSE r.topicDeclined
           q == Revised(r, u)
<1>1. q = [r EXCEPT !.text = u.text, !.status = status,
                    !.readiness = readiness, !.scope = scope,
                    !.prepDeclined = prep, !.topicDeclined = topic]
  BY Zenon DEF Revised
<1>2. ScopeOf(u) # "action" =>
        status = r.status /\ readiness = r.readiness /\ scope = r.scope
  BY DEF ScopeOf, PermissionScopes
<1>3. /\ ScopeOf(u) # "preparation" => prep = r.prepDeclined
      /\ ScopeOf(u) # "topic" => topic = r.topicDeclined
  BY DEF ScopeOf, PermissionScopes
<1>4. status = "absent" => r.status = "absent"
  BY DEF ActionUpdates, Statuses
<1> HIDE DEF status, readiness, scope, prep, topic, q
<1>5. /\ q.status = status /\ q.readiness = readiness /\ q.scope = scope
      /\ q.prepDeclined = prep /\ q.topicDeclined = topic
  BY <1>1 DEF ActionRecords
<1> QED BY <1>2, <1>3, <1>4, <1>5 DEF q

(* UpdatesAreScoped, of a draft of its own and of one of its records.       *)
Said(d, i) == {scope \in PermissionScopes \cup {"action"} : <<i, scope>> \in d.touched}

Differs(old, new, said) ==
    /\ <<new.status, new.readiness, new.scope>>
         # <<old.status, old.readiness, old.scope>> => "action" \in said
    /\ new.prepDeclined # old.prepDeclined => "preparation" \in said
    /\ new.topicDeclined # old.topicDeclined => "topic" \in said
    /\ new.text # old.text => said # {}

Origin(d, i) ==
    IF i \in Recorded(ws.actions) THEN ws.actions[i] ELSE Blank(d.actions[i].text)

Scoped(d) ==
    \A i \in Recorded(d.actions) :
        /\ i \in Recorded(ws.actions) \cup d.created
        /\ Differs(Origin(d, i), d.actions[i], Said(d, i))

(* A record that an update revises differs from the one it was by what that *)
(* update and those before it have said.                                    *)
LEMMA RevisedDiffers ==
    ASSUME NEW r \in ActionRecords, NEW u \in ActionUpdates, NEW old, NEW said,
           ScopeOf(u) # "action" => u.status = "null",
           Differs(old, r, said)
    PROVE  Differs(old, Revised(r, u), said \cup {ScopeOf(u)})
BY RevisedIsScoped DEF Differs

(* One update of _merge_action_context keeps that.                          *)
LEMMA MergedIsScoped ==
    ASSUME TypeOK, DraftKeeps, Scoped(draft), NEW u \in ActionUpdates, NEW e,
           Merged(draft, u, e)
    PROVE  Scoped(e)
<1>1. /\ draft \in Drafts /\ draft.actions \in [ActionIds -> ActionRecords]
      /\ Recorded(ws.actions) \subseteq Recorded(draft.actions)
  BY DEF TypeOK, DraftKeeps, Keeps, Drafts
<1>2. CASE Ignored(draft, u) /\ e = draft
  BY <1>2
<1>3. ASSUME NEW old, e = [draft EXCEPT !.touched = Touch(draft, old, u)]
      PROVE  Scoped(e)
  <2>1. /\ e.actions = draft.actions /\ e.created = draft.created
        /\ \A i : Said(draft, i) \subseteq Said(e, i)
    BY <1>1, <1>3 DEF Drafts, Touch, Said
  <2> QED BY <2>1 DEF Scoped, Differs, Origin
<1>4. ASSUME NEW old \in About(draft, u) \ {NoAction}, Admissible(draft, u, old),
             e = [draft EXCEPT !.actions[old] = Revised(@, u), !.touched = Touch(draft, old, u)]
      PROVE  Scoped(e)
  <2>1. old \in Recorded(draft.actions) /\ old \in ActionIds
    BY <1>1, <1>4, AboutKnown DEF Admissible, Recorded
  <2>2. /\ e.actions = [draft.actions EXCEPT ![old] = Revised(draft.actions[old], u)]
        /\ e.touched = draft.touched \cup {<<old, ScopeOf(u)>>} /\ e.created = draft.created
    BY <1>1, <1>4 DEF Drafts, Touch
  <2>3. ScopeOf(u) \in PermissionScopes \cup {"action"}
    BY DEF ScopeOf
  <2>4. ASSUME NEW i \in Recorded(e.actions), i # old
        PROVE  /\ i \in Recorded(ws.actions) \cup e.created
               /\ Differs(Origin(e, i), e.actions[i], Said(e, i))
    <3>1. i \in ActionIds /\ e.actions[i] = draft.actions[i] /\ i \in Recorded(draft.actions)
      BY <1>1, <2>1, <2>2, <2>4 DEF Recorded
    <3>2. Said(e, i) = Said(draft, i)
      BY <2>2, <2>4 DEF Said
    <3> QED BY <2>2, <3>1, <3>2 DEF Scoped, Origin
  <2>5. /\ old \in Recorded(ws.actions) \cup e.created
        /\ Differs(Origin(e, old), e.actions[old], Said(e, old))
    <3>1. e.actions[old] = Revised(draft.actions[old], u) /\ draft.actions[old] \in ActionRecords
      BY <1>1, <2>1, <2>2
    <3>2. Said(e, old) = Said(draft, old) \cup {ScopeOf(u)}
      BY <2>2, <2>3 DEF Said
    <3>3. Differs(Origin(draft, old), e.actions[old], Said(e, old))
      BY <1>4, <2>1, <3>1, <3>2, RevisedDiffers DEF Scoped, Admissible
    <3>4. Differs(Origin(e, old), e.actions[old], Said(e, old))
      BY <3>3 DEF Origin, Differs, Blank
    <3> QED BY <2>1, <2>2, <3>4 DEF Scoped
  <2> QED BY <2>4, <2>5 DEF Scoped
<1>5. ASSUME NEW id \in ActionIds \ Recorded(draft.actions), Admissible(draft, u, NoAction),
             e = [actions |-> [draft.actions EXCEPT ![id] = Revised(Blank(u.text), u)],
                  touched |-> Touch(draft, id, u), created |-> draft.created \cup {id}]
      PROVE  Scoped(e)
  <2>1. /\ e.actions = [draft.actions EXCEPT ![id] = Revised(Blank(u.text), u)]
        /\ e.touched = draft.touched \cup {<<id, ScopeOf(u)>>}
        /\ e.created = draft.created \cup {id}
    BY <1>5 DEF Touch
  <2>2. ScopeOf(u) \in PermissionScopes \cup {"action"}
    BY DEF ScopeOf
  <2>3. ASSUME NEW i \in Recorded(e.actions), i # id
        PROVE  /\ i \in Recorded(ws.actions) \cup e.created
               /\ Differs(Origin(e, i), e.actions[i], Said(e, i))
    <3>1. i \in ActionIds /\ e.actions[i] = draft.actions[i] /\ i \in Recorded(draft.actions)
      BY <1>1, <2>1, <2>3 DEF Recorded
    <3>2. Said(e, i) = Said(draft, i)
      BY <2>1, <2>3 DEF Said
    <3> QED BY <2>1, <3>1, <3>2 DEF Scoped, Origin
  <2>4. Differs(Origin(e, id), e.actions[id], Said(e, id))
    <3>1. e.actions[id] = Revised(Blank(u.text), u) /\ Blank(u.text) \in ActionRecords
      BY <1>1, <2>1, BlankType DEF ActionUpdates
    <3>2. ScopeOf(u) \in Said(e, id)
      BY <2>1, <2>2 DEF Said
    <3>3. Differs(Blank(u.text), e.actions[id], {ScopeOf(u)})
      <4>1. Differs(Blank(u.text), Blank(u.text), {})
        BY DEF Differs
      <4> QED BY <1>5, <3>1, <4>1, RevisedDiffers DEF Admissible
    <3>4. Origin(e, id) = Blank(e.actions[id].text)
      BY <1>1 DEF Origin
    <3>5. Differs(Blank(u.text), e.actions[id], Said(e, id))
      BY <3>2, <3>3 DEF Differs
    <3>6. Differs(Blank(e.actions[id].text), e.actions[id], Said(e, id))
      <4> DEFINE t == e.actions[id].text
      <4>1. /\ Blank(t).status = Blank(u.text).status
            /\ Blank(t).readiness = Blank(u.text).readiness
            /\ Blank(t).scope = Blank(u.text).scope
            /\ Blank(t).prepDeclined = Blank(u.text).prepDeclined
            /\ Blank(t).topicDeclined = Blank(u.text).topicDeclined
            /\ Blank(t).text = t
        BY DEF Blank
      <4> QED BY <3>5, <4>1 DEF Differs
    <3> QED BY <3>4, <3>6
  <2> QED BY <2>1, <2>3, <2>4 DEF Scoped
<1> QED BY <1>2, <1>3, <1>4, <1>5 DEF Merged

(* A turn begins, and an attempt is given up, with the saved records.       *)
LEMMA FreshIsScoped == Scoped(FreshDraft(ws.actions))
BY DEF Scoped, Origin, Differs, FreshDraft

(* Whatever updates the model returns, attempt after attempt, what is       *)
(* merged differs from what is saved by what updates of that scope have     *)
(* said in this attempt.                                                    *)
THEOREM UpdatesStayScoped == Spec => []UpdatesAreScoped
<1>1. Init => Scoped(draft)
  BY FreshIsScoped DEF Init
<1>2. ASSUME RefusalInv, Scoped(draft), [Next]_vars
      PROVE  Scoped(draft)'
  <2>1. CASE draft' = FreshDraft(ws'.actions)
    <3>1. Scoped(FreshDraft(ws.actions))'
      BY FreshIsScoped, PTL
    <3> QED BY <2>1, <3>1 DEF Scoped, Origin, Differs, Said, FreshDraft, Recorded
  <2>2. CASE UNCHANGED <<ws, draft>>
    BY <1>2, <2>2 DEF Scoped, Origin
  <2>3. ASSUME NEW u \in Updates, ApplyUpdate(u)
        PROVE  Scoped(draft)'
    <3>1. Scoped(draft') /\ ws' = ws
      BY <1>2, <2>3, MergedIsScoped, UpdatesAssumption DEF ApplyUpdate, RefusalInv
    <3> QED BY <3>1 DEF Scoped, Origin
  <2>4. \/ draft' = FreshDraft(ws'.actions) \/ UNCHANGED <<ws, draft>>
        \/ \E u \in Updates : ApplyUpdate(u)
    BY <1>2 DEF Next, BeginTurn, FinishExtraction, ExtractionUnusable, ExtractionError, FallBack,
       Assess, AssessmentUnusable, AssessmentError, Decide, SaveTurn, LoseTurn, vars
  <2> QED BY <2>1, <2>2, <2>3, <2>4
<1>3. Scoped(draft) => UpdatesAreScoped
  BY DEF Scoped, Origin, Differs, Said, UpdatesAreScoped, Before
<1> QED BY <1>1, <1>2, <1>3, RefusalInvariant, PTL DEF Spec

(* A supported picture in a turn was saved before or is established by it,  *)
(* and the turn judged the reply it answers.                                *)
PictureOrigin ==
    /\ phase = "assessing" => work.understanding = ws.understanding
    /\ phase \in {"proposed", "decided"} /\ Shared(work) =>
         /\ Shared(ws) \/ work.progress.effect = "establish"
         /\ heard => work.inquiry.progress # "none"

(* Every step of a turn keeps that.                                         *)
LEMMA NextPicture ==
    ASSUME TypeOK, PictureOrigin, [Next]_vars
    PROVE  PictureOrigin'
<1>1. ws \in DurableStates /\ work \in WorkingStates
  BY DEF TypeOK
<1>2. ASSUME NEW s, NEW last
      PROVE  ~Shared(Conservative(s, last))
  BY DEF Shared, Conservative, Withdraw, DefaultState
<1>3. ASSUME NEW s, NEW last, FallBack(Conservative(s, last))
      PROVE  PictureOrigin'
  BY <1>2, <1>3 DEF FallBack, PictureOrigin, Shared
<1>4. ASSUME NEW evidence \in BOOLEAN, FinishExtraction(evidence)
      PROVE  PictureOrigin'
  BY <1>4 DEF FinishExtraction, Extracted, DefaultState, PictureOrigin
<1>5. ASSUME NEW a \in Assessments, Assess(a)
      PROVE  PictureOrigin'
  <2>1. Shared(Assessed(a)) =>
          Shared(ws) \/ Assessed(a).progress.effect = "establish"
    BY <1>1 DEF Assessed, WorkingStates, Shared, Withdraw
  <2>2. heard => Assessed(a).inquiry = a.inquiry
    BY <1>1 DEF Assessed, WorkingStates
  <2> QED BY <1>5, <2>1, <2>2 DEF Assess, Valid, PictureOrigin, Shared
<1>6. CASE Decide
  <2>1. KeepsPicture(Normalize(work), Enforce(work))
    BY <1>1, EnforceKeepsPicture
  <2>2. /\ Shared(Enforce(work)) => Shared(work)
        /\ Enforce(work).progress = work.progress
        /\ Enforce(work).inquiry = work.inquiry
    BY <1>1, <2>1, NormalizePicture DEF KeepsPicture, SameClient, Shared
  <2> QED BY <1>6, <2>2 DEF Decide, PictureOrigin, Shared
<1>7. CASE BeginTurn \/ SaveTurn \/ LoseTurn \/ \E u \in Updates : ApplyUpdate(u)
  BY <1>7 DEF BeginTurn, SaveTurn, LoseTurn, ApplyUpdate, PictureOrigin
<1>8. CASE ExtractionUnusable \/ AssessmentUnusable
  BY <1>3, <1>8 DEF ExtractionUnusable, AssessmentUnusable, PictureOrigin, Shared
<1>9. CASE ExtractionError \/ AssessmentError
  BY <1>3, <1>9 DEF ExtractionError, AssessmentError
<1>10. CASE UNCHANGED vars
  BY <1>10 DEF vars, PictureOrigin, Shared
<1> QED BY <1>4, <1>5, <1>6, <1>7, <1>8, <1>9, <1>10 DEF Next

(* A picture that was withdrawn comes back only where it is established     *)
(* anew, and none is carried on by a turn that has not judged the reply.    *)
THEOREM PictureReturnsByEstablishing == Spec => PictureIsReestablished
<1>1. Init => PictureOrigin
  BY DEF Init, PictureOrigin
<1>2. ASSUME PictureOrigin, SaveTurn, ws'.understanding = "supported"
      PROVE  /\ ~Shared(ws) => work.progress.effect = "establish"
             /\ heard => work.inquiry.progress # "none"
  BY <1>2 DEF SaveTurn, PictureOrigin, Durable, Shared
<1>3. Spec => []PictureOrigin
  BY <1>1, TypeCorrect, NextPicture, PTL DEF Spec
<1> QED BY <1>2, <1>3, PTL DEF Spec, PictureIsReestablished

-----------------------------------------------------------------------------
(* The way through a turn *)

(* The most phases and attempts a turn still has before it.                *)
Left ==
    CASE phase = "extracting" -> 7 - attempt
      [] phase = "assessing"  -> 5 - attempt
      [] phase = "proposed"   -> 2
      [] phase = "decided"    -> 1
      [] OTHER                -> 0

(* A turn begins with its first attempt; reading one update aside, every   *)
(* step of a turn brings it nearer its end.                                *)
TurnsProceed ==
    IF phase = "idle" THEN Left' = 6
    ELSE Left' < Left \/ (UNCHANGED <<phase, attempt>> /\ \E u \in Updates : ApplyUpdate(u))

(* Attempts are counted from one for each model call.                      *)
AttemptInv == phase \notin {"extracting", "assessing"} => attempt = 1

(* Every step keeps that.                                                  *)
LEMMA NextAttempt ==
    ASSUME AttemptInv, [Next]_vars
    PROVE  AttemptInv'
BY DEF AttemptInv, Next, BeginTurn, ApplyUpdate, FinishExtraction, ExtractionUnusable,
       ExtractionError, Assess, AssessmentUnusable, AssessmentError, Decide, SaveTurn,
       LoseTurn, FallBack, vars

(* What each phase has before it.                                          *)
LEMMA LeftIs ==
    /\ phase = "extracting" => Left = 7 - attempt
    /\ phase = "assessing" => Left = 5 - attempt
    /\ phase = "proposed" => Left = 2
    /\ phase = "decided" => Left = 1
    /\ phase = "idle" => Left = 0
BY DEF Left

(* And what each phase has before it once a step has led there.            *)
LEMMA LeftBecomes ==
    /\ phase' = "extracting" => Left' = 7 - attempt'
    /\ phase' = "assessing" => Left' = 5 - attempt'
    /\ phase' = "proposed" => Left' = 2
    /\ phase' = "decided" => Left' = 1
    /\ phase' = "idle" => Left' = 0
BY DEF Left

(* A turn calls the extraction and the assessment at most twice each,      *)
(* whatever the models return, and decides once.                           *)
THEOREM TurnsEnd == Spec => [][TurnsProceed]_vars
<1>1. Init => AttemptInv
  BY DEF Init, AttemptInv
<1>2. Spec => []AttemptInv
  BY <1>1, NextAttempt, PTL DEF Spec
<1>3. ASSUME TypeOK, AttemptInv, Next
      PROVE  TurnsProceed
  <2>1. attempt \in {1, 2} /\ phase \in Phases
    BY <1>3 DEF TypeOK
  <2>2. CASE BeginTurn
    <3>1. phase = "idle" /\ phase' = "extracting" /\ attempt' = 1
      BY <1>3, <2>2 DEF BeginTurn, AttemptInv
    <3> QED BY <3>1, LeftBecomes DEF TurnsProceed
  <2>3. CASE \E u \in Updates : ApplyUpdate(u)
    BY <2>3 DEF ApplyUpdate, TurnsProceed
  <2>4. CASE \/ \E evidence \in BOOLEAN : FinishExtraction(evidence)
             \/ ExtractionUnusable \/ ExtractionError
    <3>1. /\ phase = "extracting"
          /\ \/ phase' = "extracting" /\ attempt = 1 /\ attempt' = 2
             \/ phase' = "assessing" /\ attempt' = 1
             \/ phase' = "proposed"
      BY <2>4 DEF FinishExtraction, ExtractionUnusable, ExtractionError, FallBack
    <3> QED BY <2>1, <3>1, LeftIs, LeftBecomes DEF TurnsProceed
  <2>5. CASE \/ \E a \in Assessments : Assess(a)
             \/ AssessmentUnusable \/ AssessmentError
    <3>1. /\ phase = "assessing"
          /\ \/ phase' = "assessing" /\ attempt = 1 /\ attempt' = 2
             \/ phase' = "proposed"
      BY <2>5 DEF Assess, AssessmentUnusable, AssessmentError, FallBack
    <3> QED BY <2>1, <3>1, LeftIs, LeftBecomes DEF TurnsProceed
  <2>6. CASE Decide \/ SaveTurn
    BY <2>6, LeftIs, LeftBecomes DEF Decide, SaveTurn, TurnsProceed
  <2>7. CASE LoseTurn
    <3>1. phase \in Phases \ {"idle"} /\ phase' = "idle"
      BY <2>1, <2>7 DEF LoseTurn
    <3> QED BY <2>1, <3>1, LeftIs, LeftBecomes DEF TurnsProceed, Phases
  <2> QED BY <1>3, <2>2, <2>3, <2>4, <2>5, <2>6, <2>7 DEF Next
<1> QED BY <1>2, <1>3, TypeCorrect, PTL DEF Spec
=============================================================================
