---------------------- MODULE SummaryRetention_proofs -----------------------
(***************************************************************************)
(* The safety of the continuity summary for any number of fields, actions  *)
(* and wordings, whatever revisions, updates and assessments the model     *)
(* returns, and whichever refreshes fail or are cut off.                   *)
(***************************************************************************)
EXTENDS SummaryRetention, CoachingSession_proofs

(* A step of the summary is a step of the conversation or leaves it alone.  *)
LEMMA SummaryStepsSession ==
    ASSUME [SummaryNext]_allVars
    PROVE  [Next]_vars
BY DEF SummaryNext, TurnStep, SaveThenRefresh, Refresh, RefreshFails, RefreshCutOff,
       Next, allVars, vars

(* With its summary, a conversation is still a conversation.                *)
THEOREM SummaryRunsSession == SummarySpec => Spec
<1>1. SummaryInit => Init
  BY DEF SummaryInit
<1>2. [SummaryNext]_allVars => [Next]_vars
  BY SummaryStepsSession
<1> QED BY <1>1, <1>2, PTL DEF SummarySpec, Spec

-----------------------------------------------------------------------------
(* Types *)

(* The gate writes a summary of the schema.                                 *)
LEMMA GatedType ==
    ASSUME NEW d, NEW s \in Summaries, NEW r \in SummaryRevisions
    PROVE  /\ Gated(d, s, r) \in Summaries
           /\ \A f \in UnderstandingFields :
                Gated(d, s, r)[f] = RetainedUnderstanding(d, r.text[f], s[f])
           /\ \A f \in ActionFields :
                Gated(d, s, r)[f] = RetainedChange(d, r.change[f], r.text[f], s[f])
           /\ \A f \in GroundedFields :
                Gated(d, s, r)[f] = Retained(d.evidence, r.text[f], s[f])
<1>1. r.text \in Summaries
  BY DEF SummaryRevisions
<1>2. ASSUME NEW text \in Wordings \cup {NoText}, NEW previous \in Wordings \cup {NoText},
             NEW eligible
      PROVE  Retained(eligible, text, previous) \in Wordings \cup {NoText}
  BY DEF Retained
<1>3. ASSUME NEW text \in Wordings \cup {NoText}, NEW previous \in Wordings \cup {NoText}
      PROVE  RetainedUnderstanding(d, text, previous) \in Wordings \cup {NoText}
  BY DEF RetainedUnderstanding
<1>4. ASSUME NEW text \in Wordings \cup {NoText}, NEW previous \in Wordings \cup {NoText},
             NEW change
      PROVE  RetainedChange(d, change, text, previous) \in Wordings \cup {NoText}
  BY <1>2 DEF RetainedChange
<1>5. ASSUME NEW f \in SummaryFields
      PROVE  /\ f \in UnderstandingFields =>
                  Gated(d, s, r)[f] = RetainedUnderstanding(d, r.text[f], s[f])
             /\ f \in ActionFields =>
                  Gated(d, s, r)[f] = RetainedChange(d, r.change[f], r.text[f], s[f])
             /\ f \in GroundedFields =>
                  Gated(d, s, r)[f] = Retained(d.evidence, r.text[f], s[f])
  BY FieldsAssumption DEF Gated, SummaryFields
<1>6. ASSUME NEW f \in SummaryFields
      PROVE  Gated(d, s, r)[f] \in Wordings \cup {NoText}
  <2>1. r.text[f] \in Wordings \cup {NoText} /\ s[f] \in Wordings \cup {NoText}
    BY <1>1 DEF Summaries
  <2> QED BY <1>2, <1>3, <1>4, <1>5, <2>1 DEF SummaryFields
<1> DEFINE text(f) ==
             CASE f \in GroundedFields -> Retained(d.evidence, r.text[f], s[f])
               [] f \in UnderstandingFields ->
                     RetainedUnderstanding(d, r.text[f], s[f])
               [] f \in ActionFields ->
                     RetainedChange(d, r.change[f], r.text[f], s[f])
<1>7. Gated(d, s, r) \in Summaries
  <2>1. Gated(d, s, r) = [f \in SummaryFields |-> text(f)]
    BY DEF Gated
  <2> HIDE DEF text
  <2>2. \A f \in SummaryFields : text(f) \in Wordings \cup {NoText}
    BY <1>6, <2>1
  <2> QED BY <2>1, <2>2 DEF Summaries
<1> QED BY <1>5, <1>7 DEF SummaryFields

(* What stands in the summary is worded.                                    *)
LEMMA StandingType ==
    ASSUME summary \in Summaries
    PROVE  Standing \subseteq UnderstandingFields \X Wordings
BY DEF Standing, Summaries, SummaryFields

(* Every step keeps the types of the summary.                               *)
LEMMA SummaryNextType ==
    ASSUME TypeOK, SummaryTypeOK, [SummaryNext]_allVars
    PROVE  SummaryTypeOK'
<1> USE DEF SummaryTypeOK
<1>1. CASE SaveThenRefresh
  BY <1>1, StandingType DEF SaveThenRefresh, TypeOK
<1>2. ASSUME NEW r \in Revisions, Refresh(r)
      PROVE  SummaryTypeOK'
  <2>1. r \in SummaryRevisions
    BY RevisionsAssumption
  <2>2. summary' \in Summaries
    BY <1>2, <2>1, GatedType DEF Refresh
  <2> QED BY <1>2, <2>2, DefaultType DEF Refresh, Settle
<1>3. CASE RefreshFails
  BY <1>3, StandingType, DefaultType DEF RefreshFails, Settle, Missing
<1>4. CASE RefreshCutOff
  BY <1>4, StandingType, DefaultType DEF RefreshCutOff, Settle, Missing
<1>5. CASE TurnStep \/ UNCHANGED allVars
  BY <1>5 DEF TurnStep, summaryVars, allVars
<1> QED BY <1>1, <1>2, <1>3, <1>4, <1>5 DEF SummaryNext

(* The summary and its history keep their types.                            *)
THEOREM SummaryTypeCorrect == SummarySpec => []SummaryTypeOK
<1>1. SummaryInit => SummaryTypeOK
  BY DefaultType DEF SummaryInit, SummaryTypeOK, Summaries, EmptySummary
<1> QED BY <1>1, SummaryNextType, SummaryRunsSession, TypeCorrect, PTL DEF SummarySpec

-----------------------------------------------------------------------------
(* The decision a summary is refreshed from *)

(* What ActionIsEarned and TestedOnce say, of a saved decision.             *)
EarnedDecision(d) ==
    d.stage = "action" =>
        /\ Shared(d) /\ d.evidence
        /\ "user_owned_outcome" \in d.basis
        /\ OwnedAction(d)
        /\ ~\E i \in Relevant(d) : Refused(d, i)

DecisionTestedOnce(d) == Tested(Enforce(d)) => Tested(d)

(* The saved decision stays what it was, and the saved state its durable    *)
(* part, until the summary is refreshed.                                    *)
DueInv ==
    due => /\ ws = Durable(decision)
           /\ EarnedDecision(decision)
           /\ DecisionTestedOnce(decision)

(* Saving a turn hands its decision over, and nothing changes it.           *)
LEMMA NextDue ==
    ASSUME DecisionInv, GuidanceInv, DueInv, [SummaryNext]_allVars
    PROVE  DueInv'
<1>1. CASE SaveThenRefresh
  <2>1. Decided /\ ws' = Durable(work) /\ decision' = work
    BY <1>1 DEF SaveThenRefresh, SaveTurn, Decided
  <2>2. EarnedDecision(work) /\ DecisionTestedOnce(work)
    BY <2>1 DEF DecisionInv, GuidanceInv, ActionIsEarned, TestedOnce, Guidance,
                EarnedDecision, DecisionTestedOnce, Tested
  <2> QED BY <2>1, <2>2 DEF DueInv
<1>2. CASE ~due'
  BY <1>2 DEF DueInv
<1>3. CASE TurnStep \/ UNCHANGED allVars
  BY <1>3 DEF TurnStep, summaryVars, allVars, vars, DueInv
<1> QED BY <1>1, <1>2, <1>3 DEF SummaryNext, Refresh, RefreshFails, RefreshCutOff, Settle

(* It holds in every reachable state.                                       *)
LEMMA DueInvariant == SummarySpec => []DueInv
<1>1. SummaryInit => DueInv
  BY DEF SummaryInit, DueInv
<1> QED BY <1>1, NextDue, SummaryRunsSession, DecisionInvariant, GuidanceInvariant, PTL
        DEF SummarySpec

(* Only a refresh writes the summary.                                       *)
LEMMA OnlyRefreshWrites ==
    ASSUME [SummaryNext]_allVars, summary' # summary
    PROVE  \E r \in Revisions : Refresh(r)
BY DEF SummaryNext, TurnStep, SaveThenRefresh, RefreshFails, RefreshCutOff, allVars,
       summaryVars

(* A commitment or experiment enters the summary only after a turn that     *)
(* earned the action stage, and leaves it only with an abandoned action.    *)
THEOREM CommitmentsAlwaysEarned == SummarySpec => CommitmentsAreEarned
<1> DEFINE Earned ==
        \A f \in ActionFields : summary'[f] # summary[f] =>
         IF summary'[f] = NoText
         THEN \E i \in Recorded(ws.actions) : ws.actions[i].status = "abandoned"
         ELSE /\ decision.stage = "action"
              /\ ws.understanding = "supported" /\ ws.evidence
              /\ "user_owned_outcome" \in decision.basis
              /\ \E i \in Relevant(decision) :
                    ws.actions[i].status \in {"planned", "ongoing"}
              /\ \A i \in Relevant(decision) : ~Refused(decision, i)
<1>1. ASSUME SummaryTypeOK, DueInv, NEW r \in Revisions, Refresh(r),
             NEW f \in ActionFields, summary'[f] # summary[f]
      PROVE  IF summary'[f] = NoText
             THEN \E i \in Recorded(ws.actions) : ws.actions[i].status = "abandoned"
             ELSE /\ decision.stage = "action"
                  /\ ws.understanding = "supported" /\ ws.evidence
                  /\ "user_owned_outcome" \in decision.basis
                  /\ \E i \in Relevant(decision) :
                        ws.actions[i].status \in {"planned", "ongoing"}
                  /\ \A i \in Relevant(decision) : ~Refused(decision, i)
  <2> DEFINE c == r.change[f]
             d == Enforce(decision)
  <2>1. r \in SummaryRevisions /\ decision \in WorkingStates /\ summary \in Summaries
    BY <1>1, RevisionsAssumption DEF SummaryTypeOK
  <2>2. /\ due /\ Supported(decision, summary, r)
        /\ summary'[f] = RetainedChange(d, c, r.text[f], summary[f])
    BY <1>1, <2>1, GatedType DEF Refresh
  <2>3. /\ ws = Durable(decision) /\ EarnedDecision(decision)
        /\ ws.actions = decision.actions /\ ws.understanding = decision.understanding
        /\ ws.evidence = decision.evidence
    BY <1>1, <2>2 DEF DueInv, Durable
  <2>4. c.operation # "preserve"
    BY <1>1, <2>2 DEF RetainedChange
  <2>5. CASE c.operation = "clear"
    <3>1. /\ c.action \in Recorded(decision.actions)
          /\ decision.actions[c.action].status = "abandoned"
      BY <2>2, <2>4, <2>5 DEF Supported, ClearSupported
    <3>2. summary'[f] = NoText
      BY <2>2, <2>5 DEF RetainedChange
    <3> QED BY <2>3, <3>1, <3>2
  <2>6. CASE c.operation # "clear"
    <3>1. summary'[f] = Retained(d.stage = "action", r.text[f], summary[f])
      BY <2>2, <2>4, <2>6 DEF RetainedChange
    <3>2. d.stage = "action" /\ summary'[f] # NoText
      BY <1>1, <3>1 DEF Retained
    <3>3. decision.stage = "action"
      BY <2>1, <3>2, EnforceNeverAdvances
    <3> QED BY <2>3, <3>2, <3>3 DEF EarnedDecision, OwnedAction, Shared
  <2> QED BY <2>5, <2>6
<1>2. SummaryTypeOK /\ DueInv /\ [SummaryNext]_allVars => [Earned]_allVars
  <2>1. ASSUME SummaryTypeOK, DueInv, [SummaryNext]_allVars
        PROVE  Earned
    BY <1>1, <2>1, OnlyRefreshWrites
  <2> QED BY <2>1
<1> QED BY <1>2, SummaryTypeCorrect, DueInvariant, PTL DEF SummarySpec, CommitmentsAreEarned

(* A discovery enters the summary only in a turn whose recorded decision    *)
(* holds a tested understanding, though the gate reads the decision         *)
(* enforced once more.                                                      *)
THEOREM DiscoveriesAlwaysTested == SummarySpec => DiscoveriesAreTested
<1> DEFINE Held == \A f \in UnderstandingFields :
                     summary'[f] \notin {summary[f], NoText} => Tested(decision)
<1>1. ASSUME SummaryTypeOK, DueInv, NEW r \in Revisions, Refresh(r),
             NEW f \in UnderstandingFields, summary'[f] \notin {summary[f], NoText}
      PROVE  Tested(decision)
  <2>1. r \in SummaryRevisions /\ summary \in Summaries
    BY <1>1, RevisionsAssumption DEF SummaryTypeOK
  <2>2. due /\ summary'[f] =
                 RetainedUnderstanding(Enforce(decision), r.text[f], summary[f])
    BY <1>1, <2>1, GatedType DEF Refresh
  <2>3. Tested(Enforce(decision))
    BY <1>1, <2>2 DEF RetainedUnderstanding
  <2> QED BY <1>1, <2>2, <2>3 DEF DueInv, DecisionTestedOnce
<1>2. SummaryTypeOK /\ DueInv /\ [SummaryNext]_allVars => [Held]_allVars
  <2>1. ASSUME SummaryTypeOK, DueInv, [SummaryNext]_allVars
        PROVE  Held
    BY <1>1, <2>1, OnlyRefreshWrites
  <2> QED BY <2>1
<1> QED BY <1>2, SummaryTypeCorrect, DueInvariant, PTL DEF SummarySpec, DiscoveriesAreTested

-----------------------------------------------------------------------------
(* What the client took back *)

(* Between turns, and after a turn that revised nothing, what was taken     *)
(* back and still stands is what a refresh missed; nothing missed is        *)
(* forgotten.                                                               *)
TakenInv ==
    (due /\ ClientRevised(decision)) \/ Standing \cap takenBack \subseteq missed

(* The gate sees a revision of the client in the enforced decision.         *)
LEMMA GateSeesRevision ==
    ASSUME NEW d \in WorkingStates
    PROVE  InvalidatesUnderstanding(Enforce(d)) <=> ClientRevised(d)
BY EnforceKeepsPicture, NormalizePicture
   DEF KeepsPicture, SameClient, InvalidatesUnderstanding, ClientRevised, HasProgress,
       Revising

(* A refresh leaves nothing standing that was taken back, unless it was     *)
(* missed before.                                                           *)
LEMMA RefreshTakes ==
    ASSUME SummaryTypeOK, TakenInv, NEW r \in Revisions, Refresh(r)
    PROVE  TakenInv'
<1> DEFINE d == Enforce(decision)
<1>1. r \in SummaryRevisions /\ decision \in WorkingStates /\ summary \in Summaries
  BY RevisionsAssumption DEF SummaryTypeOK
<1>2. /\ due /\ missed' = missed
      /\ takenBack' = takenBack \
           (IF Tested(d) THEN {<<f, r.text[f]>> : f \in UnderstandingFields} ELSE {})
      /\ \A f \in UnderstandingFields :
           summary'[f] = RetainedUnderstanding(d, r.text[f], summary[f])
  BY <1>1, GatedType DEF Refresh
<1> HIDE DEF d
<1>3. SUFFICES ASSUME NEW f \in UnderstandingFields, summary'[f] # NoText,
                      <<f, summary'[f]>> \in takenBack'
               PROVE  <<f, summary'[f]>> \in missed
  BY <1>2 DEF TakenInv, Standing
<1>4. CASE Tested(d) /\ r.text[f] # NoText
  <2>1. summary'[f] = r.text[f]
    BY <1>2, <1>4 DEF RetainedUnderstanding
  <2> QED BY <1>2, <1>3, <1>4, <2>1
<1>5. CASE ~(Tested(d) /\ r.text[f] # NoText)
  <2>1. summary'[f] = summary[f] /\ ~InvalidatesUnderstanding(d)
    BY <1>2, <1>3, <1>5 DEF RetainedUnderstanding
  <2>2. ~ClientRevised(decision)
    BY <1>1, <2>1, GateSeesRevision DEF d
  <2>3. <<f, summary[f]>> \in Standing \cap takenBack
    BY <1>2, <1>3, <2>1 DEF Standing
  <2> QED BY <2>1, <2>2, <2>3 DEF TakenInv
<1> QED BY <1>4, <1>5

(* Every step keeps that.                                                   *)
LEMMA NextTaken ==
    ASSUME SummaryTypeOK, TakenInv, [SummaryNext]_allVars
    PROVE  TakenInv'
<1>1. CASE SaveThenRefresh
  <2>1. /\ ~due /\ due' /\ decision' = work /\ summary' = summary /\ missed' = missed
        /\ takenBack' = takenBack \cup (IF ClientRevised(work) THEN Standing ELSE {})
    BY <1>1 DEF SaveThenRefresh
  <2>2. CASE ClientRevised(work)
    BY <2>1, <2>2 DEF TakenInv, ClientRevised, Revising, HasProgress
  <2>3. CASE ~ClientRevised(work)
    BY <2>1, <2>3 DEF TakenInv, Standing
  <2> QED BY <2>2, <2>3
<1>2. ASSUME NEW r \in Revisions, Refresh(r)
      PROVE  TakenInv'
  BY <1>2, RefreshTakes
<1>3. CASE RefreshFails \/ RefreshCutOff
  <2>1. /\ summary' = summary /\ takenBack' = takenBack
        /\ missed' = missed \cup (IF ClientRevised(decision) THEN Standing ELSE {})
    BY <1>3 DEF RefreshFails, RefreshCutOff, Missing
  <2> QED BY <2>1 DEF TakenInv, Standing
<1>4. CASE TurnStep \/ UNCHANGED allVars
  BY <1>4 DEF TurnStep, summaryVars, allVars, TakenInv, Standing, ClientRevised,
              Revising, HasProgress
<1> QED BY <1>1, <1>2, <1>3, <1>4 DEF SummaryNext

(* What the client revised away stays in the summary only where the refresh *)
(* of that very turn was missed.                                            *)
THEOREM OnlyMissedIsKept == SummarySpec => []OnlyMissedRefreshKeepsDiscovery
<1>1. SummaryInit => TakenInv
  BY DEF SummaryInit, TakenInv
<1>2. TakenInv => OnlyMissedRefreshKeepsDiscovery
  BY DEF TakenInv, OnlyMissedRefreshKeepsDiscovery
<1> QED BY <1>1, <1>2, NextTaken, SummaryTypeCorrect, PTL DEF SummarySpec
=============================================================================
