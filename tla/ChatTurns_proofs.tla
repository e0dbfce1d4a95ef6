------------------------- MODULE ChatTurns_proofs ---------------------------
(***************************************************************************)
(* The safety of the chat's persistence, and that it implements TurnLog,   *)
(* for any number of requests and conversations.                           *)
(***************************************************************************)
EXTENDS ChatTurns, TLAPS

(* What a request may say of the database, by the step it is at.           *)
BeforeSave == {"idle", "history", "load", "store", "state", "reply", "save"}
AfterSave ==
    {"refresh", "invalidate", "summarize", "select", "commit", "mark", "marking",
     "current", "stale"}

(* A saved turn is in its conversation, as long as that exists.            *)
TurnsStay ==
    \A r \in entered :
        /\ conv[r] \in Convs
        /\ life[conv[r]] # "unused"
        /\ Live(conv[r]) => r \in Logged(conv[r])

StepsAgree ==
    \A r \in Requests :
        /\ pc[r] \in BeforeSave => r \notin entered
        /\ pc[r] \in AfterSave => r \in entered
        /\ pc[r] \in {"load", "store"} => conv[r] \in Convs
        /\ answer[r] # "none" => pc[r] = "over"
        /\ answer[r] \in {"current", "stale"} => r \in entered

Inv == TypeOK /\ NoOrphans /\ TurnsStay /\ StepsAgree

(* Saving appends one message pair: nothing logged before is lost.          *)
LEMMA LoggedAppend ==
    ASSUME NEW s \in Seq(Requests), NEW r \in Requests
    PROVE  LET t == Append(s, r)
           IN  {t[i] : i \in DOMAIN t} = {s[i] : i \in DOMAIN s} \cup {r}
<1> DEFINE t == Append(s, r)
<1>1. /\ t \in Seq(Requests) /\ Len(t) = Len(s) + 1 /\ Len(s) \in Nat
      /\ t[Len(s) + 1] = r
      /\ \A i \in 1..Len(s) : t[i] = s[i]
  OBVIOUS
<1>2. DOMAIN t = 1..(Len(s) + 1) /\ DOMAIN s = 1..Len(s)
  BY <1>1
<1>3. 1..(Len(s) + 1) = 1..Len(s) \cup {Len(s) + 1}
  BY <1>1
<1> QED BY <1>1, <1>2, <1>3

(* The invariant holds of an empty database and idle requests.              *)
LEMMA InitInv == Init => Inv
BY NoConvAssumption
   DEF Init, Inv, TypeOK, NoOrphans, TurnsStay, StepsAgree, BeforeSave, AfterSave,
       States, Summaries, NoState, NoSummary, NoEntry, Steps, Answers

(***************************************************************************)
(* Types                                                                   *)
(***************************************************************************)

(* Each step writes values of the right type: the row or the local it      *)
(* replaces is computed from well-typed ones.                              *)
LEMMA NextType ==
    ASSUME Inv, [Next]_vars
    PROVE  TypeOK'
<1> USE DEF database, locals, Go, Finish, Fail, Steps, Answers
<1>a. TypeOK
  BY DEF Inv
<1>1. ASSUME NEW r \in Requests, NEW c \in Convs \cup {NoConv}, Accept(r, c)
      PROVE  TypeOK'
  <2>1. crowded' \in SUBSET Convs
    BY <1>a, <1>1 DEF Accept, TypeOK
  <2>2. CASE c # NoConv /\ ~Live(c)
    BY <1>a, <1>1, <2>1, <2>2 DEF Accept, TypeOK
  <2>3. CASE ~(c # NoConv /\ ~Live(c))
    BY <1>a, <1>1, <2>1, <2>3 DEF Accept, TypeOK
  <2> QED BY <2>2, <2>3
<1>2. ASSUME NEW r \in Requests, ReadCache(r)
      PROVE  TypeOK'
  <2>1. conv[r] \in Convs /\ cache[conv[r]] # NoEntry => cache[conv[r]] \in Nat
    BY <1>a DEF TypeOK
  <2>2. conv[r] # NoConv => conv[r] \in Convs
    BY <1>a DEF TypeOK
  <2>3. CASE conv[r] # NoConv /\ cache[conv[r]] = NoEntry
    BY <1>a, <1>2, <2>3 DEF ReadCache, TypeOK
  <2>4. CASE ~(conv[r] # NoConv /\ cache[conv[r]] = NoEntry)
    <3>1. (IF conv[r] = NoConv THEN 0 ELSE cache[conv[r]]) \in Nat
      BY <2>1, <2>2, <2>4
    <3>2. heard' = [heard EXCEPT ![r] = IF conv[r] = NoConv THEN 0 ELSE cache[conv[r]]]
      BY <1>2, <2>4 DEF ReadCache
    <3>3. heard' \in [Requests -> Nat]
      BY <1>a, <3>1, <3>2 DEF TypeOK
    <3> QED BY <1>a, <1>2, <2>4, <3>3 DEF ReadCache, TypeOK
  <2> QED BY <2>3, <2>4
<1>3. ASSUME NEW r \in Requests, LoadHistory(r)
      PROVE  TypeOK'
  <2>1. conv[r] \in Convs
    BY <1>3 DEF LoadHistory, Inv, StepsAgree
  <2>2. Len(turns[conv[r]]) \in Nat
    BY <1>a, <2>1 DEF TypeOK
  <2> QED BY <1>a, <1>3, <2>2 DEF LoadHistory, TypeOK
<1>4. ASSUME NEW r \in Requests, StoreHistory(r)
      PROVE  TypeOK'
  BY <1>a, <1>4 DEF StoreHistory, TypeOK
<1>5. ASSUME NEW r \in Requests, ReadState(r)
      PROVE  TypeOK'
  <2>1. conv[r] # NoConv => /\ state[conv[r]] \in States
                            /\ Len(turns[conv[r]]) \in Nat
    BY <1>a DEF TypeOK
  <2>2. NoState \in States
    BY DEF NoState, States
  <2>3. base' \in [Requests -> States] /\ saved' \in [Requests -> Nat]
    BY <1>a, <1>5, <2>1, <2>2 DEF ReadState, TypeOK
  <2> QED BY <1>a, <1>5, <2>3 DEF ReadState, TypeOK
<1>6. ASSUME NEW r \in Requests, Reply(r) \/ SaveRefused(r) \/ RefreshRefused(r)
                                 \/ Refresh(r) \/ ConnectionLost(r) \/ CutOff(r)
      PROVE  TypeOK'
  <2>1. CASE SaveRefused(r) \/ RefreshRefused(r) \/ ConnectionLost(r)
    <3>1. /\ pc' = [pc EXCEPT ![r] = "over"] /\ answer' = [answer EXCEPT ![r] = "error"]
          /\ UNCHANGED <<database, cache, locals>>
      BY <2>1 DEF SaveRefused, RefreshRefused, ConnectionLost
    <3> QED BY <1>a, <3>1 DEF TypeOK
  <2>2. CASE Reply(r) \/ Refresh(r) \/ CutOff(r)
    <3>1. /\ \E step \in Steps : pc' = [pc EXCEPT ![r] = step]
          /\ UNCHANGED <<database, cache, locals, answer>>
      BY <2>2 DEF Reply, Refresh, CutOff
    <3> QED BY <1>a, <3>1 DEF TypeOK
  <2> QED BY <1>6, <2>1, <2>2
<1>7. ASSUME NEW r \in Requests, NEW c \in Convs, SavedIn(c, r)
      PROVE  /\ turns' \in [Convs -> Seq(Requests)] /\ state' \in [Convs -> States]
             /\ entered' \in SUBSET Requests /\ pc' \in [Requests -> Steps]
             /\ UNCHANGED <<summary, crowded, cache, heard, base, saved, draft, seen, answer>>
  <2>1. Append(turns[c], r) \in Seq(Requests)
    BY <1>a DEF TypeOK
  <2>2. [count |-> base[r].count + 1, over |-> base[r].over \cup {r}] \in States
    BY <1>a DEF TypeOK, States
  <2> QED BY <1>a, <1>7, <2>1, <2>2 DEF SavedIn, Transcript, NewState, Count, TypeOK
<1>8. ASSUME NEW r \in Requests, NEW c \in Convs, SaveFirst(r, c)
      PROVE  TypeOK'
  BY <1>a, <1>7, <1>8 DEF SaveFirst, TypeOK
<1>9. ASSUME NEW r \in Requests, SaveNext(r)
      PROVE  TypeOK'
  <2>1. conv[r] \in Convs
    BY <1>a, <1>9 DEF SaveNext, TypeOK
  <2> QED BY <1>a, <1>7, <1>9, <2>1 DEF SaveNext, TypeOK
<1>10. ASSUME NEW r \in Requests, Invalidate(r)
       PROVE  TypeOK'
  BY <1>a, <1>10 DEF Invalidate, InvalidatedKeys, TypeOK
<1>11. ASSUME NEW r \in Requests, pc[r] \in AfterSave
       PROVE  conv[r] \in Convs /\ summary[conv[r]] \in Summaries
  BY <1>a, <1>11 DEF Inv, StepsAgree, TurnsStay, TypeOK
<1>12. ASSUME NEW r \in Requests, Summarize(r)
       PROVE  TypeOK'
  <2>1. summary[conv[r]].over \cup base[r].over \cup {r} \in SUBSET Requests
    BY <1>a, <1>11, <1>12 DEF Summarize, Text, AfterSave, TypeOK, Summaries, States
  <2> QED BY <1>a, <1>12, <2>1 DEF Summarize, Text, TypeOK
<1>13. ASSUME NEW r \in Requests, SummaryFails(r) \/ SummaryRefused(r) \/ MarkFails(r)
       PROVE  TypeOK'
  <2>1. CASE SummaryFails(r)
    BY <1>a, <2>1 DEF SummaryFails, TypeOK
  <2>2. CASE SummaryRefused(r)
    BY <1>a, <2>2 DEF SummaryRefused, TypeOK
  <2>3. CASE MarkFails(r)
    BY <1>a, <2>3 DEF MarkFails, TypeOK
  <2> QED BY <1>13, <2>1, <2>2, <2>3
<1>14. ASSUME NEW r \in Requests, Select(r)
       PROVE  TypeOK'
  BY <1>a, <1>11, <1>14 DEF Select, AfterSave, TypeOK
<1>15. ASSUME NEW r \in Requests, NEW c \in Convs
       PROVE  Written(r, c) \in Summaries /\ Marked(r, c) \in Summaries
  <2>1. ASSUME NEW old \in Summaries, NEW new \in Summaries, NEW row \in Summaries
        PROVE  Flushed(old, new, row) \in Summaries
    BY DEF Flushed, Summaries
  <2>2. /\ seen[r] \in Summaries /\ summary[c] \in Summaries
        /\ Count(r) \in Nat /\ draft[r] \in SUBSET Requests
    BY <1>a DEF TypeOK, Count, States
  <2>3. /\ [status |-> "current", count |-> Count(r), over |-> draft[r]] \in Summaries
        /\ [status |-> "stale", count |-> Count(r), over |-> {}] \in Summaries
        /\ [seen[r] EXCEPT !.status = "stale"] \in Summaries
    BY <2>2 DEF Summaries
  <2> QED BY <2>1, <2>2, <2>3 DEF Written, Marked
<1>16. ASSUME NEW r \in Requests, CommitSummary(r) \/ CommitMark(r)
       PROVE  TypeOK'
  <2>1. conv[r] \in Convs
    BY <1>11, <1>16 DEF CommitSummary, CommitMark, AfterSave
  <2>2. Written(r, conv[r]) \in Summaries /\ Marked(r, conv[r]) \in Summaries
    BY <1>15, <2>1
  <2>3. CASE CommitSummary(r)
    BY <1>a, <2>2, <2>3 DEF CommitSummary, TypeOK
  <2>4. CASE CommitMark(r)
    BY <1>a, <2>2, <2>4 DEF CommitMark, TypeOK
  <2> QED BY <1>16, <2>3, <2>4
<1>17. ASSUME NEW r \in Requests, Done(r)
       PROVE  TypeOK'
  BY <1>a, <1>17 DEF Done, TypeOK
<1>18. ASSUME NEW c \in Convs, Delete(c)
       PROVE  TypeOK'
  <2>1. <<>> \in Seq(Requests) /\ NoState \in States /\ NoSummary \in Summaries
    BY DEF NoState, States, NoSummary, Summaries
  <2> QED BY <1>a, <1>18, <2>1 DEF Delete, TypeOK
<1>19. ASSUME NEW c \in Convs, Expire(c)
       PROVE  TypeOK'
  BY <1>a, <1>19 DEF Expire, TypeOK
<1>20. CASE UNCHANGED vars
  BY <1>a, <1>20 DEF vars, TypeOK
<1> QED BY <1>1, <1>2, <1>3, <1>4, <1>5, <1>6, <1>8, <1>9, <1>10, <1>12, <1>13,
           <1>14, <1>16, <1>17, <1>18, <1>19, <1>20 DEF Next, Step

(***************************************************************************)
(* The parts of the invariant, under the steps that can disturb them       *)
(***************************************************************************)

(* A request moves on, and nothing else that the invariant speaks of       *)
(* changes but the summary.                                                *)
Moves(r, step) ==
    /\ Go(r, step)
    /\ UNCHANGED <<life, turns, state, entered, conv, answer>>

Ends(r, told) ==
    /\ Finish(r, told)
    /\ UNCHANGED <<life, turns, state, summary, entered, conv>>

(* An await that only moves a request on keeps the invariant.               *)
LEMMA MoveKeeps ==
    ASSUME Inv, NEW r \in Requests, NEW step, Moves(r, step),
           \/ pc[r] \in BeforeSave /\ step \in BeforeSave \cup {"over"}
           \/ pc[r] \in AfterSave /\ step \in AfterSave \cup {"over"},
           step \in {"load", "store"} => conv[r] \in Convs
    PROVE  TurnsStay' /\ StepsAgree'
<1>1. TurnsStay'
  BY DEF Moves, Inv, TurnsStay, Live, Logged
<1>2. StepsAgree'
  BY DEF Moves, Go, Inv, TypeOK, StepsAgree, BeforeSave, AfterSave
<1> QED BY <1>1, <1>2

(* A request that ends, answered or cut off, keeps the invariant.           *)
LEMMA EndKeeps ==
    ASSUME Inv, NEW r \in Requests, NEW told, Ends(r, told),
           told \in {"current", "stale"} => r \in entered
    PROVE  NoOrphans' /\ TurnsStay' /\ StepsAgree'
<1>1. NoOrphans' /\ TurnsStay'
  BY DEF Ends, Inv, NoOrphans, TurnsStay, Live, Logged
<1>2. StepsAgree'
  BY DEF Ends, Finish, Go, Inv, TypeOK, StepsAgree, BeforeSave, AfterSave
<1> QED BY <1>1, <1>2

(* Which steps are such moves and ends.                                    *)
LEMMA PlainSteps ==
    ASSUME Inv, NEW r \in Requests,
           \/ ReadCache(r) \/ LoadHistory(r) \/ StoreHistory(r) \/ ReadState(r)
           \/ Reply(r) \/ Refresh(r) \/ Invalidate(r) \/ Summarize(r)
           \/ SummaryFails(r) \/ Select(r) \/ SummaryRefused(r) \/ MarkFails(r)
           \/ CutOff(r)
    PROVE  UNCHANGED summary /\ TurnsStay' /\ StepsAgree'
<1> USE DEF Moves, BeforeSave, AfterSave, database, locals
<1>0. conv[r] \in Convs \cup {NoConv}
  BY DEF Inv, TypeOK
<1>1. CASE ReadCache(r)
  <2>1. CASE conv[r] # NoConv /\ cache[conv[r]] = NoEntry
    BY <1>0, <1>1, <2>1, MoveKeeps DEF ReadCache
  <2>2. CASE ~(conv[r] # NoConv /\ cache[conv[r]] = NoEntry)
    BY <1>1, <2>2, MoveKeeps DEF ReadCache
  <2> QED BY <2>1, <2>2
<1>2. CASE LoadHistory(r)
  BY <1>2, MoveKeeps DEF LoadHistory, Inv, StepsAgree
<1>3. CASE StoreHistory(r) \/ ReadState(r) \/ Reply(r)
  BY <1>3, MoveKeeps DEF StoreHistory, ReadState, Reply
<1>4. CASE Refresh(r) \/ Invalidate(r) \/ Summarize(r)
  BY <1>4, MoveKeeps DEF Refresh, Invalidate, Summarize
<1>5. CASE SummaryFails(r) \/ SummaryRefused(r) \/ MarkFails(r)
  BY <1>5, MoveKeeps DEF SummaryFails, SummaryRefused, MarkFails
<1>6. CASE Select(r)
  BY <1>6, MoveKeeps DEF Select
<1>7. CASE CutOff(r)
  <2>1. pc[r] \in BeforeSave \cup AfterSave
    BY <1>7 DEF CutOff, InFlight, Inv, TypeOK, Steps
  <2> QED BY <1>7, <2>1, MoveKeeps DEF CutOff
<1> QED BY <1>1, <1>2, <1>3, <1>4, <1>5, <1>6, <1>7

(* Saving: a new turn in a live or new conversation.                       *)
LEMMA SaveKeeps ==
    ASSUME Inv, NEW r \in Requests, NEW c \in Convs, pc[r] = "save", SavedIn(c, r),
           \/ /\ life[c] = "unused"
              /\ life' = [life EXCEPT ![c] = "live"]
              /\ conv' = [conv EXCEPT ![r] = c]
           \/ Live(c) /\ conv[r] = c /\ UNCHANGED <<life, conv>>
    PROVE  NoOrphans' /\ TurnsStay' /\ StepsAgree'
<1>1. /\ turns \in [Convs -> Seq(Requests)] /\ state \in [Convs -> States]
      /\ life \in [Convs -> {"unused", "live", "deleted"}]
      /\ conv \in [Requests -> Convs \cup {NoConv}] /\ pc \in [Requests -> Steps]
      /\ entered \subseteq Requests
  BY DEF Inv, TypeOK
<1>2. /\ turns' = [turns EXCEPT ![c] = Append(@, r)]
      /\ entered' = entered \cup {r} /\ pc' = [pc EXCEPT ![r] = "refresh"]
      /\ summary' = summary /\ answer' = answer
      /\ \A b \in Convs \ {c} : state'[b] = state[b]
  BY <1>1 DEF SavedIn, Transcript, Go
<1>3. life'[c] = "live" /\ conv'[r] = c
  BY <1>1 DEF Live
<1>4. \A b \in Convs \ {c} : life'[b] = life[b] /\ turns'[b] = turns[b]
  BY <1>1, <1>2
<1>5. NoOrphans'
  <2> SUFFICES ASSUME NEW b \in Convs, life'[b] # "live"
               PROVE  turns'[b] = <<>> /\ state'[b] = NoState /\ summary'[b] = NoSummary
    BY DEF NoOrphans, Live
  <2>1. b # c /\ life[b] # "live"
    BY <1>3, <1>4
  <2> QED BY <1>2, <1>4, <2>1 DEF Inv, NoOrphans, Live
<1>6. Logged(c)' = Logged(c) \cup {r}
  <2>1. turns'[c] = Append(turns[c], r) /\ turns[c] \in Seq(Requests)
    BY <1>1, <1>2
  <2> QED BY <2>1, LoggedAppend DEF Logged
<1>7. TurnsStay'
  <2> SUFFICES ASSUME NEW q \in entered'
               PROVE  /\ conv'[q] \in Convs /\ life'[conv'[q]] # "unused"
                      /\ life'[conv'[q]] = "live" => q \in Logged(conv[q])'
    BY DEF TurnsStay, Live
  <2>1. CASE q = r
    BY <1>3, <1>6, <2>1
  <2>2. CASE q # r
    <3>1. q \in entered /\ conv'[q] = conv[q]
      BY <1>1, <1>2, <2>2
    <3>2. CASE conv[q] = c
      BY <1>3, <1>6, <3>1, <3>2 DEF Inv, TurnsStay, Live
    <3>3. CASE conv[q] # c
      BY <1>4, <3>1, <3>3 DEF Inv, TurnsStay, Live, Logged
    <3> QED BY <3>2, <3>3
  <2> QED BY <2>1, <2>2
<1>8. StepsAgree'
  <2>1. \A q \in Requests \ {r} : conv'[q] = conv[q] /\ pc'[q] = pc[q]
    BY <1>1, <1>2
  <2>2. answer[r] = "none"
    BY DEF Inv, StepsAgree
  <2> QED BY <1>1, <1>2, <2>1, <2>2 DEF Inv, StepsAgree, BeforeSave, AfterSave
<1> QED BY <1>5, <1>7, <1>8

(* delete_conversation, with its cascades, keeps the invariant.             *)
LEMMA DeleteKeeps ==
    ASSUME Inv, NEW c \in Convs, Delete(c)
    PROVE  NoOrphans' /\ TurnsStay' /\ StepsAgree'
<1>1. /\ life' = [life EXCEPT ![c] = "deleted"] /\ turns' = [turns EXCEPT ![c] = <<>>]
      /\ state' = [state EXCEPT ![c] = NoState]
      /\ summary' = [summary EXCEPT ![c] = NoSummary]
      /\ UNCHANGED <<entered, pc, conv, answer>>
  BY DEF Delete, locals
<1>2. NoOrphans'
  BY <1>1 DEF Inv, TypeOK, NoOrphans, Live
<1>3. TurnsStay'
  BY <1>1 DEF Inv, TypeOK, TurnsStay, Live, Logged
<1>4. StepsAgree'
  BY <1>1 DEF Inv, StepsAgree
<1> QED BY <1>2, <1>3, <1>4

(* A summary is written only under its conversation.                       *)
LEMMA WriteKeeps ==
    ASSUME Inv, NEW r \in Requests, CommitSummary(r) \/ CommitMark(r)
    PROVE  NoOrphans' /\ TurnsStay' /\ StepsAgree'
<1>1. TurnsStay' /\ StepsAgree'
  BY MoveKeeps DEF CommitSummary, CommitMark, Moves, BeforeSave, AfterSave, locals
<1>2. /\ Live(conv[r]) /\ UNCHANGED <<life, turns, state>>
      /\ \A c \in Convs \ {conv[r]} : summary'[c] = summary[c]
  BY DEF CommitSummary, CommitMark, Writable, Inv, TypeOK
<1>3. NoOrphans'
  BY <1>2 DEF Inv, NoOrphans, Live
<1> QED BY <1>1, <1>3

(* Every step of a request or of its environment keeps the invariant.       *)
LEMMA NextInv ==
    ASSUME Inv, [Next]_vars
    PROVE  Inv'
<1>0. TypeOK'
  BY NextType
<1> DEFINE Rest == NoOrphans /\ TurnsStay /\ StepsAgree
<1> USE DEF database, locals
<1>1. ASSUME NEW r \in Requests, NEW c \in Convs \cup {NoConv}, Accept(r, c)
      PROVE  Rest'
  <2>1. /\ pc[r] = "idle" /\ UNCHANGED <<life, turns, state, summary, entered, cache>>
        /\ conv' = [conv EXCEPT ![r] = c]
        /\ \/ pc' = [pc EXCEPT ![r] = "history"] /\ answer' = answer
           \/ pc' = [pc EXCEPT ![r] = "over"] /\ answer' = [answer EXCEPT ![r] = "error"]
    BY <1>1 DEF Accept, Finish, Go
  <2>2. r \notin entered
    BY <2>1 DEF Inv, StepsAgree, BeforeSave
  <2>3. \A q \in Requests \ {r} : conv'[q] = conv[q] /\ pc'[q] = pc[q] /\ answer'[q] = answer[q]
    BY <2>1 DEF Inv, TypeOK
  <2>4. NoOrphans'
    BY <2>1 DEF Inv, NoOrphans, Live
  <2>5. TurnsStay'
    BY <2>1, <2>2, <2>3 DEF Inv, TypeOK, TurnsStay, Live, Logged
  <2>6. StepsAgree'
    BY <2>1, <2>2, <2>3 DEF Inv, TypeOK, StepsAgree, BeforeSave, AfterSave
  <2> QED BY <2>4, <2>5, <2>6
<1>2. ASSUME NEW r \in Requests,
             \/ ReadCache(r) \/ LoadHistory(r) \/ StoreHistory(r) \/ ReadState(r)
             \/ Reply(r) \/ Refresh(r) \/ Invalidate(r) \/ Summarize(r)
             \/ SummaryFails(r) \/ Select(r) \/ SummaryRefused(r) \/ MarkFails(r)
             \/ CutOff(r)
      PROVE  Rest'
  <2>1. UNCHANGED <<life, turns, state>>
    BY <1>2 DEF ReadCache, LoadHistory, StoreHistory, ReadState, Reply, Refresh, Invalidate,
                Summarize, SummaryFails, Select, SummaryRefused, MarkFails, CutOff
  <2>2. UNCHANGED summary /\ TurnsStay' /\ StepsAgree'
    BY <1>2, PlainSteps
  <2> QED BY <2>1, <2>2 DEF Inv, NoOrphans, Live
<1>3. ASSUME NEW r \in Requests, SaveRefused(r) \/ RefreshRefused(r) \/ ConnectionLost(r)
      PROVE  Rest'
  <2>1. Ends(r, "error")
    BY <1>3 DEF SaveRefused, RefreshRefused, ConnectionLost, Fail, Ends
  <2> QED BY <2>1, EndKeeps
<1>4. ASSUME NEW r \in Requests, Done(r)
      PROVE  Rest'
  <2>1. Ends(r, pc[r]) /\ r \in entered
    BY <1>4 DEF Done, Ends, Inv, StepsAgree, AfterSave
  <2> QED BY <2>1, EndKeeps
<1>5. ASSUME NEW r \in Requests, NEW c \in Convs, SaveFirst(r, c)
      PROVE  Rest'
  BY <1>5, SaveKeeps DEF SaveFirst
<1>6. ASSUME NEW r \in Requests, SaveNext(r)
      PROVE  Rest'
  <2>1. conv[r] \in Convs
    BY <1>6 DEF SaveNext, Inv, TypeOK
  <2> QED BY <1>6, <2>1, SaveKeeps DEF SaveNext
<1>7. ASSUME NEW r \in Requests, CommitSummary(r) \/ CommitMark(r)
      PROVE  Rest'
  BY <1>7, WriteKeeps
<1>8. ASSUME NEW c \in Convs, Delete(c)
      PROVE  Rest'
  BY <1>8, DeleteKeeps
<1>9. ASSUME UNCHANGED <<database, pc, conv, answer>>
      PROVE  Rest'
  BY <1>9 DEF Inv, NoOrphans, TurnsStay, StepsAgree, Live, Logged
<1>10. ASSUME NEW c \in Convs, Expire(c)
       PROVE  Rest'
  BY <1>9, <1>10 DEF Expire
<1>11. ASSUME UNCHANGED vars
       PROVE  Rest'
  BY <1>9, <1>11 DEF vars
<1>12. Rest'
  BY <1>1, <1>2, <1>3, <1>4, <1>5, <1>6, <1>7, <1>8, <1>10, <1>11 DEF Next, Step
<1> QED BY <1>0, <1>12 DEF Inv

(* The invariant holds in every state the chat can reach.                   *)
LEMMA Invariance == Spec => []Inv
BY InitInv, NextInv, PTL DEF Spec

(* Every variable keeps its type.                                          *)
THEOREM TypeCorrect == Spec => []TypeOK
<1>1. Inv => TypeOK
  BY DEF Inv
<1> QED BY <1>1, Invariance, PTL

(* Whatever is deleted while requests are at work leaves nothing behind.   *)
THEOREM NothingIsOrphaned == Spec => []NoOrphans
<1>1. Inv => NoOrphans
  BY DEF Inv
<1> QED BY <1>1, Invariance, PTL

(* An acknowledged turn stays in its conversation.                         *)
THEOREM AcknowledgedStaysSaved == Spec => []AcknowledgedIsSaved
<1>1. Inv => AcknowledgedIsSaved
  BY DEF Inv, StepsAgree, TurnsStay, AcknowledgedIsSaved, Acknowledged
<1> QED BY <1>1, Invariance, PTL

-----------------------------------------------------------------------------
(* Refinement: saving enters a turn, "done" acknowledges it, everything    *)
(* between is a stutter.                                                   *)

(* An empty database is an empty log.                                       *)
LEMMA InitRefines == Init => Log!Init
BY DEF Init, Log!Init, Acknowledged

(* Every step enters, acknowledges or deletes in the log, or stutters.      *)
LEMMA StepRefines ==
    ASSUME Inv, [Next]_vars
    PROVE  [Log!Next]_(Log!vars)
<1> USE DEF database, locals
<1>1. ASSUME NEW r \in Requests, NEW c \in Convs, SaveFirst(r, c)
      PROVE  Log!Enter(c, r)
  <2>1. r \notin entered /\ Acknowledged' = Acknowledged
    BY <1>1 DEF SaveFirst, SavedIn, Transcript, Inv, StepsAgree, BeforeSave, Acknowledged
  <2> QED BY <1>1, <2>1 DEF SaveFirst, SavedIn, Transcript, Log!Enter
<1>2. ASSUME NEW r \in Requests, SaveNext(r)
      PROVE  conv[r] \in Convs /\ Log!Enter(conv[r], r)
  <2>1. r \notin entered /\ Acknowledged' = Acknowledged /\ conv[r] \in Convs
    BY <1>2 DEF SaveNext, SavedIn, Transcript, Inv, TypeOK, StepsAgree, BeforeSave, Acknowledged
  <2>2. life' = [life EXCEPT ![conv[r]] = "live"]
    BY <1>2, <2>1 DEF SaveNext, Live, Inv, TypeOK
  <2> QED BY <1>2, <2>1, <2>2 DEF SaveNext, SavedIn, Transcript, Live, Log!Enter
<1>3. ASSUME NEW r \in Requests, Done(r)
      PROVE  Log!Acknowledge(r)
  <2>1. /\ answer' = [answer EXCEPT ![r] = pc[r]] /\ pc[r] \in {"current", "stale"}
        /\ UNCHANGED <<life, turns, entered>>
    BY <1>3 DEF Done, Finish
  <2>2. r \in entered /\ answer[r] = "none"
    BY <2>1 DEF Inv, TypeOK, StepsAgree, AfterSave
  <2>3. r \notin Acknowledged /\ Acknowledged' = Acknowledged \cup {r}
    BY <2>1, <2>2 DEF Acknowledged, Inv, TypeOK
  <2> QED BY <2>1, <2>2, <2>3 DEF Log!Acknowledge
<1>4. ASSUME NEW c \in Convs, Delete(c)
      PROVE  Log!Delete(c)
  BY <1>4 DEF Delete, Live, Log!Delete, Acknowledged
<1>5. ASSUME UNCHANGED <<life, turns, entered, Acknowledged>>
      PROVE  UNCHANGED Log!vars
  BY <1>5 DEF Log!vars
<1>6. ASSUME NEW r \in Requests, SaveRefused(r) \/ RefreshRefused(r) \/ ConnectionLost(r)
      PROVE  UNCHANGED <<life, turns, entered, Acknowledged>>
  <2>1. /\ answer' = [answer EXCEPT ![r] = "error"] /\ pc[r] # "over"
        /\ UNCHANGED <<life, turns, entered>>
    BY <1>6 DEF SaveRefused, RefreshRefused, ConnectionLost, Fail, Finish
  <2>2. answer[r] = "none"
    BY <2>1 DEF Inv, StepsAgree
  <2> QED BY <2>1, <2>2 DEF Acknowledged, Inv, TypeOK
<1>7. ASSUME NEW r \in Requests, NEW c \in Convs \cup {NoConv}, Accept(r, c)
      PROVE  UNCHANGED <<life, turns, entered, Acknowledged>>
  <2>1. \/ answer' = answer
        \/ answer' = [answer EXCEPT ![r] = "error"] /\ pc[r] = "idle"
    BY <1>7 DEF Accept, Finish
  <2>2. pc[r] = "idle" => answer[r] = "none"
    BY DEF Inv, StepsAgree
  <2> QED BY <1>7, <2>1, <2>2 DEF Accept, Acknowledged, Inv, TypeOK
<1>8. ASSUME NEW r \in Requests,
             \/ ReadCache(r) \/ LoadHistory(r) \/ StoreHistory(r) \/ ReadState(r)
             \/ Reply(r) \/ Refresh(r) \/ Invalidate(r) \/ Summarize(r)
             \/ SummaryFails(r) \/ Select(r) \/ SummaryRefused(r) \/ MarkFails(r)
             \/ CutOff(r) \/ CommitSummary(r) \/ CommitMark(r)
      PROVE  UNCHANGED <<life, turns, entered, Acknowledged>>
  BY <1>8 DEF ReadCache, LoadHistory, StoreHistory, ReadState, Reply, Refresh, Invalidate,
              Summarize, SummaryFails, Select, SummaryRefused, MarkFails, CutOff,
              CommitSummary, CommitMark, Acknowledged
<1>9. ASSUME NEW c \in Convs, Expire(c)
      PROVE  UNCHANGED <<life, turns, entered, Acknowledged>>
  BY <1>9 DEF Expire, Acknowledged
<1>10. ASSUME UNCHANGED vars
       PROVE  UNCHANGED <<life, turns, entered, Acknowledged>>
  BY <1>10 DEF vars, Acknowledged
<1> QED BY <1>1, <1>2, <1>3, <1>4, <1>5, <1>6, <1>7, <1>8, <1>9, <1>10
        DEF Next, Step, Log!Next

(* The chat implements the log its clients may rely on.                    *)
THEOREM RefinesTurnLog == Spec => ImplementsTurnLog
BY InitRefines, StepRefines, Invariance, PTL DEF Spec, Log!Spec, ImplementsTurnLog

-----------------------------------------------------------------------------
(* What overlap may drop *)

(* Each of the first n turns of t that over lacks was passed by a turn in   *)
(* over that had been under way when it was saved.                          *)
Passed(t, over, n, before) ==
    \A i \in 1..n : t[i] \notin over =>
        \E j \in 1..n : j > i /\ t[j] \in over /\ before[t[j]] < i

(* The turns of a conversation are those of its requests that were saved.   *)
Owned(c) == \A r \in Logged(c) : r \in entered /\ conv[r] = c

(* A conversation without a row was never named to a request.               *)
Known(r) == conv[r] \in Convs => life[conv[r]] # "unused"

(* What a request has read, until it saves.                                 *)
ReadEarlier(r) ==
    pc[r] \in {"reply", "save"} =>
        IF conv[r] = NoConv THEN saved[r] = 0
        ELSE Live(conv[r]) =>
               /\ saved[r] <= Len(turns[conv[r]])
               /\ Passed(turns[conv[r]], base[r].over, saved[r], saved)

AllPassed(c) == Passed(turns[c], state[c].over, Len(turns[c]), saved)

OverlapInv ==
    /\ \A c \in Convs : Owned(c) /\ AllPassed(c)
    /\ \A r \in Requests : Known(r) /\ ReadEarlier(r)

(* Only the reading of turns that are in the log matters.                   *)
LEMMA PassedFrame ==
    ASSUME NEW t \in Seq(Requests), NEW over, NEW n \in Nat, n <= Len(t),
           NEW before, NEW after,
           \A i \in 1..Len(t) : after[t[i]] = before[t[i]],
           Passed(t, over, n, before)
    PROVE  Passed(t, over, n, after)
BY DEF Passed

(* A turn that is saved passes every turn saved since it read the state.    *)
LEMMA PassedAppend ==
    ASSUME NEW t \in Seq(Requests), NEW over, NEW n \in Nat, n <= Len(t),
           NEW before \in [Requests -> Nat], NEW r \in Requests, before[r] = n,
           Passed(t, over, n, before)
    PROVE  Passed(Append(t, r), over \cup {r}, Len(Append(t, r)), before)
<1> DEFINE a == Append(t, r)
<1>1. /\ Len(a) = Len(t) + 1 /\ Len(t) \in Nat /\ a[Len(t) + 1] = r
      /\ \A i \in 1..Len(t) : a[i] = t[i]
  OBVIOUS
<1> HIDE DEF a
<1>2. SUFFICES ASSUME NEW i \in 1..(Len(t) + 1), a[i] \notin over \cup {r}
               PROVE  \E j \in 1..(Len(t) + 1) :
                         j > i /\ a[j] \in over \cup {r} /\ before[a[j]] < i
  BY <1>1 DEF Passed, a
<1>3. i \in 1..Len(t) /\ a[i] = t[i]
  BY <1>1, <1>2
<1>4. CASE i <= n
  <2>1. PICK j \in 1..n : j > i /\ t[j] \in over /\ before[t[j]] < i
    BY <1>2, <1>3, <1>4 DEF Passed
  <2>2. j \in 1..(Len(t) + 1) /\ a[j] = t[j]
    BY SMTT(30), <1>1, <2>1
  <2> QED BY <2>1, <2>2
<1>5. CASE i > n
  <2>1. Len(t) + 1 \in 1..(Len(t) + 1) /\ Len(t) + 1 > i
    BY <1>1, <1>3
  <2> QED BY <1>1, <1>5, <2>1
<1> QED BY <1>3, <1>4, <1>5

(* Nothing has been saved.                                                  *)
LEMMA InitOverlap == Init => OverlapInv
BY NoConvAssumption DEF Init, OverlapInv, Owned, Logged, AllPassed, Passed, ReadEarlier, Known

(* A step that leaves the logs, the states and what was read alone, and     *)
(* brings no request to where what it has read matters.                     *)
LEMMA OverlapFrame ==
    ASSUME OverlapInv, NEW r \in Requests,
           UNCHANGED <<life, turns, state, entered, conv, base, saved>>,
           \A q \in Requests : pc'[q] \in {"reply", "save"} => pc[q] \in {"reply", "save"}
    PROVE  OverlapInv'
BY DEF OverlapInv, Owned, Logged, AllPassed, ReadEarlier, Known, Live

(* Saving keeps the invariant.                                              *)
LEMMA SaveOverlap ==
    ASSUME Inv, OverlapInv, NEW r \in Requests, NEW c \in Convs, pc[r] = "save",
           SavedIn(c, r),
           \/ /\ conv[r] = NoConv /\ life[c] = "unused"
              /\ life' = [life EXCEPT ![c] = "live"]
              /\ conv' = [conv EXCEPT ![r] = c]
           \/ Live(c) /\ conv[r] = c /\ UNCHANGED <<life, conv>>
    PROVE  OverlapInv'
<1>1. /\ turns \in [Convs -> Seq(Requests)] /\ state \in [Convs -> States]
      /\ conv \in [Requests -> Convs \cup {NoConv}] /\ pc \in [Requests -> Steps]
      /\ saved \in [Requests -> Nat] /\ base \in [Requests -> States]
      /\ life \in [Convs -> {"unused", "live", "deleted"}]
  BY DEF Inv, TypeOK
<1>2. /\ turns' = [turns EXCEPT ![c] = Append(@, r)]
      /\ state' = [state EXCEPT ![c] = NewState(r)]
      /\ entered' = entered \cup {r} /\ pc' = [pc EXCEPT ![r] = "refresh"]
      /\ UNCHANGED <<base, saved>>
  BY <1>1 DEF SavedIn, Transcript, Go
<1>3. /\ turns'[c] = Append(turns[c], r) /\ state'[c].over = base[r].over \cup {r}
      /\ turns[c] \in Seq(Requests) /\ conv'[r] = c
      /\ \A b \in Convs \ {c} : turns'[b] = turns[b] /\ state'[b] = state[b]
      /\ \A q \in Requests \ {r} : conv'[q] = conv[q] /\ pc'[q] = pc[q]
  BY <1>1, <1>2 DEF NewState
<1>4. r \notin entered
  BY DEF Inv, StepsAgree, BeforeSave
<1>5. /\ saved[r] \in Nat /\ saved[r] <= Len(turns[c])
      /\ Passed(turns[c], base[r].over, saved[r], saved)
  <2>1. CASE conv[r] = NoConv
    <3>1. saved[r] = 0 /\ turns[c] = <<>>
      BY <2>1, NoConvAssumption DEF OverlapInv, ReadEarlier, Inv, NoOrphans, Live
    <3> QED BY <3>1 DEF Passed
  <2>2. CASE conv[r] = c /\ Live(c)
    BY <1>1, <2>2, NoConvAssumption DEF OverlapInv, ReadEarlier
  <2> QED BY <2>1, <2>2
<1>6. Logged(c)' = Logged(c) \cup {r}
  BY <1>3, LoggedAppend DEF Logged
<1>7. ASSUME NEW b \in Convs
      PROVE  Owned(b)'
  <2>1. Logged(b) \subseteq entered /\ \A q \in Logged(b) : conv[q] = b
    BY DEF OverlapInv, Owned
  <2>2. entered \subseteq Requests
    BY DEF Inv, TypeOK
  <2>3. CASE b = c
    BY <1>2, <1>3, <1>4, <1>6, <2>1, <2>2, <2>3 DEF Owned
  <2>4. CASE b # c
    <3>1. Logged(b)' = Logged(b)
      BY <1>3, <2>4 DEF Logged
    <3> QED BY <1>2, <1>3, <1>4, <2>1, <2>2, <3>1 DEF Owned
  <2> QED BY <2>3, <2>4
<1>8. ASSUME NEW b \in Convs
      PROVE  AllPassed(b)'
  <2>1. CASE b = c
    <3>1. Passed(Append(turns[c], r), base[r].over \cup {r}, Len(Append(turns[c], r)), saved)
      BY <1>1, <1>3, <1>5, PassedAppend
    <3>2. Passed(turns'[c], state'[c].over, Len(turns'[c]), saved)
      BY <1>3, <3>1
    <3> QED BY <1>2, <2>1, <3>2 DEF AllPassed
  <2>2. CASE b # c
    BY <1>2, <1>3, <2>2 DEF AllPassed, OverlapInv
  <2> QED BY <2>1, <2>2
<1>9. ASSUME NEW q \in Requests
      PROVE  ReadEarlier(q)'
  <2>1. SUFFICES ASSUME q # r, pc[q] \in {"reply", "save"}
                 PROVE  ReadEarlier(q)'
    BY <1>1, <1>2 DEF ReadEarlier
  <2>2. conv'[q] = conv[q] /\ ReadEarlier(q)
    BY <1>3, <2>1 DEF OverlapInv
  <2>3. CASE conv[q] = NoConv
    BY <1>2, <2>1, <2>2, <2>3 DEF ReadEarlier
  <2>4. CASE conv[q] = c /\ Live(c)
    <3>1. /\ saved[q] <= Len(turns[c]) /\ saved[q] \in Nat
          /\ Passed(turns[c], base[q].over, saved[q], saved)
      BY <1>1, <2>1, <2>2, <2>4, NoConvAssumption DEF ReadEarlier
    <3>2. /\ Len(turns'[c]) = Len(turns[c]) + 1 /\ Len(turns[c]) \in Nat
          /\ \A i \in 1..Len(turns[c]) : turns'[c][i] = turns[c][i]
      BY <1>3
    <3>3. Passed(turns'[c], base[q].over, saved[q], saved)
      <4>1. \A i \in 1..saved[q] : i \in 1..Len(turns[c]) /\ turns'[c][i] = turns[c][i]
        BY <3>1, <3>2
      <4>2. ASSUME NEW i \in 1..saved[q], turns'[c][i] \notin base[q].over
            PROVE  \E j \in 1..saved[q] :
                     j > i /\ turns'[c][j] \in base[q].over /\ saved[turns'[c][j]] < i
        <5>1. PICK j \in 1..saved[q] :
                     j > i /\ turns[c][j] \in base[q].over /\ saved[turns[c][j]] < i
          BY <3>1, <4>1, <4>2 DEF Passed
        <5> QED BY <4>1, <5>1
      <4> QED BY <4>2 DEF Passed
    <3>4. saved[q] <= Len(turns'[c])
      BY <3>1, <3>2
    <3> QED BY <1>2, <2>2, <2>4, <3>3, <3>4 DEF ReadEarlier
  <2>5. CASE conv[q] = c /\ ~Live(c)
    <3>1. life[c] = "unused"
      BY <2>5 DEF Live
    <3> QED BY <2>5, <3>1 DEF OverlapInv, Known
  <2>6. CASE conv[q] \in Convs \ {c}
    <3>1. turns'[conv[q]] = turns[conv[q]] /\ life'[conv[q]] = life[conv[q]]
      BY <1>1, <1>3, <2>6
    <3> QED BY <1>2, <2>1, <2>2, <2>6, <3>1 DEF ReadEarlier, Live
  <2> QED BY <1>1, <2>3, <2>4, <2>5, <2>6
<1>10. ASSUME NEW q \in Requests
       PROVE  Known(q)'
  <2>1. life'[c] = "live" /\ \A b \in Convs \ {c} : life'[b] = life[b]
    BY <1>1 DEF Live
  <2>2. CASE q = r
    BY <1>3, <2>1, <2>2 DEF Known
  <2>3. CASE q # r
    BY <1>3, <2>1, <2>3 DEF Known, OverlapInv
  <2> QED BY <2>2, <2>3
<1> QED BY <1>7, <1>8, <1>9, <1>10 DEF OverlapInv

(* Reading the state keeps the invariant: what it lacks was passed already. *)
LEMMA ReadOverlap ==
    ASSUME Inv, OverlapInv, NEW r \in Requests, ReadState(r)
    PROVE  OverlapInv'
<1>1. /\ turns \in [Convs -> Seq(Requests)] /\ state \in [Convs -> States]
      /\ conv \in [Requests -> Convs \cup {NoConv}] /\ pc \in [Requests -> Steps]
      /\ saved \in [Requests -> Nat] /\ base \in [Requests -> States]
  BY DEF Inv, TypeOK
<1>2. /\ UNCHANGED <<life, turns, state, entered, conv>>
      /\ pc' = [pc EXCEPT ![r] = "reply"]
      /\ base' = [base EXCEPT ![r] = IF conv[r] = NoConv THEN NoState ELSE state[conv[r]]]
      /\ saved' = [saved EXCEPT ![r] = IF conv[r] = NoConv THEN 0 ELSE Len(turns[conv[r]])]
  BY DEF ReadState, Go, database
<1>3. r \notin entered
  BY DEF ReadState, Inv, StepsAgree, BeforeSave
<1>4. ASSUME NEW c \in Convs, NEW i \in 1..Len(turns[c])
      PROVE  turns[c][i] # r /\ saved'[turns[c][i]] = saved[turns[c][i]]
  <2>1. turns[c][i] \in Logged(c) /\ turns[c][i] \in Requests
    BY <1>1, <1>4 DEF Logged
  <2>2. turns[c][i] # r
    BY <1>3, <2>1 DEF OverlapInv, Owned
  <2> QED BY <1>1, <1>2, <2>1, <2>2
<1>5. ASSUME NEW c \in Convs, NEW over, NEW n \in Nat, n <= Len(turns[c]),
             Passed(turns[c], over, n, saved)
      PROVE  Passed(turns[c], over, n, saved')
  BY <1>1, <1>4, <1>5, PassedFrame
<1>6. ASSUME NEW c \in Convs
      PROVE  Owned(c)' /\ AllPassed(c)'
  <2>1. Passed(turns[c], state[c].over, Len(turns[c]), saved)
    BY DEF OverlapInv, AllPassed
  <2>2. Len(turns[c]) \in Nat /\ Len(turns[c]) <= Len(turns[c])
    BY <1>1
  <2>3. Passed(turns[c], state[c].over, Len(turns[c]), saved')
    BY <1>5, <2>1, <2>2, Zenon
  <2>4. Owned(c)'
    BY <1>2 DEF OverlapInv, Owned, Logged
  <2> QED BY <1>2, <2>3, <2>4 DEF AllPassed
<1>7. ASSUME NEW q \in Requests
      PROVE  ReadEarlier(q)'
  <2>1. CASE q = r
    <3>1. CASE conv[r] = NoConv
      BY <1>1, <1>2, <2>1, <3>1 DEF ReadEarlier
    <3>2. CASE conv[r] \in Convs
      <4>1. saved'[r] = Len(turns[conv[r]]) /\ base'[r] = state[conv[r]]
        BY <1>1, <1>2, <3>2, NoConvAssumption
      <4>2. /\ Len(turns[conv[r]]) \in Nat
            /\ Passed(turns[conv[r]], state[conv[r]].over, Len(turns[conv[r]]), saved)
        BY <1>1, <3>2 DEF OverlapInv, AllPassed
      <4>3. Passed(turns[conv[r]], state[conv[r]].over, Len(turns[conv[r]]), saved')
        BY SMTT(30), <1>5, <3>2, <4>2
      <4>4. /\ Passed(turns[conv[r]], base'[r].over, saved'[r], saved')
            /\ saved'[r] <= Len(turns[conv[r]])
        BY <4>1, <4>2, <4>3
      <4> QED BY <1>2, <2>1, <3>2, <4>4, NoConvAssumption DEF ReadEarlier
    <3> QED BY <1>1, <3>1, <3>2
  <2>2. CASE q # r
    <3>1. saved'[q] = saved[q] /\ base'[q] = base[q] /\ pc'[q] = pc[q] /\ saved[q] \in Nat
      BY <1>1, <1>2, <2>2
    <3>2. ReadEarlier(q)
      BY DEF OverlapInv
    <3>3. CASE conv[q] = NoConv
      BY <1>2, <3>1, <3>2, <3>3 DEF ReadEarlier
    <3>4. CASE conv[q] \in Convs
      BY <1>2, <1>5, <3>1, <3>2, <3>4, NoConvAssumption DEF ReadEarlier, Live
    <3> QED BY <1>1, <3>3, <3>4
  <2> QED BY <2>1, <2>2
<1>8. ASSUME NEW q \in Requests
      PROVE  Known(q)'
  BY <1>2 DEF Known, OverlapInv
<1> QED BY <1>6, <1>7, <1>8 DEF OverlapInv

(* Every step keeps the invariant of overlap.                               *)
LEMMA NextOverlap ==
    ASSUME Inv, OverlapInv, [Next]_vars
    PROVE  OverlapInv'
<1> USE DEF database, locals
<1>0. pc \in [Requests -> Steps] /\ conv \in [Requests -> Convs \cup {NoConv}]
  BY DEF Inv, TypeOK
<1>1. ASSUME NEW r \in Requests, NEW c \in Convs \cup {NoConv}, Accept(r, c)
      PROVE  OverlapInv'
  <2>1. /\ pc[r] = "idle" /\ pc'[r] \in {"history", "over"}
        /\ UNCHANGED <<life, turns, state, entered, base, saved>>
        /\ conv' = [conv EXCEPT ![r] = c]
        /\ \A q \in Requests \ {r} : pc'[q] = pc[q]
        /\ c # NoConv => life[c] # "unused"
    BY <1>0, <1>1 DEF Accept, Finish, Go
  <2>2. r \notin entered
    BY <2>1 DEF Inv, StepsAgree, BeforeSave
  <2>3. \A q \in Requests \ {r} : conv'[q] = conv[q]
    BY <1>0, <2>1
  <2>4. entered \subseteq Requests
    BY DEF Inv, TypeOK
  <2>5. \A b \in Convs : Owned(b)' /\ AllPassed(b)'
    BY <2>1, <2>2, <2>3, <2>4 DEF OverlapInv, Owned, Logged, AllPassed
  <2>6. ASSUME NEW q \in Requests
        PROVE  Known(q)' /\ ReadEarlier(q)'
    <3>1. CASE q = r
      <4>1. conv'[r] = c
        BY <1>0, <2>1
      <4> QED BY <2>1, <3>1, <4>1, NoConvAssumption DEF Known, ReadEarlier
    <3>2. CASE q # r
      BY <2>1, <2>3, <3>2 DEF OverlapInv, Known, ReadEarlier, Live
    <3> QED BY <3>1, <3>2
  <2> QED BY <2>5, <2>6 DEF OverlapInv
<1>2. ASSUME NEW r \in Requests,
             \/ ReadCache(r) \/ LoadHistory(r) \/ StoreHistory(r)
             \/ Reply(r) \/ Refresh(r) \/ Invalidate(r) \/ Summarize(r)
             \/ SummaryFails(r) \/ Select(r) \/ SummaryRefused(r) \/ MarkFails(r)
             \/ CutOff(r) \/ SaveRefused(r) \/ RefreshRefused(r) \/ ConnectionLost(r)
             \/ Done(r) \/ CommitSummary(r) \/ CommitMark(r)
      PROVE  OverlapInv'
  <2>1. UNCHANGED <<life, turns, state, entered, conv, base, saved>>
    BY <1>2 DEF ReadCache, LoadHistory, StoreHistory, Reply, Refresh, Invalidate,
       Summarize, SummaryFails, Select, SummaryRefused, MarkFails, CutOff, SaveRefused,
       RefreshRefused, ConnectionLost, Fail, Done, CommitSummary, CommitMark
  <2>2. /\ \A q \in Requests \ {r} : pc'[q] = pc[q]
        /\ pc'[r] \in {"reply", "save"} => pc[r] \in {"reply", "save"}
    BY <1>0, <1>2 DEF ReadCache, LoadHistory, StoreHistory, Reply, Refresh, Invalidate,
       Summarize, SummaryFails, Select, SummaryRefused, MarkFails, CutOff, SaveRefused,
       RefreshRefused, ConnectionLost, Fail, Done, CommitSummary, CommitMark, Finish, Go
  <2> QED BY <2>1, <2>2, OverlapFrame
<1>3. ASSUME NEW r \in Requests, ReadState(r)
      PROVE  OverlapInv'
  BY <1>3, ReadOverlap
<1>4. ASSUME NEW r \in Requests, NEW c \in Convs, SaveFirst(r, c)
      PROVE  OverlapInv'
  BY <1>4, SaveOverlap DEF SaveFirst
<1>5. ASSUME NEW r \in Requests, SaveNext(r)
      PROVE  OverlapInv'
  <2>1. conv[r] \in Convs
    BY <1>0, <1>5 DEF SaveNext
  <2> QED BY <1>5, <2>1, SaveOverlap DEF SaveNext
<1>6. ASSUME NEW c \in Convs, Delete(c)
      PROVE  OverlapInv'
  <2>1. /\ life' = [life EXCEPT ![c] = "deleted"] /\ turns' = [turns EXCEPT ![c] = <<>>]
        /\ state' = [state EXCEPT ![c] = NoState]
        /\ UNCHANGED <<entered, pc, conv, base, saved>>
    BY <1>6 DEF Delete
  <2>2. /\ turns'[c] = <<>> /\ life'[c] = "deleted"
        /\ \A b \in Convs \ {c} : /\ turns'[b] = turns[b] /\ state'[b] = state[b]
                                  /\ life'[b] = life[b]
    BY <2>1 DEF Inv, TypeOK
  <2>3. \A b \in Convs : Owned(b)'
    BY <2>1, <2>2 DEF OverlapInv, Owned, Logged
  <2>4. ASSUME NEW b \in Convs
        PROVE  AllPassed(b)'
    BY <2>1, <2>2 DEF OverlapInv, AllPassed, Passed
  <2>5. ASSUME NEW q \in Requests
        PROVE  Known(q)' /\ ReadEarlier(q)'
    BY <1>0, <2>1, <2>2 DEF OverlapInv, Known, ReadEarlier, Live
  <2> QED BY <2>3, <2>4, <2>5 DEF OverlapInv
<1>7. ASSUME UNCHANGED <<life, turns, state, entered, conv, base, saved, pc>>
      PROVE  OverlapInv'
  BY <1>7 DEF OverlapInv, Owned, Logged, AllPassed, ReadEarlier, Known, Live
<1>8. ASSUME NEW c \in Convs, Expire(c)
      PROVE  OverlapInv'
  BY <1>7, <1>8 DEF Expire
<1>9. ASSUME UNCHANGED vars
      PROVE  OverlapInv'
  BY <1>7, <1>9 DEF vars
<1> QED BY <1>1, <1>2, <1>3, <1>4, <1>5, <1>6, <1>8, <1>9 DEF Next, Step

(* The invariant of overlap holds in every state the chat can reach.        *)
LEMMA OverlapInvariance == Spec => []OverlapInv
BY InitOverlap, NextOverlap, Invariance, PTL DEF Spec

(* A saved turn is missing from the working state only where a later turn   *)
(* was under way when it was saved.                                         *)
THEOREM OverlapAloneDropsTurns == Spec => []OnlyOverlapDropsTurns
<1>1. Inv /\ OverlapInv => OnlyOverlapDropsTurns
  <2>1. ASSUME Inv, OverlapInv, NEW c \in Convs
        PROVE  DOMAIN turns[c] = 1..Len(turns[c])
    BY <2>1 DEF Inv, TypeOK
  <2> QED BY <2>1 DEF OverlapInv, AllPassed, Passed, OnlyOverlapDropsTurns
<1> QED BY <1>1, Invariance, OverlapInvariance, PTL

-----------------------------------------------------------------------------
(* Where the client waits for its answers *)

Alone(c) ==
    \A q, r \in Requests :
        InFlight(q) /\ InFlight(r) /\ conv[q] = c /\ conv[r] = c => q = r

Whole(c) == [count |-> Len(turns[c]), over |-> Logged(c)]
Full(c) == [status |-> "current", count |-> Len(turns[c]), over |-> Logged(c)]

Last(c) == turns[c][Len(turns[c])]

(* The rows of a conversation whose client waits.                           *)
RowsWhole(c) ==
    c \notin crowded =>
        /\ Alone(c)
        /\ state[c] = Whole(c)
        /\ summary[c].over \subseteq Logged(c)
        /\ turns[c] # <<>> /\ answer[Last(c)] = "current" => summary[c] = Full(c)

(* What its one request at work has in hand.                                *)
InHand(r) ==
    LET c == conv[r]
    IN  /\ pc[r] \in {"reply", "save"} /\ c = NoConv => base[r] = NoState
        /\ c \in Convs \ crowded /\ Live(c) =>
              /\ pc[r] \in {"reply", "save"} => base[r] = state[c]
              /\ pc[r] \in AfterSave =>
                    /\ turns[c] # <<>> /\ Last(c) = r
                    /\ Count(r) = Len(turns[c])
                    /\ base[r].over \cup {r} = Logged(c)
              /\ pc[r] \in {"select", "commit"} => draft[r] = Logged(c)
              /\ pc[r] \in {"commit", "marking"} => seen[r] = summary[c]
              /\ pc[r] = "current" => summary[c] = Full(c)

WaitInv ==
    /\ \A c \in Convs : RowsWhole(c)
    /\ \A r \in Requests : InHand(r)

All == Inv /\ OverlapInv /\ WaitInv

(* Nothing has been asked.                                                  *)
LEMMA InitWait == Init => WaitInv
<1> SUFFICES ASSUME Init PROVE WaitInv
  OBVIOUS
<1>1. ASSUME NEW c \in Convs
      PROVE  RowsWhole(c)
  <2>1. /\ turns[c] = <<>> /\ state[c] = NoState /\ summary[c] = NoSummary
        /\ \A r \in Requests : ~InFlight(r)
    BY DEF Init, InFlight
  <2>2. Len(<<>>) = 0 /\ DOMAIN <<>> = {}
    OBVIOUS
  <2>3. Logged(c) = {}
    BY <2>1, <2>2 DEF Logged
  <2> QED BY <2>1, <2>2, <2>3 DEF RowsWhole, Alone, Whole, NoState, NoSummary
<1>2. ASSUME NEW r \in Requests
      PROVE  InHand(r)
  BY DEF Init, InHand, AfterSave
<1> QED BY <1>1, <1>2 DEF WaitInv

(* What the rows of a conversation are typed as.                            *)
LEMMA WaitTypes ==
    ASSUME Inv
    PROVE  /\ turns \in [Convs -> Seq(Requests)] /\ state \in [Convs -> States]
           /\ summary \in [Convs -> Summaries]
           /\ life \in [Convs -> {"unused", "live", "deleted"}]
           /\ pc \in [Requests -> Steps] /\ conv \in [Requests -> Convs \cup {NoConv}]
           /\ base \in [Requests -> States] /\ saved \in [Requests -> Nat]
           /\ draft \in [Requests -> SUBSET Requests] /\ seen \in [Requests -> Summaries]
           /\ answer \in [Requests -> Answers] /\ entered \in SUBSET Requests
           /\ crowded \in SUBSET Convs
BY DEF Inv, TypeOK

(* A request at work in a conversation whose client waits is alone there.   *)
LEMMA OthersElsewhere ==
    ASSUME All, NEW r \in Requests, NEW q \in Requests \ {r}, InFlight(r),
           conv[r] \in Convs \ crowded, conv[q] = conv[r]
    PROVE  ~InFlight(q)
BY DEF All, WaitInv, RowsWhole, Alone

(* A step of one request that writes no row but the summary of its own      *)
(* conversation leaves what the others have in hand.                        *)
LEMMA OthersKeep ==
    ASSUME All, NEW r \in Requests, InFlight(r),
           UNCHANGED <<life, turns, state, crowded, conv>>,
           \A c \in Convs : c # conv[r] => summary'[c] = summary[c],
           NEW q \in Requests, q # r,
           pc'[q] = pc[q], base'[q] = base[q], draft'[q] = draft[q], seen'[q] = seen[q]
    PROVE  InHand(q)'
<1>1. InHand(q)
  BY DEF All, WaitInv
<1>2. CASE conv[q] = conv[r] /\ conv[r] \in Convs \ crowded
  <2>1. ~InFlight(q)
    BY <1>2, OthersElsewhere
  <2> QED BY <2>1 DEF InFlight, InHand, AfterSave
<1>3. CASE conv[q] \in Convs /\ conv[q] # conv[r]
  BY <1>1, <1>3 DEF InHand, Count, Last, Logged, Full, Live
<1>4. CASE conv[q] \notin Convs \ crowded
  BY <1>1, <1>4 DEF InHand
<1> QED BY <1>2, <1>3, <1>4

(* A step in one conversation leaves the rows of the others.                *)
LEMMA RowsElsewhere ==
    ASSUME All, NEW r \in Requests, InFlight(r),
           UNCHANGED <<life, turns, state, crowded, conv, answer>>,
           \A q \in Requests \ {r} : pc'[q] = pc[q],
           NEW c \in Convs, summary'[c] = summary[c]
    PROVE  RowsWhole(c)'
<1>1. \A q \in Requests : InFlight(q)' => InFlight(q)
  BY DEF InFlight
<1>2. Alone(c) => Alone(c)'
  BY <1>1 DEF Alone
<1>3. /\ Whole(c)' = Whole(c) /\ Full(c)' = Full(c) /\ Logged(c)' = Logged(c)
      /\ answer'[Last(c)'] = answer[Last(c)]
  BY DEF Whole, Full, Last, Logged
<1> QED BY <1>2, <1>3 DEF All, WaitInv, RowsWhole

(* A step that writes no row and answers nobody leaves all rows.            *)
LEMMA RowsKeep ==
    ASSUME All, NEW r \in Requests, InFlight(r),
           UNCHANGED <<life, turns, state, summary, crowded, conv, answer>>,
           \A q \in Requests \ {r} : pc'[q] = pc[q]
    PROVE  \A c \in Convs : RowsWhole(c)'
BY RowsElsewhere

(* Awaits before the turn is saved.                                         *)
LEMMA EarlySteps ==
    ASSUME All, NEW r \in Requests,
           ReadCache(r) \/ LoadHistory(r) \/ StoreHistory(r) \/ ReadState(r) \/ Reply(r)
    PROVE  WaitInv'
<1>1. /\ InFlight(r) /\ UNCHANGED <<life, turns, state, summary, crowded, conv, answer>>
      /\ \A q \in Requests \ {r} :
           pc'[q] = pc[q] /\ base'[q] = base[q] /\ draft'[q] = draft[q] /\ seen'[q] = seen[q]
  BY WaitTypes DEF All, ReadCache, LoadHistory, StoreHistory, ReadState, Reply, Go, database,
                   locals, InFlight
<1>2. InHand(r)'
  <2>1. pc \in [Requests -> Steps] /\ base \in [Requests -> States]
    BY WaitTypes DEF All
  <2>2. CASE ReadState(r)
    BY <2>1, <2>2, NoConvAssumption DEF ReadState, Go, database, InHand, Live, AfterSave
  <2>3. CASE Reply(r)
    <3>1. InHand(r)
      BY DEF All, WaitInv
    <3> QED BY <2>1, <2>3, <3>1 DEF Reply, Go, database, locals, InHand, Live, AfterSave
  <2>4. CASE ReadCache(r) \/ LoadHistory(r) \/ StoreHistory(r)
    <3>1. pc'[r] \in {"load", "state", "store"}
      BY <2>1, <2>4 DEF ReadCache, LoadHistory, StoreHistory, Go
    <3> QED BY <3>1 DEF InHand, AfterSave
  <2> QED BY <2>2, <2>3, <2>4
<1>3. \A q \in Requests : InHand(q)'
  BY <1>1, <1>2, OthersKeep
<1>4. \A c \in Convs : RowsWhole(c)'
  BY <1>1, RowsKeep
<1> QED BY <1>3, <1>4 DEF WaitInv

(* Awaits after it, but for the writing of the summary.                     *)
LEMMA LateSteps ==
    ASSUME All, NEW r \in Requests,
           \/ Refresh(r) \/ Invalidate(r) \/ Summarize(r) \/ SummaryFails(r) \/ Select(r)
           \/ SummaryRefused(r) \/ MarkFails(r) \/ CutOff(r)
    PROVE  WaitInv'
<1>1. /\ InFlight(r) /\ UNCHANGED <<life, turns, state, summary, crowded, conv, answer, base>>
      /\ \A q \in Requests \ {r} :
           pc'[q] = pc[q] /\ base'[q] = base[q] /\ draft'[q] = draft[q] /\ seen'[q] = seen[q]
  BY WaitTypes DEF All, Refresh, Invalidate, Summarize, SummaryFails, Select, SummaryRefused,
                   MarkFails, CutOff, Go, database, locals, InFlight
<1>2. pc \in [Requests -> Steps] /\ draft \in [Requests -> SUBSET Requests]
      /\ seen \in [Requests -> Summaries]
  BY WaitTypes DEF All
<1>3. InHand(r)
  BY DEF All, WaitInv
<1>4. CASE CutOff(r)
  <2>1. InHand(r)'
    BY <1>2, <1>4 DEF CutOff, Go, InHand, AfterSave
  <2> QED BY <1>1, <2>1, OthersKeep, RowsKeep DEF WaitInv
<1>5. CASE Summarize(r)
  <2>1. /\ pc[r] = "summarize" /\ pc'[r] = "select"
        /\ draft'[r] = summary[conv[r]].over \cup base[r].over \cup {r}
    BY <1>2, <1>5 DEF Summarize, Go, Text
  <2>2. conv[r] \in Convs \ crowded => summary[conv[r]].over \subseteq Logged(conv[r])
    BY DEF All, WaitInv, RowsWhole
  <2>3. InHand(r)'
    BY <1>1, <1>3, <2>1, <2>2
       DEF InHand, AfterSave, Live, Last, Logged, Count, Full
  <2> QED BY <1>1, <2>3, OthersKeep, RowsKeep DEF WaitInv
<1>6. CASE Select(r)
  <2>1. /\ \/ pc[r] = "select" /\ pc'[r] = "commit"
           \/ pc[r] = "mark" /\ pc'[r] = "marking"
        /\ seen'[r] = summary[conv[r]] /\ draft' = draft
    BY <1>2, <1>6 DEF Select, Go
  <2>2. InHand(r)'
    BY <1>1, <1>3, <2>1 DEF InHand, AfterSave, Live, Last, Logged, Count, Full
  <2> QED BY <1>1, <2>2, OthersKeep, RowsKeep DEF WaitInv
<1>7. CASE Refresh(r) \/ Invalidate(r) \/ SummaryFails(r) \/ SummaryRefused(r) \/ MarkFails(r)
  <2>1. /\ pc[r] \in AfterSave
        /\ pc'[r] \in {"invalidate", "summarize", "mark", "stale"}
    BY <1>2, <1>7 DEF Refresh, Invalidate, SummaryFails, SummaryRefused, MarkFails, Go,
                      AfterSave
  <2>2. InHand(r)'
    BY <1>1, <1>3, <2>1 DEF InHand, AfterSave, Live, Last, Logged, Count, Full
  <2> QED BY <1>1, <2>2, OthersKeep, RowsKeep DEF WaitInv
<1> QED BY <1>4, <1>5, <1>6, <1>7

(* Saving a turn.                                                           *)
LEMMA SaveWhole ==
    ASSUME All, NEW r \in Requests, NEW c \in Convs, pc[r] = "save", SavedIn(c, r),
           \/ /\ conv[r] = NoConv /\ life[c] = "unused"
              /\ life' = [life EXCEPT ![c] = "live"]
              /\ conv' = [conv EXCEPT ![r] = c]
           \/ Live(c) /\ conv[r] = c /\ UNCHANGED <<life, conv>>
    PROVE  WaitInv'
<1>1. /\ turns \in [Convs -> Seq(Requests)] /\ state \in [Convs -> States]
      /\ conv \in [Requests -> Convs \cup {NoConv}] /\ pc \in [Requests -> Steps]
      /\ base \in [Requests -> States]
      /\ life \in [Convs -> {"unused", "live", "deleted"}]
  BY WaitTypes DEF All
<1>2. /\ turns' = [turns EXCEPT ![c] = Append(@, r)]
      /\ state' = [state EXCEPT ![c] = NewState(r)]
      /\ pc' = [pc EXCEPT ![r] = "refresh"]
      /\ UNCHANGED <<summary, crowded, base, draft, seen, answer>>
  BY <1>1 DEF SavedIn, Transcript, Go
<1>3. /\ turns'[c] = Append(turns[c], r) /\ state'[c] = NewState(r)
      /\ turns[c] \in Seq(Requests) /\ conv'[r] = c /\ pc'[r] = "refresh"
      /\ \A b \in Convs \ {c} : turns'[b] = turns[b] /\ state'[b] = state[b]
      /\ \A q \in Requests \ {r} : conv'[q] = conv[q] /\ pc'[q] = pc[q]
  BY <1>1, <1>2
<1>4. life'[c] = "live" /\ \A b \in Convs \ {c} : life'[b] = life[b]
  BY <1>1 DEF Live
<1>5. Logged(c)' = Logged(c) \cup {r} /\ \A b \in Convs \ {c} : Logged(b)' = Logged(b)
  BY SMTT(30), <1>3, LoggedAppend DEF Logged
<1>6. /\ Len(turns'[c]) = Len(turns[c]) + 1 /\ turns'[c] # <<>> /\ Last(c)' = r
      /\ Len(turns[c]) \in Nat
  BY <1>3 DEF Last
<1>7. answer[r] = "none"
  BY DEF All, Inv, StepsAgree
\* the others of the conversation, if its client waits, are not at work
<1>8. ASSUME NEW q \in Requests \ {r}, c \notin crowded, conv[q] = c
      PROVE  ~InFlight(q)
  <2>1. CASE conv[r] = c
    BY <1>8, <2>1, OthersElsewhere DEF InFlight
  <2>2. CASE life[c] = "unused"
    BY <1>8, <2>2 DEF All, OverlapInv, Known
  <2> QED BY <2>1, <2>2
\* what the request has read is the row it replaces
<1>9. c \notin crowded => base[r] = Whole(c)
  <2> SUFFICES ASSUME c \notin crowded PROVE base[r] = Whole(c)
    OBVIOUS
  <2>1. state[c] = Whole(c) /\ InHand(r)
    BY DEF All, WaitInv, RowsWhole
  <2>2. CASE conv[r] = NoConv /\ life[c] = "unused"
    <3>1. base[r] = NoState /\ state[c] = NoState
      BY <2>1, <2>2 DEF InHand, All, Inv, NoOrphans, Live
    <3> QED BY <2>1, <3>1
  <2>3. CASE conv[r] = c /\ Live(c)
    BY <2>1, <2>3 DEF InHand
  <2> QED BY <2>2, <2>3
<1>10. c \notin crowded =>
         /\ Count(r) = Len(turns'[c]) /\ base[r].over \cup {r} = Logged(c)'
         /\ NewState(r) = Whole(c)'
  <2> SUFFICES ASSUME c \notin crowded
               PROVE  /\ Count(r) = Len(turns'[c]) /\ base[r].over \cup {r} = Logged(c)'
                      /\ NewState(r) = Whole(c)'
    OBVIOUS
  <2>1. base[r].count = Len(turns[c]) /\ base[r].over = Logged(c)
    BY <1>9 DEF Whole
  <2>2. Count(r) = Len(turns'[c]) /\ base[r].over \cup {r} = Logged(c)'
    BY <1>5, <1>6, <2>1 DEF Count
  <2>3. Whole(c)' = [count |-> Len(turns'[c]), over |-> Logged(c)']
    BY DEF Whole
  <2> QED BY <2>2, <2>3 DEF NewState
<1>11. ASSUME NEW q \in Requests
       PROVE  InHand(q)'
  <2>1. CASE q = r
    BY <1>2, <1>3, <1>6, <1>10, <2>1, NoConvAssumption
       DEF InHand, AfterSave, Count, Last, Live
  <2>2. CASE q # r /\ conv[q] = c
    <3>1. CASE c \in crowded
      BY <1>2, <1>3, <2>2, <3>1, NoConvAssumption DEF InHand
    <3>2. CASE c \notin crowded
      <4>1. ~InFlight(q)
        BY <1>8, <2>2, <3>2
      <4>2. pc'[q] = pc[q]
        BY <1>3, <2>2
      <4> QED BY <4>1, <4>2 DEF InFlight, InHand, AfterSave
    <3> QED BY <3>1, <3>2
  <2>3. CASE q # r /\ conv[q] # c
    <3>1. InHand(q) /\ conv'[q] = conv[q] /\ pc'[q] = pc[q]
      BY <1>3, <2>3 DEF All, WaitInv
    <3>2. conv[q] \in Convs =>
            /\ turns'[conv[q]] = turns[conv[q]] /\ state'[conv[q]] = state[conv[q]]
            /\ life'[conv[q]] = life[conv[q]]
      BY <1>3, <1>4, <2>3
    <3>3. UNCHANGED <<summary, crowded, base, draft, seen>>
      BY <1>2
    <3>4. CASE conv[q] \in Convs
      <4> DEFINE b == conv[q]
      <4>1. /\ turns'[b] = turns[b] /\ state'[b] = state[b] /\ life'[b] = life[b]
            /\ summary'[b] = summary[b] /\ crowded' = crowded /\ conv'[q] = b
            /\ Logged(b)' = Logged(b) /\ Last(b)' = Last(b) /\ Full(b)' = Full(b)
            /\ Count(q)' = Count(q) /\ Live(b)' = Live(b)
        BY <3>2, <3>1, <3>3, <3>4 DEF Count, Last, Logged, Full, Live
      <4> QED BY <3>1, <3>3, <4>1 DEF InHand
    <3>5. CASE conv[q] \notin Convs
      BY <3>1, <3>3, <3>5 DEF InHand
    <3> QED BY <3>4, <3>5
  <2> QED BY <2>1, <2>2, <2>3
<1>12. ASSUME NEW b \in Convs, b \notin crowded
       PROVE  Alone(b)'
  <2>1. Alone(b)
    BY <1>12 DEF All, WaitInv, RowsWhole
  <2>2. CASE b = c
    BY <1>3, <1>8, <1>12, <2>2 DEF Alone, InFlight
  <2>3. CASE b # c
    <3>1. \A q \in Requests : conv'[q] = b => q # r /\ conv[q] = b /\ pc'[q] = pc[q]
      BY <1>3, <2>3
    <3> QED BY <2>1, <3>1 DEF Alone, InFlight
  <2> QED BY <2>2, <2>3
<1>13. ASSUME NEW b \in Convs
       PROVE  RowsWhole(b)'
  <2> SUFFICES ASSUME b \notin crowded PROVE RowsWhole(b)'
    BY <1>2 DEF RowsWhole
  <2>1. RowsWhole(b) /\ Alone(b)'
    BY <1>12 DEF All, WaitInv
  <2>2. CASE b = c
    <3>1. state'[c] = Whole(c)' /\ summary'[c] = summary[c]
      BY <1>2, <1>3, <1>10, <2>2
    <3>2. summary[c].over \subseteq Logged(c)'
      BY <1>5, <2>1, <2>2 DEF RowsWhole
    <3>3. answer'[Last(c)'] # "current"
      BY <1>2, <1>6, <1>7
    <3> QED BY <2>1, <2>2, <3>1, <3>2, <3>3 DEF RowsWhole
  <2>3. CASE b # c
    <3>1. turns'[b] = turns[b] /\ state'[b] = state[b] /\ Logged(b)' = Logged(b)
      BY <1>3, <1>5, <2>3
    <3> QED BY <1>2, <2>1, <3>1 DEF RowsWhole, Whole, Full, Last
  <2> QED BY <2>2, <2>3
<1> QED BY <1>11, <1>13 DEF WaitInv

(* Writing the summary, or the mark that it is stale.                       *)
LEMMA WriteWhole ==
    ASSUME All, NEW r \in Requests, CommitSummary(r) \/ CommitMark(r)
    PROVE  WaitInv'
<1> DEFINE c == conv[r]
<1>1. /\ InFlight(r) /\ pc[r] \in {"commit", "marking"}
      /\ UNCHANGED <<life, turns, state, crowded, conv, answer, base, draft, seen>>
      /\ \A q \in Requests \ {r} : pc'[q] = pc[q]
      /\ Live(c) /\ \A b \in Convs : b # c => summary'[b] = summary[b]
  BY WaitTypes DEF All, CommitSummary, CommitMark, Writable, Go, locals, InFlight
<1>2. c \in Convs
  BY <1>1 DEF All, Inv, StepsAgree, TurnsStay, AfterSave
<1>3. summary \in [Convs -> Summaries] /\ pc \in [Requests -> Steps]
      /\ seen[r] \in Summaries /\ Count(r) \in Nat /\ draft[r] \in SUBSET Requests
      /\ Len(turns[c]) \in Nat
  BY <1>2, WaitTypes DEF All, States, Count
<1>4. InHand(r) /\ RowsWhole(c)
  BY <1>2 DEF All, WaitInv
<1>5. c \notin crowded => /\ turns[c] # <<>> /\ Last(c) = r /\ Count(r) = Len(turns[c])
                          /\ seen[r] = summary[c] /\ summary[c].over \subseteq Logged(c)
                          /\ pc[r] = "commit" => draft[r] = Logged(c)
  BY <1>1, <1>2, <1>4 DEF InHand, RowsWhole, AfterSave
<1>6. answer[r] = "none"
  BY <1>1 DEF All, Inv, StepsAgree
<1>7. ASSUME NEW old \in Summaries, NEW new \in Summaries
      PROVE  Flushed(old, new, old) = new
  <2>1. DOMAIN old = DOMAIN new
    BY DEF Summaries
  <2>2. new = [f \in DOMAIN new |-> new[f]]
    BY DEF Summaries
  <2> QED BY <2>1, <2>2 DEF Flushed
<1>8. CASE CommitSummary(r)
  <2>1. c \notin crowded => summary'[c] = Full(c)
    <3>1. [status |-> "current", count |-> Count(r), over |-> draft[r]] \in Summaries
      BY <1>3 DEF Summaries
    <3>2. summary'[c] = Written(r, c) /\ pc[r] = "commit"
      BY <1>2, <1>3, <1>8 DEF CommitSummary
    <3> QED BY <1>3, <1>5, <1>7, <3>1, <3>2 DEF Written, Full
  <2>2. pc'[r] = "current"
    BY <1>3, <1>8 DEF CommitSummary, Go
  <2>3. InHand(r)'
    BY <1>1, <1>4, <2>1, <2>2 DEF InHand, AfterSave, Last, Logged, Full, Count
  <2>4. RowsWhole(c)'
    <3>1. \A q \in Requests : InFlight(q)' => InFlight(q)
      BY <1>1 DEF InFlight
    <3>2. c \notin crowded => Alone(c)'
      BY <1>1, <1>4, <3>1 DEF RowsWhole, Alone
    <3>3. c \notin crowded => summary'[c].over \subseteq Logged(c)
      BY <2>1 DEF Full
    <3> QED BY <1>1, <1>4, <2>1, <3>2, <3>3 DEF RowsWhole, Whole, Full, Last, Logged
  <2> QED BY <1>1, <2>3, <2>4, OthersKeep, RowsElsewhere DEF WaitInv
<1>9. CASE CommitMark(r)
  <2>1. c \notin crowded => summary'[c].over \subseteq Logged(c)
    <3>1. summary'[c] = Marked(r, c)
      BY <1>2, <1>3, <1>9 DEF CommitMark
    <3> DEFINE first == [status |-> "stale", count |-> Count(r), over |-> {}]
               again == [seen[r] EXCEPT !.status = "stale"]
    <3>2. /\ first \in Summaries /\ first.over = {}
          /\ again \in Summaries /\ again.over = seen[r].over
      BY <1>3 DEF Summaries
    <3> HIDE DEF first, again
    <3>3. c \notin crowded => Flushed(seen[r], first, summary[c]) = first
      BY <1>3, <1>5, <1>7, <3>2
    <3>4. c \notin crowded => Flushed(seen[r], again, summary[c]) = again
      BY <1>3, <1>5, <1>7, <3>2
    <3>5. summary'[c] = Flushed(seen[r], first, summary[c])
          \/ summary'[c] = Flushed(seen[r], again, summary[c])
      BY <3>1 DEF Marked, first, again
    <3> QED BY <1>5, <3>2, <3>3, <3>4, <3>5
  <2>2. pc'[r] = "stale"
    BY <1>3, <1>9 DEF CommitMark, Go
  <2>3. InHand(r)'
    BY <1>1, <1>4, <2>2 DEF InHand, AfterSave, Last, Logged, Full, Count
  <2>4. RowsWhole(c)'
    <3>1. \A q \in Requests : InFlight(q)' => InFlight(q)
      BY <1>1 DEF InFlight
    <3>2. c \notin crowded => Alone(c)'
      BY <1>1, <1>4, <3>1 DEF RowsWhole, Alone
    <3>3. c \notin crowded => answer'[Last(c)'] # "current"
      BY <1>1, <1>5, <1>6 DEF Last
    <3> QED BY <1>1, <1>4, <2>1, <3>2, <3>3 DEF RowsWhole, Whole, Full, Last, Logged
  <2> QED BY <1>1, <2>3, <2>4, OthersKeep, RowsElsewhere DEF WaitInv
<1> QED BY <1>8, <1>9

(* Answering.                                                               *)
LEMMA EndWhole ==
    ASSUME All, NEW r \in Requests,
           SaveRefused(r) \/ RefreshRefused(r) \/ ConnectionLost(r) \/ Done(r)
    PROVE  WaitInv'
<1>1. /\ InFlight(r) /\ pc' = [pc EXCEPT ![r] = "over"]
      /\ UNCHANGED <<life, turns, state, summary, crowded, conv, base, draft, seen>>
      /\ \/ answer' = [answer EXCEPT ![r] = "error"]
         \/ answer' = [answer EXCEPT ![r] = pc[r]]
  BY DEF SaveRefused, RefreshRefused, ConnectionLost, Done, Fail, Finish, Go, database,
         locals, InFlight
<1>2. /\ \A q \in Requests \ {r} : pc'[q] = pc[q] /\ answer'[q] = answer[q]
      /\ pc'[r] = "over"
      /\ answer'[r] = "current" => pc[r] = "current"
  BY <1>1, WaitTypes DEF All
<1>3. InHand(r)'
  BY <1>2 DEF InHand, AfterSave
<1>4. ASSUME NEW q \in Requests, q # r
      PROVE  InHand(q)'
  <2>1. pc'[q] = pc[q] /\ base'[q] = base[q] /\ draft'[q] = draft[q] /\ seen'[q] = seen[q]
    BY <1>1, <1>2, <1>4
  <2>2. \A c \in Convs : c # conv[r] => summary'[c] = summary[c]
    BY <1>1
  <2> QED BY <1>1, <1>4, <2>1, <2>2, OthersKeep
<1>5. ASSUME NEW c \in Convs, c \notin crowded
      PROVE  RowsWhole(c)'
  <2>1. RowsWhole(c)
    BY DEF All, WaitInv
  <2>2. Alone(c)'
    BY <1>1, <1>2, <1>5, <2>1 DEF RowsWhole, Alone, InFlight
  <2>3. /\ Whole(c)' = Whole(c) /\ Full(c)' = Full(c) /\ Logged(c)' = Logged(c)
        /\ Last(c)' = Last(c)
    BY <1>1 DEF Whole, Full, Last, Logged
  <2>4. ASSUME turns[c] # <<>>, answer'[Last(c)] = "current"
        PROVE  summary[c] = Full(c)
    <3>1. Last(c) \in Logged(c) /\ Last(c) \in Requests
      <4>1. turns[c] \in Seq(Requests)
        BY WaitTypes DEF All
      <4>2. Len(turns[c]) \in DOMAIN turns[c]
        BY <2>4, <4>1
      <4> QED BY <4>1, <4>2 DEF Last, Logged
    <3>2. CASE Last(c) = r
      <4>1. conv[r] = c
        BY <3>1, <3>2 DEF All, OverlapInv, Owned
      <4>2. pc[r] = "current"
        BY <1>2, <2>4, <3>2
      <4>3. Live(c)
        BY <2>4 DEF All, Inv, NoOrphans
      <4> QED BY <1>5, <4>1, <4>2, <4>3 DEF All, WaitInv, InHand
    <3>3. CASE Last(c) # r
      <4>1. answer[Last(c)] = "current"
        BY <1>2, <2>4, <3>1, <3>3
      <4> QED BY <1>5, <2>1, <2>4, <4>1 DEF RowsWhole
    <3> QED BY <3>2, <3>3
  <2> QED BY <1>1, <1>5, <2>1, <2>2, <2>3, <2>4 DEF RowsWhole
<1> QED BY <1>1, <1>3, <1>4, <1>5 DEF WaitInv, RowsWhole

(* A new request: where another is at work the client did not wait.         *)
LEMMA AcceptWhole ==
    ASSUME All, NEW r \in Requests, NEW d \in Convs \cup {NoConv}, Accept(r, d)
    PROVE  WaitInv'
<1>1. /\ pc[r] = "idle" /\ answer[r] = "none"
      /\ UNCHANGED <<life, turns, state, summary, base, draft, seen>>
      /\ crowded' = crowded \cup {c \in Convs : c = d /\ Busy(d)}
  BY DEF Accept, All, Inv, StepsAgree
<1>2. /\ conv'[r] = d /\ \A q \in Requests \ {r} : conv'[q] = conv[q]
      /\ pc'[r] \in {"over", "history"} /\ \A q \in Requests \ {r} : pc'[q] = pc[q]
      /\ answer'[r] # "current" /\ \A q \in Requests \ {r} : answer'[q] = answer[q]
  <2>1. /\ pc \in [Requests -> Steps] /\ answer \in [Requests -> Answers]
        /\ conv \in [Requests -> Convs \cup {NoConv}]
    BY WaitTypes DEF All
  <2>2. CASE d # NoConv /\ ~Live(d)
    BY <1>1, <2>1, <2>2 DEF Accept, Finish, Go
  <2>3. CASE ~(d # NoConv /\ ~Live(d))
    BY <1>1, <2>1, <2>3 DEF Accept, Go
  <2> QED BY <2>2, <2>3
<1>3. ASSUME NEW q \in Requests
      PROVE  InHand(q)'
  <2>1. CASE q = r
    BY <1>2, <2>1 DEF InHand, AfterSave
  <2>2. CASE q # r
    <3>1. InHand(q) /\ conv'[q] = conv[q] /\ pc'[q] = pc[q]
      BY <1>2, <2>2 DEF All, WaitInv
    <3>2. crowded \subseteq crowded'
      BY <1>1
    <3> QED BY <1>1, <3>1, <3>2 DEF InHand, Count, Last, Logged, Full, Live
  <2> QED BY <2>1, <2>2
<1>4. ASSUME NEW c \in Convs, c \notin crowded'
      PROVE  RowsWhole(c)'
  <2>1. c \notin crowded /\ RowsWhole(c) /\ (c = d => ~Busy(d))
    BY <1>1, <1>4 DEF All, WaitInv
  <2>2. Alone(c)'
    <3>1. CASE c = d
      <4>1. \A q \in Requests : conv[q] = c => ~InFlight(q)
        BY <2>1, <3>1 DEF Busy
      <4>2. \A q \in Requests \ {r} : conv'[q] = c => ~InFlight(q)'
        BY <1>2, <4>1 DEF InFlight
      <4> QED BY <4>2 DEF Alone
    <3>2. CASE c # d
      <4>1. \A q \in Requests : conv'[q] = c => q # r /\ conv[q] = c /\ pc'[q] = pc[q]
        BY <1>2, <3>2
      <4> QED BY <2>1, <4>1 DEF RowsWhole, Alone, InFlight
    <3> QED BY <3>1, <3>2
  <2>3. /\ Whole(c)' = Whole(c) /\ Full(c)' = Full(c) /\ Logged(c)' = Logged(c)
        /\ Last(c)' = Last(c)
    BY <1>1 DEF Whole, Full, Last, Logged
  <2>4. turns[c] # <<>> /\ answer'[Last(c)] = "current" => answer[Last(c)] = "current"
    <3>1. turns[c] # <<>> => Last(c) \in Requests
      BY WaitTypes DEF All, Last
    <3> QED BY <1>2, <3>1
  <2> QED BY <1>1, <2>1, <2>2, <2>3, <2>4 DEF RowsWhole
<1> QED BY <1>3, <1>4 DEF WaitInv, RowsWhole

(* Deleting a conversation.                                                 *)
LEMMA DeleteWhole ==
    ASSUME All, NEW d \in Convs, Delete(d)
    PROVE  WaitInv'
<1>1. /\ life' = [life EXCEPT ![d] = "deleted"] /\ turns' = [turns EXCEPT ![d] = <<>>]
      /\ state' = [state EXCEPT ![d] = NoState]
      /\ summary' = [summary EXCEPT ![d] = NoSummary]
      /\ UNCHANGED <<crowded, pc, conv, base, draft, seen, answer>>
  BY DEF Delete, locals
<1>2. /\ life'[d] = "deleted" /\ turns'[d] = <<>> /\ state'[d] = NoState
      /\ summary'[d] = NoSummary
      /\ \A c \in Convs \ {d} : /\ life'[c] = life[c] /\ turns'[c] = turns[c]
                                /\ state'[c] = state[c] /\ summary'[c] = summary[c]
  BY <1>1, WaitTypes DEF All
<1>3. \A c \in Convs : Alone(c) => Alone(c)'
  BY <1>1 DEF Alone, InFlight
<1>4. ASSUME NEW c \in Convs \ {d}
      PROVE  /\ Logged(c)' = Logged(c) /\ Last(c)' = Last(c) /\ Full(c)' = Full(c)
             /\ Whole(c)' = Whole(c) /\ Live(c)' = Live(c)
  BY <1>2 DEF Logged, Last, Full, Whole, Live
<1>5. ASSUME NEW c \in Convs, c \notin crowded
      PROVE  RowsWhole(c)'
  <2>1. RowsWhole(c) /\ Alone(c)'
    BY <1>3, <1>5 DEF All, WaitInv, RowsWhole
  <2>2. CASE c = d
    <3>1. Len(turns'[c]) = 0 /\ Logged(c)' = {}
      BY <1>2, <2>2 DEF Logged
    <3>2. Whole(c)' = [count |-> Len(turns'[c]), over |-> Logged(c)']
      BY DEF Whole
    <3>3. state'[c] = Whole(c)' /\ summary'[c].over \subseteq Logged(c)'
      BY <1>2, <2>2, <3>1, <3>2 DEF NoState, NoSummary
    <3> QED BY <1>2, <2>1, <2>2, <3>3 DEF RowsWhole
  <2>3. CASE c # d
    BY <1>1, <1>2, <1>4, <2>1, <2>3 DEF RowsWhole
  <2> QED BY <2>2, <2>3
<1>6. ASSUME NEW q \in Requests
      PROVE  InHand(q)'
  <2>1. InHand(q)
    BY DEF All, WaitInv
  <2>2. CASE conv[q] = d
    <3>1. ~Live(d)' /\ d # NoConv
      BY <1>2, NoConvAssumption DEF Live
    <3> QED BY <1>1, <2>2, <3>1 DEF InHand
  <2>3. CASE conv[q] \in Convs \ {d}
    <3>1. Count(q)' = Count(q)
      BY <1>1 DEF Count
    <3> QED BY <1>1, <1>2, <1>4, <2>1, <2>3, <3>1 DEF InHand
  <2>4. CASE conv[q] \notin Convs
    BY <1>1, <2>1, <2>4 DEF InHand
  <2> QED BY <2>2, <2>3, <2>4
<1> QED BY <1>1, <1>5, <1>6 DEF WaitInv, RowsWhole

(* Each step keeps it.                                                      *)
LEMMA NextWait ==
    ASSUME All, [Next]_vars
    PROVE  WaitInv'
<1>1. ASSUME NEW r \in Requests, NEW c \in Convs, SaveFirst(r, c)
      PROVE  WaitInv'
  BY <1>1, SaveWhole DEF SaveFirst
<1>2. ASSUME NEW r \in Requests, SaveNext(r)
      PROVE  WaitInv'
  <2>1. conv[r] \in Convs
    BY <1>2, WaitTypes DEF All, SaveNext
  <2> QED BY <1>2, <2>1, SaveWhole DEF SaveNext
<1>3. ASSUME UNCHANGED <<life, turns, state, summary, crowded, pc, conv, base, draft,
                         seen, answer>>
      PROVE  WaitInv'
  <2>1. ASSUME NEW c \in Convs
        PROVE  RowsWhole(c)'
    BY <1>3 DEF All, WaitInv, RowsWhole, Alone, InFlight, Whole, Full, Last, Logged
  <2>2. ASSUME NEW q \in Requests
        PROVE  InHand(q)'
    <3>1. InHand(q)
      BY DEF All, WaitInv
    <3>2. \A c \in Convs : /\ Logged(c)' = Logged(c) /\ Last(c)' = Last(c)
                           /\ Full(c)' = Full(c) /\ Live(c)' = Live(c)
      BY <1>3 DEF Last, Logged, Full, Live
    <3>3. Count(q)' = Count(q)
      BY <1>3 DEF Count
    <3> QED BY <1>3, <3>1, <3>2, <3>3 DEF InHand
  <2> QED BY <2>1, <2>2 DEF WaitInv
<1>4. ASSUME NEW c \in Convs, Expire(c)
      PROVE  WaitInv'
  BY <1>3, <1>4 DEF Expire, database, locals
<1>5. ASSUME UNCHANGED vars
      PROVE  WaitInv'
  BY <1>3, <1>5 DEF vars, database, locals
<1> QED BY <1>1, <1>2, <1>4, <1>5, EarlySteps, LateSteps, WriteWhole, EndWhole,
           AcceptWhole, DeleteWhole DEF Next, Step

(* Both invariants hold in every state the chat can reach.                  *)
LEMMA WaitInvariance == Spec => []All
BY InitInv, InitOverlap, InitWait, NextInv, NextOverlap, NextWait, PTL DEF Spec, All

(* Where the client waits for its answers the working state is made from    *)
(* every saved turn.                                                        *)
THEOREM WaitingKeepsStateComplete == Spec => []StateIsComplete
<1>1. All => StateIsComplete
  BY DEF All, WaitInv, RowsWhole, Whole, StateIsComplete
<1> QED BY <1>1, WaitInvariance, PTL

(* In such a conversation a summary reported as current covers every turn.  *)
THEOREM WaitingKeepsSummaryCurrent == Spec => []CurrentSummaryIsCurrent
<1>1. All => CurrentSummaryIsCurrent
  BY DEF All, WaitInv, RowsWhole, Full, Last, CurrentSummaryIsCurrent
<1> QED BY <1>1, WaitInvariance, PTL

-----------------------------------------------------------------------------
(* The way to the end *)

(* The most steps a request still has before it.                           *)
Left ==
    [idle |-> 15, history |-> 14, load |-> 13, store |-> 12, state |-> 11, reply |-> 10,
     save |-> 9, refresh |-> 8, invalidate |-> 7, summarize |-> 6, select |-> 5,
     commit |-> 4, mark |-> 3, marking |-> 2, current |-> 1, stale |-> 1, over |-> 0]

(* A request goes forward, and a step of its own is a step forward.        *)
Forward(r) == pc'[r] # pc[r] => Left[pc'[r]] < Left[pc[r]]

OnlyForward ==
    \A r \in Requests :
        /\ Forward(r)
        /\ Step(r) \/ ConnectionLost(r) \/ CutOff(r) => pc'[r] # pc[r]

(* One request moves, to one of the steps that follow.                     *)
LEMMA Moving ==
    ASSUME TypeOK, NEW r \in Requests,
           \/ \E c \in Convs \cup {NoConv} : Accept(r, c)
           \/ Step(r) \/ ConnectionLost(r) \/ CutOff(r)
    PROVE  /\ Left[pc'[r]] < Left[pc[r]]
           /\ \A q \in Requests \ {r} : pc'[q] = pc[q]
<1>1. ASSUME NEW c \in Convs \cup {NoConv}, Accept(r, c)
      PROVE  pc[r] = "idle" /\ \E to \in {"history", "over"} : Go(r, to)
  BY <1>1 DEF Accept, Finish
<1>2. ASSUME ReadCache(r) \/ LoadHistory(r) \/ StoreHistory(r) \/ ReadState(r) \/ Reply(r)
      PROVE  \/ pc[r] = "history" /\ \E to \in {"load", "state"} : Go(r, to)
             \/ pc[r] = "load" /\ Go(r, "store")
             \/ pc[r] = "store" /\ Go(r, "state")
             \/ pc[r] = "state" /\ Go(r, "reply")
             \/ pc[r] = "reply" /\ Go(r, "save")
  BY <1>2 DEF ReadCache, LoadHistory, StoreHistory, ReadState, Reply
<1>3. ASSUME \/ (\E c \in Convs : SaveFirst(r, c)) \/ SaveNext(r) \/ SaveRefused(r)
             \/ Refresh(r) \/ RefreshRefused(r) \/ Invalidate(r)
      PROVE  \/ pc[r] = "save" /\ \E to \in {"refresh", "over"} : Go(r, to)
             \/ pc[r] = "refresh" /\ \E to \in {"invalidate", "over"} : Go(r, to)
             \/ pc[r] = "invalidate" /\ Go(r, "summarize")
  BY <1>3 DEF SaveFirst, SaveNext, SaveRefused, SavedIn, Refresh, RefreshRefused, Invalidate,
              Fail, Finish
<1>4. ASSUME Summarize(r) \/ SummaryFails(r) \/ Select(r) \/ CommitSummary(r) \/ SummaryRefused(r)
      PROVE  \/ pc[r] = "summarize" /\ \E to \in {"select", "mark"} : Go(r, to)
             \/ pc[r] = "select" /\ \E to \in {"commit", "mark"} : Go(r, to)
             \/ pc[r] = "mark" /\ Go(r, "marking")
             \/ pc[r] = "commit" /\ \E to \in {"current", "mark"} : Go(r, to)
  BY <1>4 DEF Summarize, SummaryFails, Select, CommitSummary, SummaryRefused
<1>5. ASSUME CommitMark(r) \/ MarkFails(r) \/ Done(r)
      PROVE  \/ pc[r] = "marking" /\ Go(r, "stale")
             \/ pc[r] = "mark" /\ Go(r, "stale")
             \/ pc[r] \in {"current", "stale"} /\ Go(r, "over")
  BY <1>5 DEF CommitMark, MarkFails, Done, Finish
<1>6. ASSUME ConnectionLost(r) \/ CutOff(r)
      PROVE  pc[r] \in Steps \ {"idle", "over"} /\ Go(r, "over")
  BY <1>6 DEF ConnectionLost, CutOff, InFlight, Fail, Finish, TypeOK
<1>7. ASSUME NEW to, Go(r, to)
      PROVE  pc'[r] = to /\ \A q \in Requests \ {r} : pc'[q] = pc[q]
  BY <1>7 DEF Go, TypeOK
<1> QED BY <1>1, <1>2, <1>3, <1>4, <1>5, <1>6, <1>7 DEF Step, Steps, Left

(* A request passes each of its steps at most once, whatever fails: it     *)
(* calls each provider, writes each row and answers at most once, and is   *)
(* over after at most fifteen steps.                                       *)
THEOREM RequestsOnlyGoForward == Spec => [][OnlyForward]_vars
<1>1. ASSUME TypeOK, Next
      PROVE  OnlyForward
  <2>1. ASSUME NEW r \in Requests, Step(r) \/ ConnectionLost(r) \/ CutOff(r)
        PROVE  pc'[r] # pc[r]
    <3>1. Left[pc'[r]] < Left[pc[r]] /\ pc[r] \in Steps
      BY <1>1, <2>1, Moving DEF TypeOK
    <3> QED BY <3>1 DEF Left, Steps
  <2>2. ASSUME NEW r \in Requests
        PROVE  Forward(r)
    <3>1. CASE \E c \in Convs : Delete(c) \/ Expire(c)
      BY <3>1 DEF Delete, Expire, Forward
    <3>2. CASE ~ \E c \in Convs : Delete(c) \/ Expire(c)
      BY <1>1, <3>2, Moving DEF Next, Forward
    <3> QED BY <3>1, <3>2
  <2> QED BY <2>1, <2>2 DEF OnlyForward
<1> QED BY <1>1, TypeCorrect, PTL DEF Spec

(* Once the saved messages are read back, no step answers with an error.   *)
ReadBack == AfterSave \ {"refresh"}

SavedIsTold == \A r \in Requests : pc[r] \in ReadBack => answer'[r] # "error"

(* Whatever fails after the refresh of a saved turn, and whatever others do *)
(* meanwhile, the client is not told of an error (save_conversation).       *)
THEOREM SavedIsNeverAnError == Spec => [][SavedIsTold]_vars
<1>1. ASSUME Inv, Next, NEW r \in Requests, pc[r] \in ReadBack
      PROVE  answer'[r] # "error"
  <2>1. answer[r] = "none" /\ answer \in [Requests -> Answers]
    BY <1>1 DEF Inv, TypeOK, StepsAgree, ReadBack, AfterSave
  <2>2. ASSUME NEW q \in Requests, NEW told, Finish(q, told), q = r => told # "error"
        PROVE  answer'[r] # "error"
    BY <2>1, <2>2 DEF Finish
  <2>3. ASSUME NEW q \in Requests, Fail(q), pc[q] \in {"history", "load", "state", "reply", "save", "refresh"}
        PROVE  answer'[r] # "error"
    BY <1>1, <2>2, <2>3 DEF Fail, ReadBack, AfterSave
  <2>4. ASSUME NEW q \in Requests, NEW c \in Convs \cup {NoConv}, Accept(q, c)
        PROVE  answer'[r] # "error"
    BY <1>1, <2>1, <2>2, <2>4 DEF Accept, ReadBack, AfterSave
  <2>5. ASSUME NEW q \in Requests,
               \/ SaveRefused(q) \/ RefreshRefused(q) \/ ConnectionLost(q) \/ Done(q)
        PROVE  answer'[r] # "error"
    BY <2>2, <2>3, <2>5 DEF SaveRefused, RefreshRefused, ConnectionLost, Done
  <2>6. ASSUME NEW q \in Requests,
               \/ ReadCache(q) \/ LoadHistory(q) \/ StoreHistory(q) \/ ReadState(q) \/ Reply(q)
               \/ (\E c \in Convs : SaveFirst(q, c)) \/ SaveNext(q) \/ Refresh(q) \/ Invalidate(q)
               \/ Summarize(q) \/ SummaryFails(q) \/ Select(q) \/ CommitSummary(q)
               \/ SummaryRefused(q) \/ CommitMark(q) \/ MarkFails(q) \/ CutOff(q)
        PROVE  answer' = answer
    BY <2>6 DEF ReadCache, LoadHistory, StoreHistory, ReadState, Reply, SaveFirst, SaveNext,
       SavedIn, Refresh, Invalidate, Summarize, SummaryFails, Select, CommitSummary,
       SummaryRefused, CommitMark, MarkFails, CutOff
  <2>7. ASSUME NEW c \in Convs, Delete(c) \/ Expire(c)
        PROVE  answer' = answer
    BY <2>7 DEF Delete, Expire
  <2> QED BY <1>1, <2>1, <2>4, <2>5, <2>6, <2>7 DEF Next, Step
<1>2. ASSUME Inv, Next
      PROVE  SavedIsTold
  BY <1>1, <1>2 DEF SavedIsTold
<1> QED BY <1>2, Invariance, PTL DEF Spec

-----------------------------------------------------------------------------
(* What was heard *)

(* A history that was cached or read is a beginning of the log of its      *)
(* conversation, as long as that is not deleted; before there is a         *)
(* conversation there is none.                                             *)
HistoryIsPast ==
    /\ \A c \in Convs : life[c] # "deleted" => cache[c] <= Len(turns[c])
    /\ \A r \in Requests :
         conv[r] # NoConv /\ life[conv[r]] # "deleted" => heard[r] <= Len(turns[conv[r]])

NothingYet ==
    /\ \A r \in Requests : pc[r] = "idle" \/ conv[r] = NoConv => heard[r] = 0
    /\ \A r \in Requests : pc[r] = "idle" => conv[r] = NoConv

HeardInv == HistoryIsPast /\ NothingYet

(* The database is empty at the start, and so is the cache.                *)
LEMMA InitHeard == Init => HeardInv
BY NoConvAssumption DEF Init, HeardInv, HistoryIsPast, NothingYet, NoEntry

(* A step of one request that leaves the logs alone: what it caches it has *)
(* heard, and what it hears is no longer than the log.                     *)
LEMMA HeardFrame ==
    ASSUME Inv, HeardInv, NEW r \in Requests, UNCHANGED <<life, turns>>, pc'[r] # "idle",
           \A q \in Requests \ {r} :
              pc'[q] = pc[q] /\ heard'[q] = heard[q] /\ conv'[q] = conv[q],
           \A c \in Convs : \/ cache'[c] = cache[c]
                            \/ c = conv[r] /\ cache'[c] = heard[r],
           conv'[r] = NoConv => heard'[r] = 0,
           conv'[r] # NoConv /\ life[conv'[r]] # "deleted" => heard'[r] <= Len(turns[conv'[r]])
    PROVE  HeardInv'
<1>1. ASSUME NEW c \in Convs, life'[c] # "deleted"
      PROVE  cache'[c] <= Len(turns'[c])
  <2>1. CASE cache'[c] = cache[c]
    BY <1>1, <2>1 DEF HeardInv, HistoryIsPast
  <2>2. CASE c = conv[r] /\ cache'[c] = heard[r]
    BY <1>1, <2>2, NoConvAssumption DEF HeardInv, HistoryIsPast
  <2> QED BY <2>1, <2>2
<1>2. ASSUME NEW q \in Requests, conv'[q] # NoConv, life'[conv'[q]] # "deleted"
      PROVE  heard'[q] <= Len(turns'[conv'[q]])
  BY <1>2 DEF HeardInv, HistoryIsPast
<1>3. NothingYet'
  BY DEF HeardInv, NothingYet
<1> QED BY <1>1, <1>2, <1>3 DEF HeardInv, HistoryIsPast

(* The steps that read or write a history, or begin a request.             *)
LEMMA HearingHeard ==
    ASSUME Inv, HeardInv, NEW r \in Requests,
           \/ \E c \in Convs \cup {NoConv} : Accept(r, c)
           \/ ReadCache(r) \/ LoadHistory(r) \/ StoreHistory(r)
    PROVE  HeardInv'
<1> USE DEF database, locals
<1>1. ASSUME NEW c \in Convs \cup {NoConv}, Accept(r, c)
      PROVE  HeardInv'
  <2>1. /\ pc[r] = "idle" /\ conv' = [conv EXCEPT ![r] = c] /\ pc'[r] # "idle"
        /\ UNCHANGED <<life, turns, cache, heard>>
        /\ \A q \in Requests \ {r} : pc'[q] = pc[q]
    BY <1>1 DEF Accept, Finish, Go, Inv, TypeOK
  <2>2. heard[r] = 0 /\ conv'[r] = c /\ \A q \in Requests \ {r} : conv'[q] = conv[q]
    BY <2>1 DEF HeardInv, NothingYet, Inv, TypeOK
  <2>3. c # NoConv => 0 <= Len(turns[c])
    BY DEF Inv, TypeOK
  <2> QED BY <2>1, <2>2, <2>3, HeardFrame
<1>2. CASE ReadCache(r)
  <2>1. /\ pc[r] = "history" /\ pc'[r] # "idle" /\ UNCHANGED <<life, turns, cache, conv>>
        /\ \A q \in Requests \ {r} : pc'[q] = pc[q] /\ heard'[q] = heard[q]
        /\ conv[r] = NoConv => heard'[r] = 0
        /\ conv[r] # NoConv => heard'[r] \in {heard[r], cache[conv[r]]}
    BY <1>2 DEF ReadCache, Go, Inv, TypeOK
  <2>2. conv[r] # NoConv /\ life[conv[r]] # "deleted" =>
          heard[r] <= Len(turns[conv[r]]) /\ cache[conv[r]] <= Len(turns[conv[r]])
    BY DEF HeardInv, HistoryIsPast, Inv, TypeOK
  <2> QED BY <2>1, <2>2, HeardFrame
<1>3. CASE LoadHistory(r)
  <2>1. /\ pc'[r] # "idle" /\ UNCHANGED <<life, turns, cache, conv>>
        /\ \A q \in Requests \ {r} : pc'[q] = pc[q] /\ heard'[q] = heard[q]
        /\ conv[r] \in Convs /\ heard'[r] = Len(turns[conv[r]])
    BY <1>3 DEF LoadHistory, Go, StepsAgree, Inv, TypeOK
  <2>2. heard'[r] <= Len(turns[conv[r]])
    BY <2>1 DEF Inv, TypeOK
  <2> QED BY <2>1, <2>2, NoConvAssumption, HeardFrame
<1>4. CASE StoreHistory(r)
  <2>1. /\ pc'[r] # "idle" /\ UNCHANGED <<life, turns, conv, heard>> /\ conv[r] \in Convs
        /\ \A q \in Requests \ {r} : pc'[q] = pc[q]
        /\ \A c \in Convs : cache'[c] = cache[c] \/ (c = conv[r] /\ cache'[c] = heard[r])
    BY <1>4 DEF StoreHistory, Go, StepsAgree, Inv, TypeOK
  <2>2. /\ conv[r] = NoConv => heard[r] = 0
        /\ conv[r] # NoConv /\ life[conv[r]] # "deleted" => heard[r] <= Len(turns[conv[r]])
    BY DEF HeardInv, HistoryIsPast, NothingYet
  <2> QED BY <2>1, <2>2, HeardFrame
<1> QED BY <1>1, <1>2, <1>3, <1>4

(* A turn that is saved only makes the log longer.                         *)
LEMMA SavingHeard ==
    ASSUME Inv, HeardInv, NEW r \in Requests,
           (\E c \in Convs : SaveFirst(r, c)) \/ SaveNext(r)
    PROVE  HeardInv'
<1>1. PICK c \in Convs :
        /\ SavedIn(c, r) /\ pc[r] = "save" /\ life[c] # "deleted"
        /\ \/ conv[r] = NoConv /\ conv' = [conv EXCEPT ![r] = c] /\ life' = [life EXCEPT ![c] = "live"]
           \/ conv[r] = c /\ UNCHANGED <<life, conv>>
  BY NoConvAssumption DEF SaveFirst, SaveNext, Live, Inv, TypeOK
<1>2. /\ turns' = [turns EXCEPT ![c] = Append(turns[c], r)] /\ UNCHANGED <<cache, heard>>
      /\ pc'[r] # "idle" /\ \A q \in Requests \ {r} : pc'[q] = pc[q]
  BY <1>1 DEF SavedIn, Transcript, Go, Inv, TypeOK
<1>3. \A d \in Convs : /\ Len(turns[d]) \in Nat /\ Len(turns'[d]) \in Nat
                       /\ Len(turns[d]) <= Len(turns'[d])
  BY <1>2 DEF Inv, TypeOK
<1>4. /\ \A d \in Convs : life'[d] # "deleted" => life[d] # "deleted"
      /\ conv'[r] = c /\ \A q \in Requests \ {r} : conv'[q] = conv[q]
      /\ heard[r] <= Len(turns[c]) /\ heard[r] \in Int
  <2>1. CASE conv[r] = NoConv
    BY <1>1, <1>3, <2>1 DEF Inv, TypeOK, HeardInv, NothingYet
  <2>2. CASE conv[r] # NoConv
    BY <1>1, <2>2, NoConvAssumption DEF Inv, TypeOK, HeardInv, HistoryIsPast
  <2> QED BY <2>1, <2>2
<1>5. ASSUME NEW d \in Convs, life'[d] # "deleted"
      PROVE  cache'[d] <= Len(turns'[d])
  <2>1. cache[d] \in Int /\ cache'[d] = cache[d]
    BY <1>2 DEF Inv, TypeOK, NoEntry
  <2>2. cache[d] <= Len(turns[d])
    BY <1>4, <1>5 DEF HeardInv, HistoryIsPast
  <2> QED BY <2>1, <2>2, <1>3
<1>6. ASSUME NEW q \in Requests, conv'[q] # NoConv, life'[conv'[q]] # "deleted"
      PROVE  heard'[q] <= Len(turns'[conv'[q]])
  <2>1. heard'[q] = heard[q] /\ heard[q] \in Int
    BY <1>2 DEF Inv, TypeOK
  <2>2. CASE q = r
    BY <1>3, <1>4, <2>1, <2>2
  <2>3. CASE q # r
    <3>1. conv'[q] = conv[q] /\ conv[q] \in Convs
      BY <1>4, <1>6, <2>3 DEF Inv, TypeOK
    <3>2. heard[q] <= Len(turns[conv[q]])
      BY <1>4, <1>6, <3>1 DEF HeardInv, HistoryIsPast
    <3> QED BY <1>3, <2>1, <3>1, <3>2
  <2> QED BY <2>2, <2>3
<1>7. NothingYet'
  BY <1>2, <1>4, NoConvAssumption DEF HeardInv, NothingYet
<1> QED BY <1>5, <1>6, <1>7 DEF HeardInv, HistoryIsPast

(* The other steps touch no history that anybody may still read.           *)
LEMMA OtherHeard ==
    ASSUME Inv, HeardInv,
           \/ \E r \in Requests :
                \/ ReadState(r) \/ Reply(r) \/ SaveRefused(r) \/ Refresh(r) \/ RefreshRefused(r)
                \/ Invalidate(r) \/ Summarize(r) \/ SummaryFails(r) \/ Select(r)
                \/ CommitSummary(r) \/ SummaryRefused(r) \/ CommitMark(r) \/ MarkFails(r)
                \/ Done(r) \/ ConnectionLost(r) \/ CutOff(r)
           \/ \E c \in Convs : Delete(c) \/ Expire(c)
           \/ UNCHANGED vars
    PROVE  HeardInv'
<1> USE DEF database, locals
<1>1. ASSUME NEW r \in Requests,
             \/ ReadState(r) \/ Reply(r) \/ SaveRefused(r) \/ Refresh(r) \/ RefreshRefused(r)
             \/ Invalidate(r) \/ Summarize(r) \/ SummaryFails(r) \/ Select(r)
             \/ CommitSummary(r) \/ SummaryRefused(r) \/ CommitMark(r) \/ MarkFails(r)
             \/ Done(r) \/ ConnectionLost(r) \/ CutOff(r)
      PROVE  HeardInv'
  <2>1. UNCHANGED <<life, turns, conv, heard>> /\ \A c \in Convs : cache'[c] = cache[c]
    BY <1>1 DEF ReadState, Reply, SaveRefused, Refresh, RefreshRefused, Invalidate,
       InvalidatedKeys, Summarize, SummaryFails, Select, CommitSummary, SummaryRefused,
       CommitMark, MarkFails, Done, ConnectionLost, CutOff, Fail, Finish
  <2>2. Step(r) \/ ConnectionLost(r) \/ CutOff(r)
    BY <1>1 DEF Step
  <2>3. Left[pc'[r]] < Left[pc[r]] /\ \A q \in Requests \ {r} : pc'[q] = pc[q]
    BY <2>2, Moving DEF Inv
  <2>4. pc'[r] # "idle"
    <3>1. pc[r] \in Steps
      BY DEF Inv, TypeOK
    <3> QED BY <2>3, <3>1 DEF Left, Steps
  <2>5. /\ conv[r] = NoConv => heard[r] = 0
        /\ conv[r] # NoConv /\ life[conv[r]] # "deleted" => heard[r] <= Len(turns[conv[r]])
    BY DEF HeardInv, HistoryIsPast, NothingYet
  <2> QED BY <2>1, <2>3, <2>4, <2>5, HeardFrame
<1>2. ASSUME NEW c \in Convs, Delete(c)
      PROVE  HeardInv'
  <2>1. /\ UNCHANGED <<cache, pc, conv, heard>>
        /\ \A d \in Convs : life'[d] # "deleted" => life'[d] = life[d] /\ turns'[d] = turns[d]
    BY <1>2 DEF Delete, Inv, TypeOK
  <2>2. \A q \in Requests : conv[q] # NoConv => conv[q] \in Convs
    BY DEF Inv, TypeOK
  <2>3. NothingYet'
    BY <2>1 DEF HeardInv, NothingYet
  <2>4. HistoryIsPast'
    BY <2>1, <2>2 DEF HeardInv, HistoryIsPast
  <2> QED BY <2>3, <2>4 DEF HeardInv
<1>3. ASSUME NEW c \in Convs, Expire(c)
      PROVE  HeardInv'
  <2>1. /\ UNCHANGED <<life, turns, pc, conv, heard>>
        /\ \A d \in Convs : cache'[d] = cache[d] \/ cache'[d] = -1
    BY <1>3 DEF Expire, NoEntry, Inv, TypeOK
  <2>2. \A d \in Convs : -1 <= Len(turns[d])
    BY DEF Inv, TypeOK
  <2> QED BY <2>1, <2>2 DEF HeardInv, HistoryIsPast, NothingYet
<1>4. CASE UNCHANGED vars
  BY <1>4 DEF vars, HeardInv, HistoryIsPast, NothingYet
<1> QED BY <1>1, <1>2, <1>3, <1>4

(* The history behind a reply may be out of date (HistoryIsFresh), but it  *)
(* is one the conversation had: it holds no turn that was not saved, and   *)
(* is never longer than the log.                                           *)
THEOREM HistoryIsNeverAhead == Spec => []HistoryIsPast
<1>1. Inv /\ HeardInv /\ [Next]_vars => HeardInv'
  BY HearingHeard, SavingHeard, OtherHeard DEF Next, Step
<1>2. Spec => []HeardInv
  BY <1>1, InitHeard, Invariance, PTL DEF Spec
<1> QED BY <1>2, PTL DEF HeardInv
-----------------------------------------------------------------------------
(* What a summary knows of its turns *)

\* It says nothing of turns that were not saved.
Behind(c, s) == s.over \subseteq Logged(c) /\ s.count <= Len(turns[c])

First(c, n) == {turns[c][i] : i \in 1..n}

\* A row that is not there, and a text that is.
Blank(s) == s.status = "none" => s = NoSummary

Row(c) ==
    /\ Behind(c, state[c]) /\ Behind(c, summary[c])
    /\ Blank(summary[c]) /\ (summary[c].status = "current" => summary[c].over # {})
    /\ c \notin crowded /\ summary[c].over # {} =>
         summary[c].over = First(c, summary[c].count)

(* A request at work in a conversation that is there has read, counted and *)
(* summarised what is saved, and a text it has loaded is still there, if   *)
(* only another one.                                                       *)
Hand(r) ==
    LET c == conv[r]
    IN  c \in Convs /\ life[c] # "deleted" =>
          /\ pc[r] \in {"reply", "save"} => Behind(c, base[r])
          /\ pc[r] \in AfterSave =>
                base[r].over \cup {r} \subseteq Logged(c) /\ Count(r) <= Len(turns[c])
          /\ pc[r] \in {"select", "commit"} => draft[r] # {} /\ draft[r] \subseteq Logged(c)
          /\ pc[r] \in {"commit", "marking"} =>
                Blank(seen[r]) /\ (seen[r].over # {} => summary[c].over # {})

KnowInv ==
    /\ \A c \in Convs : Row(c)
    /\ \A r \in Requests : Hand(r)

(* Nothing is saved, and nothing summarised.                               *)
LEMMA InitKnow == Init => KnowInv
<1> SUFFICES ASSUME Init PROVE KnowInv
  OBVIOUS
<1>1. Len(<<>>) = 0
  OBVIOUS
<1>2. ASSUME NEW c \in Convs
      PROVE  Row(c)
  <2>1. turns[c] = <<>> /\ state[c] = NoState /\ summary[c] = NoSummary
    BY DEF Init
  <2> QED BY <1>1, <2>1 DEF Row, Behind, Blank, NoState, NoSummary
<1>3. \A r \in Requests : Hand(r)
  BY DEF Init, Hand, AfterSave
<1> QED BY <1>2, <1>3 DEF KnowInv

(* While a conversation is there its log only grows and its text, once     *)
(* written, does not go away.                                              *)
Grows(c) ==
    life'[c] # "deleted" =>
        /\ life[c] # "deleted" /\ Logged(c) \subseteq Logged(c)'
        /\ Len(turns[c]) <= Len(turns'[c])
        /\ summary[c].over # {} => summary'[c].over # {}

(* What the other requests have in hand stays true.                        *)
LEMMA HandKeeps ==
    ASSUME Inv, Inv', KnowInv, \A c \in Convs : Grows(c), NEW q \in Requests,
           pc'[q] = pc[q], conv'[q] = conv[q], base'[q] = base[q], draft'[q] = draft[q],
           seen'[q] = seen[q]
    PROVE  Hand(q)'
<1> SUFFICES ASSUME conv[q] \in Convs, life'[conv[q]] # "deleted"
             PROVE  Hand(q)'
  BY DEF Hand
<1>1. PICK c \in Convs : c = conv[q]
  OBVIOUS
<1>2. Hand(q) /\ Grows(c)
  BY DEF KnowInv
<1>3. /\ life[c] # "deleted" /\ Logged(c) \subseteq Logged(c)'
      /\ summary[c].over # {} => summary'[c].over # {}
      /\ Len(turns[c]) <= Len(turns'[c])
  BY <1>1, <1>2 DEF Grows
<1>4. /\ Len(turns[c]) \in Nat /\ Len(turns'[c]) \in Nat /\ base[q].count \in Nat
      /\ Count(q) \in Nat /\ Count(q)' = Count(q)
  BY DEF Inv, TypeOK, States, Count
<1>5. base[q].count <= Len(turns[c]) => base[q].count <= Len(turns'[c])
  BY <1>3, <1>4
<1>6. Count(q) <= Len(turns[c]) => Count(q)' <= Len(turns'[c])
  BY <1>3, <1>4
<1>7. Behind(c, base[q]) => Behind(c, base[q])'
  BY <1>3, <1>5 DEF Behind
<1>8. conv'[q] = c
  BY <1>1
<1> QED BY <1>1, <1>2, <1>3, <1>6, <1>7, <1>8 DEF Hand, Blank

(* A step that writes no row leaves the rows, and all hands but its own.   *)
LEMMA QuietKeeps ==
    ASSUME Inv, Inv', KnowInv, UNCHANGED <<life, turns, state, summary>>,
           crowded \subseteq crowded', NEW r \in Requests, Hand(r)',
           \A q \in Requests \ {r} :
              /\ pc'[q] = pc[q] /\ conv'[q] = conv[q] /\ base'[q] = base[q]
              /\ draft'[q] = draft[q] /\ seen'[q] = seen[q]
    PROVE  KnowInv'
<1>1. ASSUME NEW c \in Convs
      PROVE  Row(c)' /\ Grows(c)
  <2>1. Logged(c)' = Logged(c) /\ Row(c) /\ Len(turns[c]) \in Nat
    BY DEF Logged, KnowInv, Inv, TypeOK
  <2> QED BY <2>1 DEF Row, Behind, First, Grows
<1>2. \A q \in Requests : Hand(q)'
  BY <1>1, HandKeeps
<1> QED BY <1>1, <1>2 DEF KnowInv

(* A request that has nothing in hand yet, or no more.                     *)
LEMMA EmptyHands ==
    ASSUME Inv, Inv', KnowInv, NEW r \in Requests,
           \/ \E c \in Convs \cup {NoConv} : Accept(r, c)
           \/ ReadCache(r) \/ LoadHistory(r) \/ StoreHistory(r)
           \/ SaveRefused(r) \/ RefreshRefused(r) \/ Done(r) \/ ConnectionLost(r) \/ CutOff(r)
    PROVE  KnowInv'
<1> USE DEF database, locals
<1>0. pc \in [Requests -> Steps] /\ conv \in [Requests -> Convs \cup {NoConv}]
  BY DEF Inv, TypeOK
<1>1. UNCHANGED <<life, turns, state, summary, base, draft, seen>> /\ crowded \subseteq crowded'
  BY DEF Accept, ReadCache, LoadHistory, StoreHistory, SaveRefused, RefreshRefused, Done,
     ConnectionLost, CutOff, Fail
<1>2. \E to \in {"history", "load", "store", "state", "over"} : Go(r, to)
  BY DEF Accept, ReadCache, LoadHistory, StoreHistory, SaveRefused, RefreshRefused, Done,
     ConnectionLost, CutOff, Fail, Finish
<1>3. conv' = conv \/ \E c \in Convs \cup {NoConv} : conv' = [conv EXCEPT ![r] = c]
  BY DEF Accept, ReadCache, LoadHistory, StoreHistory, SaveRefused, RefreshRefused, Done,
     ConnectionLost, CutOff, Fail
<1>4. /\ pc'[r] \in {"history", "load", "store", "state", "over"}
      /\ \A q \in Requests \ {r} : pc'[q] = pc[q] /\ conv'[q] = conv[q]
  BY <1>0, <1>2, <1>3 DEF Go
<1>5. Hand(r)'
  BY <1>4 DEF Hand, AfterSave
<1> QED BY <1>1, <1>4, <1>5, QuietKeeps

(* A request that reads a row, or works on what it has read.               *)
LEMMA FullHands ==
    ASSUME Inv, Inv', KnowInv, NEW r \in Requests,
           \/ ReadState(r) \/ Reply(r) \/ Refresh(r) \/ Invalidate(r) \/ Summarize(r)
           \/ SummaryFails(r) \/ Select(r) \/ SummaryRefused(r) \/ MarkFails(r)
    PROVE  KnowInv'
<1> USE DEF database, locals
<1>0. /\ pc \in [Requests -> Steps] /\ base \in [Requests -> States]
      /\ draft \in [Requests -> SUBSET Requests] /\ seen \in [Requests -> Summaries]
  BY DEF Inv, TypeOK
<1>1. UNCHANGED <<life, turns, state, summary, crowded, conv>>
  BY DEF ReadState, Reply, Refresh, Invalidate, Summarize, SummaryFails, Select, SummaryRefused,
     MarkFails
<1>2. \A q \in Requests \ {r} : /\ pc'[q] = pc[q] /\ base'[q] = base[q]
                                /\ draft'[q] = draft[q] /\ seen'[q] = seen[q]
  BY <1>0 DEF ReadState, Reply, Refresh, Invalidate, Summarize, SummaryFails, Select,
     SummaryRefused, MarkFails, Go
<1>3. SUFFICES ASSUME conv[r] \in Convs, life[conv[r]] # "deleted"
               PROVE  Hand(r)'
  <2>1. (conv[r] \in Convs /\ life[conv[r]] # "deleted") \/ Hand(r)'
    BY <1>1 DEF Hand
  <2>2. Hand(r)'
    BY <1>3, <2>1
  <2> QED BY <1>1, <1>2, <2>2, QuietKeeps
<1>4. PICK c \in Convs : c = conv[r]
  BY <1>3
<1>5. Hand(r) /\ Row(c)
  BY DEF KnowInv
<1>6. /\ Logged(c)' = Logged(c) /\ conv'[r] = c /\ life'[c] # "deleted"
      /\ turns'[c] = turns[c] /\ summary'[c] = summary[c]
  BY <1>1, <1>3, <1>4 DEF Logged
<1>7. CASE ReadState(r)
  <2>1. c # NoConv /\ base'[r] = state[c] /\ pc'[r] = "reply"
    BY <1>0, <1>4, <1>7, NoConvAssumption DEF ReadState, Go
  <2> QED BY <1>5, <1>6, <2>1 DEF Row, Hand, Behind, AfterSave
<1>8. CASE Reply(r)
  <2>1. pc[r] = "reply" /\ pc'[r] = "save" /\ base' = base
    BY <1>0, <1>8 DEF Reply, Go
  <2> QED BY <1>3, <1>4, <1>5, <1>6, <2>1 DEF Hand, Behind, AfterSave
<1>9. CASE Refresh(r) \/ Invalidate(r) \/ SummaryFails(r) \/ SummaryRefused(r) \/ MarkFails(r)
  <2>1. pc[r] \in AfterSave /\ pc'[r] \in {"invalidate", "summarize", "mark", "stale"}
        /\ base' = base
    BY <1>0, <1>9 DEF Refresh, Invalidate, SummaryFails, SummaryRefused, MarkFails, Go, AfterSave
  <2> QED BY <1>3, <1>4, <1>5, <1>6, <2>1 DEF Hand, Count
<1>10. CASE Summarize(r)
  <2>1. /\ pc[r] = "summarize" /\ pc'[r] = "select" /\ base' = base
        /\ draft'[r] = summary[c].over \cup base[r].over \cup {r}
    BY <1>0, <1>4, <1>10 DEF Summarize, Go, Text
  <2>2. base[r].over \cup {r} \subseteq Logged(c) /\ Count(r) <= Len(turns[c])
    BY <1>3, <1>4, <1>5, <2>1 DEF Hand, AfterSave
  <2>3. summary[c].over \subseteq Logged(c)
    BY <1>5 DEF Row, Behind
  <2> QED BY <1>6, <2>1, <2>2, <2>3 DEF Hand, Count
<1>11. CASE Select(r)
  <2>1. /\ \/ pc[r] = "select" /\ pc'[r] = "commit"
           \/ pc[r] = "mark" /\ pc'[r] = "marking"
        /\ base' = base /\ draft' = draft /\ seen'[r] = summary[c]
    BY <1>0, <1>4, <1>11 DEF Select, Go
  <2>2. Blank(summary[c])
    BY <1>5 DEF Row
  <2> QED BY <1>3, <1>4, <1>5, <1>6, <2>1, <2>2 DEF Hand, Count, Blank, AfterSave
<1> QED BY <1>7, <1>8, <1>9, <1>10, <1>11

(* The first turns of a log that grows stay the same.                      *)
LEMMA FirstStays ==
    ASSUME NEW s \in Seq(Requests), NEW r \in Requests, NEW n \in Nat, n <= Len(s)
    PROVE  {Append(s, r)[i] : i \in 1..n} = {s[i] : i \in 1..n}
<1>1. \A i \in 1..n : Append(s, r)[i] = s[i]
  OBVIOUS
<1> QED BY <1>1

(* A saved turn is counted and covered by the row that is written with it. *)
LEMMA SaveKnows ==
    ASSUME All, Inv', KnowInv, NEW r \in Requests, NEW c \in Convs, pc[r] = "save", SavedIn(c, r),
           \/ /\ conv[r] = NoConv /\ life[c] = "unused"
              /\ life' = [life EXCEPT ![c] = "live"]
              /\ conv' = [conv EXCEPT ![r] = c]
           \/ Live(c) /\ conv[r] = c /\ UNCHANGED <<life, conv>>
    PROVE  KnowInv'
<1>1. /\ turns \in [Convs -> Seq(Requests)] /\ state \in [Convs -> States]
      /\ conv \in [Requests -> Convs \cup {NoConv}] /\ pc \in [Requests -> Steps]
      /\ base \in [Requests -> States] /\ summary \in [Convs -> Summaries]
      /\ life \in [Convs -> {"unused", "live", "deleted"}]
  BY WaitTypes DEF All
<1>2. /\ turns' = [turns EXCEPT ![c] = Append(@, r)]
      /\ state' = [state EXCEPT ![c] = NewState(r)]
      /\ pc' = [pc EXCEPT ![r] = "refresh"]
      /\ UNCHANGED <<summary, crowded, base, draft, seen>>
  BY <1>1 DEF SavedIn, Transcript, Go
<1>3. /\ turns'[c] = Append(turns[c], r) /\ state'[c] = NewState(r)
      /\ turns[c] \in Seq(Requests) /\ conv'[r] = c /\ pc'[r] = "refresh"
      /\ \A b \in Convs \ {c} : turns'[b] = turns[b] /\ state'[b] = state[b] /\ life'[b] = life[b]
      /\ \A q \in Requests \ {r} : conv'[q] = conv[q] /\ pc'[q] = pc[q]
      /\ life[c] # "deleted"
  BY <1>1, <1>2 DEF Live
<1>4. /\ Len(turns'[c]) = Len(turns[c]) + 1 /\ Len(turns[c]) \in Nat
      /\ Logged(c)' = Logged(c) \cup {r}
  BY <1>3, LoggedAppend DEF Logged
<1>5. Behind(c, base[r])
  <2>1. CASE conv[r] = NoConv
    <3>1. base[r] = NoState
      BY <2>1 DEF All, WaitInv, InHand
    <3> QED BY <1>4, <3>1 DEF Behind, NoState
  <2>2. CASE conv[r] = c
    BY <1>3, <2>2 DEF KnowInv, Hand
  <2> QED BY <2>1, <2>2
<1>6. base[r].count \in Nat /\ summary[c].count \in Nat
  BY <1>1 DEF States, Summaries
<1>7. Row(c)'
  <2>1. Row(c) /\ summary'[c] = summary[c]
    BY <1>2 DEF KnowInv
  <2>2. Behind(c, state[c])'
    BY <1>3, <1>4, <1>5, <1>6 DEF Behind, NewState, Count
  <2>3. Behind(c, summary[c])' /\ summary[c].count <= Len(turns[c])
    BY <1>4, <1>6, <2>1 DEF Row, Behind
  <2>4. First(c, summary[c].count)' = First(c, summary[c].count)
    BY <1>3, <1>6, <2>1, <2>3, FirstStays DEF First
  <2> QED BY <1>2, <2>1, <2>2, <2>3, <2>4 DEF Row, Blank
<1>8. ASSUME NEW b \in Convs \ {c}
      PROVE  Row(b)' /\ Grows(b)
  <2>1. Row(b) /\ Logged(b)' = Logged(b) /\ turns[b] \in Seq(Requests)
    BY <1>1, <1>3 DEF KnowInv, Logged
  <2> QED BY <1>2, <1>3, <2>1 DEF Row, Behind, First, Grows
<1>9. Grows(c)
  BY <1>2, <1>3, <1>4 DEF Grows
<1>10. Hand(r)'
  <2>1. base[r].over \cup {r} \subseteq Logged(c)' /\ Count(r)' <= Len(turns'[c])
    BY <1>2, <1>4, <1>5, <1>6 DEF Behind, Count
  <2> QED BY <1>2, <1>3, <2>1 DEF Hand
<1>11. \A q \in Requests : Hand(q)'
  BY <1>2, <1>3, <1>8, <1>9, <1>10, HandKeeps DEF All
<1> QED BY <1>7, <1>8, <1>11 DEF KnowInv

(* A writer of the summary replaces what it changed, and the row that      *)
(* results, mixed or not, is one of a saved beginning.                     *)
LEMMA WriteRow ==
    ASSUME All, KnowInv, NEW r \in Requests, CommitSummary(r) \/ CommitMark(r),
           NEW c \in Convs, c = conv[r]
    PROVE  Row(c)' /\ (summary[c].over # {} => summary'[c].over # {})
<1>1. /\ pc[r] \in {"commit", "marking"} /\ pc'[r] \in {"current", "stale"} /\ Live(c)
      /\ UNCHANGED <<life, turns, state, crowded, conv, base, draft, seen>>
      /\ \A q \in Requests \ {r} : pc'[q] = pc[q]
      /\ \A b \in Convs \ {c} : summary'[b] = summary[b]
      /\ seen[r].status = "none" <=> summary[c].status = "none"
  BY WaitTypes DEF All, CommitSummary, CommitMark, Writable, Go, locals
<1>2. /\ summary \in [Convs -> Summaries] /\ summary[c] \in Summaries
      /\ seen[r] \in Summaries /\ Count(r) \in Nat /\ draft[r] \in SUBSET Requests
      /\ Len(turns[c]) \in Nat
  BY WaitTypes DEF All, States, Count
<1>3. /\ Row(c) /\ Blank(seen[r]) /\ Count(r) <= Len(turns[c])
      /\ seen[r].over # {} => summary[c].over # {}
      /\ pc[r] = "commit" => draft[r] # {} /\ draft[r] \subseteq Logged(c)
  BY <1>1 DEF KnowInv, Hand, AfterSave, Live
<1>4. c \notin crowded => /\ seen[r] = summary[c]
                          /\ pc[r] = "commit" => draft[r] = Logged(c) /\ Count(r) = Len(turns[c])
  BY <1>1 DEF All, WaitInv, InHand, AfterSave
\* what each column of the row comes from
<1>5. ASSUME NEW old \in Summaries, NEW new \in Summaries, NEW row \in Summaries,
             NEW mix, mix = Flushed(old, new, row)
      PROVE  /\ mix.status = IF new.status = old.status THEN row.status ELSE new.status
             /\ mix.count = IF new.count = old.count THEN row.count ELSE new.count
             /\ mix.over = IF new.over = old.over THEN row.over ELSE new.over
  BY <1>5 DEF Flushed, Summaries
<1>6. CASE CommitSummary(r)
  <2> DEFINE text == [status |-> "current", count |-> Count(r), over |-> draft[r]]
  <2>1. text \in Summaries /\ text.status = "current" /\ text.count = Count(r)
        /\ text.over = draft[r]
    BY <1>2 DEF Summaries
  <2>2. summary'[c] = Flushed(seen[r], text, summary[c])
    BY <1>2, <1>6 DEF CommitSummary, Written
  <2> HIDE DEF text
  <2>3. /\ summary'[c].status = (IF seen[r].status = "current" THEN summary[c].status ELSE "current")
        /\ summary'[c].count \in {summary[c].count, Count(r)}
        /\ summary'[c].over = (IF draft[r] = seen[r].over THEN summary[c].over ELSE draft[r])
    BY <1>2, <1>5, <2>1, <2>2
  <2>4. pc[r] = "commit"
    BY <1>6 DEF CommitSummary
  <2>5. summary'[c].over # {} /\ summary'[c].status # "none"
    BY <1>1, <1>3, <2>3, <2>4
  <2>6. Behind(c, summary[c])'
    <3>1. Logged(c)' = Logged(c) /\ turns'[c] = turns[c]
      BY <1>1 DEF Logged
    <3> QED BY <1>3, <2>3, <2>4, <3>1 DEF Row, Behind
  <2>7. c \notin crowded => summary'[c].over = First(c, summary'[c].count)
    <3> SUFFICES ASSUME c \notin crowded PROVE summary'[c].over = First(c, summary'[c].count)
      OBVIOUS
    <3>1. /\ summary'[c].count = (IF text.count = seen[r].count THEN summary[c].count ELSE text.count)
          /\ seen[r] = summary[c] /\ draft[r] = Logged(c) /\ Count(r) = Len(turns[c])
      BY <1>2, <1>4, <1>5, <2>1, <2>2, <2>4
    <3>2. summary'[c].count = Len(turns[c]) /\ summary'[c].over = Logged(c)
      BY <2>1, <2>3, <3>1
    <3>3. DOMAIN turns[c] = 1..Len(turns[c])
      BY WaitTypes DEF All
    <3> QED BY <3>2, <3>3 DEF First, Logged
  <2>8. Row(c)'
    <3>1. Behind(c, state[c])'
      BY <1>1, <1>3 DEF Row, Behind, Logged
    <3>2. First(c, summary[c].count)' = First(c, summary'[c].count)
      BY <1>1 DEF First
    <3> QED BY <1>1, <2>5, <2>6, <2>7, <3>1, <3>2 DEF Row, Blank
  <2> QED BY <1>6, <2>5, <2>8
<1>7. CASE CommitMark(r)
  <2>1. PICK mark \in Summaries :
          /\ summary'[c] = Flushed(seen[r], mark, summary[c]) /\ mark.status = "stale"
          /\ seen[r].status = "none" => mark.count = Count(r) /\ mark.over = {}
          /\ seen[r].status # "none" => mark.count = seen[r].count /\ mark.over = seen[r].over
    <3>1. summary'[c] = Marked(r, c)
      BY <1>2, <1>7 DEF CommitMark
    <3>2. CASE seen[r].status = "none"
      <4>1. [status |-> "stale", count |-> Count(r), over |-> {}] \in Summaries
        BY <1>2 DEF Summaries
      <4> QED BY <3>1, <3>2, <4>1 DEF Marked
    <3>3. CASE seen[r].status # "none"
      <4>1. [seen[r] EXCEPT !.status = "stale"] \in Summaries
        BY <1>2 DEF Summaries
      <4>2. /\ [seen[r] EXCEPT !.status = "stale"].status = "stale"
            /\ [seen[r] EXCEPT !.status = "stale"].count = seen[r].count
            /\ [seen[r] EXCEPT !.status = "stale"].over = seen[r].over
        BY <1>2 DEF Summaries
      <4> QED BY <3>1, <3>3, <4>1, <4>2 DEF Marked
    <3> QED BY <3>2, <3>3
  <2>2. /\ summary'[c].status = IF mark.status = seen[r].status
                                THEN summary[c].status ELSE mark.status
        /\ summary'[c].count = IF mark.count = seen[r].count
                               THEN summary[c].count ELSE mark.count
        /\ summary'[c].over = IF mark.over = seen[r].over
                              THEN summary[c].over ELSE mark.over
    BY <1>2, <1>5, <2>1
  <2>3. seen[r].status = "none" => seen[r].over = {} /\ summary[c].over = {}
    BY <1>1, <1>3 DEF Row, Blank, NoSummary
  <2>4. /\ summary'[c].status \in {"stale", summary[c].status}
        /\ summary'[c].count \in {summary[c].count, Count(r)}
        /\ summary'[c].over = summary[c].over
        /\ summary'[c].over # {} => summary'[c].count = summary[c].count
    BY <2>1, <2>2, <2>3
  <2>5. summary'[c].status # "none"
    BY <1>1, <2>1, <2>2
  <2>6. Behind(c, summary[c])'
    <3>1. Logged(c)' = Logged(c) /\ turns'[c] = turns[c]
      BY <1>1 DEF Logged
    <3> QED BY <1>3, <2>4, <3>1 DEF Row, Behind
  <2>7. Row(c)'
    <3>1. Behind(c, state[c])'
      BY <1>1, <1>3 DEF Row, Behind, Logged
    <3>2. First(c, summary[c].count)' = {turns[c][i] : i \in 1..summary'[c].count}
      BY <1>1 DEF First
    <3>3. summary'[c].status = "current" => summary'[c].over # {}
      BY <1>3, <2>4 DEF Row
    <3>4. c \notin crowded /\ summary'[c].over # {} => summary'[c].over = First(c, summary[c].count)'
      BY <1>3, <2>4, <3>2 DEF Row, First
    <3> QED BY <1>1, <2>5, <2>6, <3>1, <3>3, <3>4 DEF Row, Blank
  <2> QED BY <2>4, <2>7
<1> QED BY <1>6, <1>7

(* The writers of one summary leave what the others have in hand.          *)
LEMMA WriteKnows ==
    ASSUME All, Inv', KnowInv, NEW r \in Requests, CommitSummary(r) \/ CommitMark(r)
    PROVE  KnowInv'
<1>1. PICK c \in Convs : c = conv[r]
  BY DEF All, Inv, StepsAgree, TurnsStay, AfterSave, CommitSummary, CommitMark
<1>2. /\ pc[r] \in AfterSave /\ pc'[r] \in {"current", "stale"} /\ life[c] = "live"
      /\ UNCHANGED <<life, turns, state, crowded, conv, base, draft, seen>>
      /\ \A q \in Requests \ {r} : pc'[q] = pc[q]
      /\ \A b \in Convs \ {c} : summary'[b] = summary[b]
  BY <1>1, WaitTypes DEF All, CommitSummary, CommitMark, Writable, Live, Go, locals, AfterSave
<1>3. Row(c)' /\ (summary[c].over # {} => summary'[c].over # {})
  BY <1>1, WriteRow
<1>4. ASSUME NEW b \in Convs \ {c}
      PROVE  Row(b)'
  <2>1. Row(b) /\ Logged(b)' = Logged(b)
    BY <1>2 DEF KnowInv, Logged
  <2> QED BY <1>2, <2>1 DEF Row, Behind, First
<1>5. ASSUME NEW b \in Convs
      PROVE  Grows(b)
  <2>1. Logged(b)' = Logged(b) /\ Len(turns[b]) \in Nat
    BY <1>2, WaitTypes DEF All, Logged
  <2> QED BY <1>2, <1>3, <2>1 DEF Grows
<1>6. Hand(r)'
  <2>1. base[r].over \cup {r} \subseteq Logged(c) /\ Count(r) <= Len(turns[c])
    BY <1>1, <1>2 DEF KnowInv, Hand
  <2>2. Logged(c)' = Logged(c) /\ Count(r)' = Count(r) /\ conv'[r] = c
    BY <1>1, <1>2 DEF Logged, Count
  <2> QED BY <1>2, <2>1, <2>2 DEF Hand
<1>7. \A q \in Requests : Hand(q)'
  BY <1>2, <1>5, <1>6, HandKeeps DEF All
<1> QED BY <1>3, <1>4, <1>7 DEF KnowInv

(* Of a conversation that is deleted there is nothing left to know.        *)
LEMMA DeleteKnows ==
    ASSUME All, Inv', KnowInv, NEW d \in Convs, Delete(d)
    PROVE  KnowInv'
<1>1. /\ life'[d] = "deleted" /\ turns'[d] = <<>> /\ state'[d] = NoState
      /\ summary'[d] = NoSummary
      /\ \A c \in Convs \ {d} : /\ life'[c] = life[c] /\ turns'[c] = turns[c]
                                /\ state'[c] = state[c] /\ summary'[c] = summary[c]
      /\ UNCHANGED <<crowded, pc, conv, base, draft, seen>>
  BY WaitTypes DEF All, Delete, locals
<1>2. Len(<<>>) = 0
  OBVIOUS
<1>3. Row(d)'
  BY <1>1, <1>2 DEF Row, Behind, Blank, NoState, NoSummary
<1>4. ASSUME NEW c \in Convs \ {d}
      PROVE  Row(c)' /\ Grows(c)
  <2>1. Row(c) /\ Logged(c)' = Logged(c) /\ Len(turns[c]) \in Nat
    BY <1>1, WaitTypes DEF All, KnowInv, Logged
  <2> QED BY <1>1, <2>1 DEF Row, Behind, First, Grows
<1>5. Grows(d)
  BY <1>1 DEF Grows
<1>6. \A q \in Requests : Hand(q)'
  BY <1>1, <1>4, <1>5, HandKeeps DEF All
<1> QED BY <1>3, <1>4, <1>6 DEF KnowInv

(* Every step keeps the invariant.                                         *)
LEMMA NextKnow ==
    ASSUME All, Inv', KnowInv, [Next]_vars
    PROVE  KnowInv'
<1>1. ASSUME NEW r \in Requests, NEW c \in Convs, SaveFirst(r, c)
      PROVE  KnowInv'
  BY <1>1, SaveKnows DEF SaveFirst
<1>2. ASSUME NEW r \in Requests, SaveNext(r)
      PROVE  KnowInv'
  <2>1. PICK c \in Convs : c = conv[r]
    BY <1>2, WaitTypes DEF All, SaveNext
  <2> QED BY <1>2, <2>1, SaveKnows DEF SaveNext
<1>3. ASSUME (\E c \in Convs : Expire(c)) \/ UNCHANGED vars
      PROVE  KnowInv'
  <2>1. UNCHANGED <<life, turns, state, summary, crowded, pc, conv, base, draft, seen>>
    BY <1>3 DEF Expire, vars, database, locals
  <2>2. ASSUME NEW c \in Convs
        PROVE  Row(c)' /\ Grows(c)
    <3>1. Logged(c)' = Logged(c) /\ Row(c) /\ Len(turns[c]) \in Nat
      BY <2>1, WaitTypes DEF All, Logged, KnowInv
    <3> QED BY <2>1, <3>1 DEF Row, Behind, First, Grows
  <2>3. \A q \in Requests : Hand(q)'
    BY <2>1, <2>2, HandKeeps DEF All
  <2> QED BY <2>2, <2>3 DEF KnowInv
<1>4. ASSUME NEW r \in Requests, CommitSummary(r) \/ CommitMark(r)
      PROVE  KnowInv'
  BY <1>4, WriteKnows
<1>5. ASSUME NEW c \in Convs, Delete(c)
      PROVE  KnowInv'
  BY <1>5, DeleteKnows
<1> QED BY <1>1, <1>2, <1>3, <1>4, <1>5, EmptyHands, FullHands DEF All, Next, Step

(* Whatever two writers of a summary mix, the row neither counts nor       *)
(* covers a turn that was not saved and is current only with a text, and   *)
(* where the client waits its count says which turns the text is made from *)
(* (save_summary, mark_summary_stale).                                     *)
THEOREM SummaryAlwaysKnowsItsTurns == Spec => []SummaryKnowsItsTurns
<1>1. KnowInv => SummaryKnowsItsTurns
  BY DEF KnowInv, Row, Behind, First, SummaryKnowsItsTurns
<1>2. All /\ Inv' /\ KnowInv /\ [Next]_vars => KnowInv'
  BY NextKnow
<1>3. Spec => []KnowInv
  BY <1>2, InitKnow, Invariance, WaitInvariance, PTL DEF Spec
<1> QED BY <1>1, <1>3, PTL
=============================================================================
