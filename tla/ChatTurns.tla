----------------------------- MODULE ChatTurns ------------------------------
(***************************************************************************)
(* Chat requests against the database and the Redis history cache: each    *)
(* request is a coroutine (ChatWorkflow.process_message[_stream]) that     *)
(* can be overtaken at every await, cut off at any point (the client goes  *)
(* away, the process stops), and meets conversations being deleted.        *)
(*                                                                         *)
(* A turn (a pair of messages) is named by the request that made it.  What *)
(* a working state or a summary says is kept as the set of turns it was    *)
(* worked out from; what it says of them is the business of                *)
(* CoachingSession.  A history is the number of leading turns it holds.    *)
(***************************************************************************)
EXTENDS Integers, Sequences, FiniteSets

CONSTANTS
    Convs,      \* conversation identifiers
    Requests,   \* chat requests, each handled once
    NoConv      \* conversation_id = None

ASSUME NoConvAssumption == NoConv \notin Convs

VARIABLES
    life,       \* conversations row: "unused", "live" or "deleted"
    turns,      \* messages of each conversation, oldest first
    state,      \* coaching_working_states row
    summary,    \* coaching_summaries row
    cache,      \* history cached in Redis under the key of the conversation
    pc,         \* where each request is
    conv,       \* its conversation_id
    heard,      \* the history it read
    base,       \* the working state it read
    saved,      \* turns there were when it read the working state (history)
    draft,      \* the turns its summary text was made from
    seen,       \* the summary row it loaded
    answer,     \* what its client was told
    entered,    \* the requests whose turn was saved (history)
    crowded     \* conversations whose client did not wait for an answer
                \* before it wrote again (history)

\* The rows, and the two histories of what was asked of them.
database == <<life, turns, state, summary, entered, crowded>>
locals == <<conv, heard, base, saved, draft, seen>>
vars == <<database, cache, pc, locals, answer>>

Steps == {"idle", "history", "load", "store", "state", "reply", "save",
          "refresh", "invalidate", "summarize", "select", "commit",
          "mark", "marking", "current", "stale", "over"}

\* "current" and "stale": done, with this summary_status
Answers == {"none", "error", "current", "stale"}

NoEntry == -1
NoState == [count |-> 0, over |-> {}]
NoSummary == [status |-> "none", count |-> 0, over |-> {}]

States == [count: Nat, over: SUBSET Requests]
Summaries ==
    [status: {"none", "current", "stale"}, count: Nat, over: SUBSET Requests]

Live(c) == life[c] = "live"
InFlight(r) == pc[r] \notin {"idle", "over"}
Busy(c) == \E r \in Requests : InFlight(r) /\ conv[r] = c
Logged(c) == {turns[c][i] : i \in DOMAIN turns[c]}

-----------------------------------------------------------------------------
Init ==
    /\ life = [c \in Convs |-> "unused"]
    /\ turns = [c \in Convs |-> <<>>]
    /\ state = [c \in Convs |-> NoState]
    /\ summary = [c \in Convs |-> NoSummary]
    /\ cache = [c \in Convs |-> NoEntry]
    /\ pc = [r \in Requests |-> "idle"]
    /\ conv = [r \in Requests |-> NoConv]
    /\ heard = [r \in Requests |-> 0]
    /\ base = [r \in Requests |-> NoState]
    /\ saved = [r \in Requests |-> 0]
    /\ draft = [r \in Requests |-> {}]
    /\ seen = [r \in Requests |-> NoSummary]
    /\ answer = [r \in Requests |-> "none"]
    /\ entered = {}
    /\ crowded = {}

Go(r, step) == pc' = [pc EXCEPT ![r] = step]

Finish(r, told) ==
    /\ Go(r, "over")
    /\ answer' = [answer EXCEPT ![r] = told]

(* An exception leaves the workflow: an error event or a 4xx/5xx status.   *)
Fail(r) == Finish(r, "error") /\ UNCHANGED <<database, cache, locals>>

(* retrieve_data: the conversation has to exist; a request without one     *)
(* starts a conversation when its turn is saved.                           *)
Accept(r, c) ==
    /\ pc[r] = "idle"
    /\ c # NoConv => life[c] # "unused"
    /\ crowded' = crowded \cup {d \in Convs : d = c /\ Busy(c)}
    /\ conv' = [conv EXCEPT ![r] = c]
    /\ IF c # NoConv /\ ~Live(c)
       THEN Finish(r, "error")
       ELSE Go(r, "history") /\ UNCHANGED answer
    /\ UNCHANGED <<life, turns, state, summary, entered, cache>>
    /\ UNCHANGED <<heard, base, saved, draft, seen>>

(* _fetch_history: the cache, or else the database and then the cache.     *)
(* The key of a new conversation holds the empty history at all times.     *)
ReadCache(r) ==
    /\ pc[r] = "history"
    /\ LET c == conv[r]
       IN  IF c # NoConv /\ cache[c] = NoEntry
           THEN Go(r, "load") /\ UNCHANGED heard
           ELSE /\ Go(r, "state")
                /\ heard' = [heard EXCEPT ![r] = IF c = NoConv THEN 0 ELSE cache[c]]
    /\ UNCHANGED <<database, cache, conv, base, saved, draft, seen, answer>>

LoadHistory(r) ==
    /\ pc[r] = "load"
    /\ heard' = [heard EXCEPT ![r] = Len(turns[conv[r]])]
    /\ Go(r, "store")
    /\ UNCHANGED <<database, cache, conv, base, saved, draft, seen, answer>>

\* cache_set swallows its errors
StoreHistory(r) ==
    /\ pc[r] = "store"
    /\ \/ cache' = [cache EXCEPT ![conv[r]] = heard[r]]
       \/ UNCHANGED cache
    /\ Go(r, "state")
    /\ UNCHANGED <<database, locals, answer>>

(* get_working_state; without a row, or a conversation, the default state  *)
ReadState(r) ==
    /\ pc[r] = "state"
    /\ LET c == conv[r]
       IN  /\ base' = [base EXCEPT ![r] = IF c = NoConv THEN NoState ELSE state[c]]
           /\ saved' = [saved EXCEPT ![r] = IF c = NoConv THEN 0 ELSE Len(turns[c])]
    /\ Go(r, "reply")
    /\ UNCHANGED <<database, cache, conv, heard, draft, seen, answer>>

(* Extraction and assessment have fallbacks; query rewriting, embedding    *)
(* and the reply itself have none (ConnectionLost, below).                 *)
Reply(r) ==
    /\ pc[r] = "reply"
    /\ Go(r, "save")
    /\ UNCHANGED <<database, cache, locals, answer>>

(* save_conversation_turn: one transaction.  Updating the conversations    *)
(* row, before the working state is selected, makes the savers of a        *)
(* conversation take turns.                                                *)
\* Mutant: turns are numbered from the history that was read.
CountHeard(r) == heard[r] + 1

Count(r) == base[r].count + 1

Transcript(c, r) == Append(turns[c], r)

\* Mutant: what earlier turns told the coach is dropped.
NewStateOfTurn(r) == [count |-> Count(r), over |-> {r}]

NewState(r) == [count |-> Count(r), over |-> base[r].over \cup {r}]

SavedIn(c, r) ==
    /\ turns' = [turns EXCEPT ![c] = Transcript(c, r)]
    /\ state' = [state EXCEPT ![c] = NewState(r)]
    /\ entered' = entered \cup {r}
    /\ Go(r, "refresh")
    /\ UNCHANGED <<summary, crowded, cache, heard, base, saved, draft, seen, answer>>

SaveFirst(r, c) ==
    /\ pc[r] = "save"
    /\ conv[r] = NoConv
    /\ life[c] = "unused"
    /\ life' = [life EXCEPT ![c] = "live"]
    /\ conv' = [conv EXCEPT ![r] = c]
    /\ SavedIn(c, r)

SaveNext(r) ==
    /\ pc[r] = "save"
    /\ conv[r] # NoConv
    /\ Live(conv[r])
    /\ SavedIn(conv[r], r)
    /\ UNCHANGED <<life, conv>>

\* Mutant: a refused save is acknowledged.
SaveRefusedAnswered(r) ==
    /\ pc[r] = "save"
    /\ conv[r] # NoConv
    /\ ~Live(conv[r])
    /\ Finish(r, "stale")
    /\ UNCHANGED <<database, cache, locals>>

SaveRefused(r) ==
    /\ pc[r] = "save"
    /\ conv[r] # NoConv
    /\ ~Live(conv[r])
    /\ Fail(r)

(* db.refresh of the two messages, after the commit *)
Refresh(r) ==
    /\ pc[r] = "refresh"
    /\ Live(conv[r])
    /\ Go(r, "invalidate")
    /\ UNCHANGED <<database, cache, locals, answer>>

RefreshRefused(r) ==
    /\ pc[r] = "refresh"
    /\ ~Live(conv[r])
    /\ Fail(r)

(* _invalidate_history_cache deletes the keys that match                   *)
(* "hist:" + md5("<user>:*"), a digest without wildcards: the key of no    *)
(* conversation.                                                           *)
InvalidatedKeys(r) == {}

Invalidate(r) ==
    /\ pc[r] = "invalidate"
    /\ cache' = [c \in Convs |-> IF c \in InvalidatedKeys(r) THEN NoEntry ELSE cache[c]]
    /\ Go(r, "summarize")
    /\ UNCHANGED <<database, locals, answer>>

(* get_summary and refresh_summary: the new text is made from the previous *)
(* text and the working state of the turn.  Any failure up to the commit   *)
(* of save_summary is answered by mark_summary_stale.                      *)
\* Mutant: the text is made from the previous text and this turn only.
TextOfTurn(r) == summary[conv[r]].over \cup {r}

Text(r) == summary[conv[r]].over \cup base[r].over \cup {r}

Summarize(r) ==
    /\ pc[r] = "summarize"
    /\ draft' = [draft EXCEPT ![r] = Text(r)]
    /\ Go(r, "select")
    /\ UNCHANGED <<database, cache, conv, heard, base, saved, seen, answer>>

SummaryFails(r) ==
    /\ pc[r] \in {"summarize", "select", "commit"}
    /\ Go(r, "mark")
    /\ UNCHANGED <<database, cache, locals, answer>>

(* save_summary and mark_summary_stale load the row, assign to it and      *)
(* commit: the UPDATE names only the columns that differ from the row as   *)
(* it was loaded, the INSERT needs the conversation and no other row.      *)
Select(r) ==
    /\ \/ pc[r] = "select" /\ Go(r, "commit")
       \/ pc[r] = "mark" /\ Go(r, "marking")
    /\ seen' = [seen EXCEPT ![r] = summary[conv[r]]]
    /\ UNCHANGED <<database, cache, conv, heard, base, saved, draft, answer>>

Flushed(loaded, new, row) ==
    [f \in DOMAIN row |-> IF new[f] = loaded[f] THEN row[f] ELSE new[f]]

Written(r, c) ==
    Flushed(seen[r],
            [status |-> "current", count |-> Count(r), over |-> draft[r]],
            summary[c])

\* Mutant: marking a row stale also counts this turn.
MarkedRecounted(r, c) ==
    Flushed(seen[r],
            [status |-> "stale", count |-> Count(r), over |-> seen[r].over],
            summary[c])

Marked(r, c) ==
    Flushed(seen[r],
            IF seen[r].status = "none"
            THEN [status |-> "stale", count |-> Count(r), over |-> {}]
            ELSE [seen[r] EXCEPT !.status = "stale"],
            summary[c])

\* Mutant: no foreign key.
WritableAnywhere(r, c) == seen[r].status = "none" <=> summary[c].status = "none"

\* An INSERT finds no row; an UPDATE finds the row it loaded.
Writable(r, c) == Live(c) /\ (seen[r].status = "none" <=> summary[c].status = "none")

CommitSummary(r) ==
    /\ pc[r] = "commit"
    /\ Writable(r, conv[r])
    /\ summary' = [summary EXCEPT ![conv[r]] = Written(r, conv[r])]
    /\ Go(r, "current")
    /\ UNCHANGED <<life, turns, state, entered, crowded, cache, locals, answer>>

SummaryRefused(r) ==
    /\ pc[r] = "commit"
    /\ ~Writable(r, conv[r])
    /\ Go(r, "mark")
    /\ UNCHANGED <<database, cache, locals, answer>>

CommitMark(r) ==
    /\ pc[r] = "marking"
    /\ Writable(r, conv[r])
    /\ summary' = [summary EXCEPT ![conv[r]] = Marked(r, conv[r])]
    /\ Go(r, "stale")
    /\ UNCHANGED <<life, turns, state, entered, crowded, cache, locals, answer>>

\* Mutant: only the loading of the row is guarded.
MarkFailsLoading(r) ==
    /\ pc[r] = "mark"
    /\ Go(r, "stale")
    /\ UNCHANGED <<database, cache, locals, answer>>

\* Mutant: a summary that cannot be marked stale is an error.
MarkFailsLoudly(r) == pc[r] \in {"mark", "marking"} /\ Fail(r)

\* The failure is logged and swallowed.
MarkFails(r) ==
    /\ pc[r] \in {"mark", "marking"}
    /\ Go(r, "stale")
    /\ UNCHANGED <<database, cache, locals, answer>>

Done(r) ==
    /\ pc[r] \in {"current", "stale"}
    /\ Finish(r, pc[r])
    /\ UNCHANGED <<database, cache, locals>>

-----------------------------------------------------------------------------
(* The environment *)

(* The database or a provider fails where nothing catches it; the          *)
(* transaction in progress, if any, is rolled back.                        *)
ConnectionLost(r) ==
    /\ pc[r] \in {"history", "load", "state", "reply", "save", "refresh"}
    /\ Fail(r)

(* The stream is cancelled or the process stops: no handler runs           *)
(* (CancelledError is not an Exception), nothing more is written.          *)
CutOff(r) ==
    /\ InFlight(r)
    /\ Go(r, "over")
    /\ UNCHANGED <<database, cache, locals, answer>>

(* delete_conversation: the rows that refer to it go with it.              *)
Delete(c) ==
    /\ Live(c)
    /\ life' = [life EXCEPT ![c] = "deleted"]
    /\ turns' = [turns EXCEPT ![c] = <<>>]
    /\ state' = [state EXCEPT ![c] = NoState]
    /\ summary' = [summary EXCEPT ![c] = NoSummary]
    /\ UNCHANGED <<entered, crowded, cache, pc, locals, answer>>

\* The entry's time to live (CACHE_HISTORY_TTL) is over.
Expire(c) ==
    /\ cache[c] # NoEntry
    /\ cache' = [cache EXCEPT ![c] = NoEntry]
    /\ UNCHANGED <<database, pc, locals, answer>>

Step(r) ==
    \/ ReadCache(r) \/ LoadHistory(r) \/ StoreHistory(r)
    \/ ReadState(r) \/ Reply(r)
    \/ (\E c \in Convs : SaveFirst(r, c)) \/ SaveNext(r) \/ SaveRefused(r)
    \/ Refresh(r) \/ RefreshRefused(r) \/ Invalidate(r)
    \/ Summarize(r) \/ SummaryFails(r) \/ Select(r)
    \/ CommitSummary(r) \/ SummaryRefused(r) \/ CommitMark(r) \/ MarkFails(r)
    \/ Done(r)

Next ==
    \/ \E r \in Requests, c \in Convs \cup {NoConv} : Accept(r, c)
    \/ \E r \in Requests : Step(r) \/ ConnectionLost(r) \/ CutOff(r)
    \/ \E c \in Convs : Delete(c) \/ Expire(c)

Spec == Init /\ [][Next]_vars

(* Every await of a request returns: the provider calls have a timeout and *)
(* the event loop runs every task that is ready.                           *)
FairSpec == Spec /\ \A r \in Requests : WF_vars(Step(r))
-----------------------------------------------------------------------------
TypeOK ==
    /\ life \in [Convs -> {"unused", "live", "deleted"}]
    /\ turns \in [Convs -> Seq(Requests)]
    /\ state \in [Convs -> States]
    /\ summary \in [Convs -> Summaries]
    /\ cache \in [Convs -> Nat \cup {NoEntry}]
    /\ pc \in [Requests -> Steps]
    /\ conv \in [Requests -> Convs \cup {NoConv}]
    /\ heard \in [Requests -> Nat]
    /\ base \in [Requests -> States]
    /\ saved \in [Requests -> Nat]
    /\ draft \in [Requests -> SUBSET Requests]
    /\ seen \in [Requests -> Summaries]
    /\ answer \in [Requests -> Answers]
    /\ entered \in SUBSET Requests
    /\ crowded \in SUBSET Convs

Acknowledged == {r \in Requests : answer[r] \in {"current", "stale"}}

(* README.md: "The frontend must only reconcile an optimistic message after *)
(* the database has saved it", and "done" is what makes that safe.  Whoever *)
(* was sent "done" has a turn in the transcript, unless the conversation    *)
(* was deleted meanwhile; no later save or cancellation takes it away.      *)
AcknowledgedIsSaved ==
    \A r \in Acknowledged : Live(conv[r]) => r \in Logged(conv[r])

(* Deleting a conversation while requests are at work in it (their save,    *)
(* their summary or its stale mark still to come) leaves nothing behind:    *)
(* no turn, working state or summary of a conversation that is not there.   *)
NoOrphans ==
    \A c \in Convs : ~Live(c) =>
        turns[c] = <<>> /\ state[c] = NoState /\ summary[c] = NoSummary

(* The working state is read long before it is replaced.  A saved turn is   *)
(* missing from it only if a later turn was already under way when it was   *)
(* saved: nothing else (failures, deletions, cancelled requests) loses what *)
(* a turn told the coach.                                                   *)
OnlyOverlapDropsTurns ==
    \A c \in Convs : \A i \in DOMAIN turns[c] :
        turns[c][i] \notin state[c].over =>
            \E j \in DOMAIN turns[c] :
                j > i /\ turns[c][j] \in state[c].over /\ saved[turns[c][j]] < i

(* Where the client waits for its answers, the working state is made from   *)
(* every saved turn, and source_turn_count counts them, whatever failed or  *)
(* was cut off before.                                                      *)
StateIsComplete ==
    \A c \in Convs \ crowded :
        state[c] = [count |-> Len(turns[c]), over |-> Logged(c)]

(* In such a conversation a summary reported as current is so: when the     *)
(* last saved turn was answered with summary_status "current", the stored   *)
(* summary has that status, the working state's turn count, and covers      *)
(* every turn, those whose own refresh failed or was cut off included.      *)
CurrentSummaryIsCurrent ==
    \A c \in Convs \ crowded :
        turns[c] # <<>> /\ answer[turns[c][Len(turns[c])]] = "current" =>
            summary[c] = [status |-> "current", count |-> Len(turns[c]),
                          over |-> Logged(c)]

(* Two writers of a summary row may mix their columns, and a stale mark     *)
(* replaces one of them.  Whatever they mix, the row neither counts nor     *)
(* covers a turn that was not saved, and is not current without a text;     *)
(* where the client waits, the count says which turns the text is made      *)
(* from, also when the refreshes after it failed.                           *)
SummaryKnowsItsTurns ==
    \A c \in Convs :
        LET row == summary[c]
        IN  /\ row.count <= Len(turns[c]) /\ row.over \subseteq Logged(c)
            /\ row.status = "current" => row.over # {}
            /\ c \notin crowded /\ row.over # {} =>
                 row.over = {turns[c][i] : i \in 1..row.count}

(* docs/calibration-cycle-3.md: "consult the actual preceding question".    *)
(* Where the client waits for its answers, the history a request reads ends *)
(* with the last saved turn.                                                *)
HistoryIsFresh ==
    \A r \in Requests :
        pc[r] = "state" /\ conv[r] \in Convs \ crowded /\ Live(conv[r]) =>
            heard[r] = Len(turns[conv[r]])

(* Every request that is accepted is answered, with "done" or an error,     *)
(* unless it is cut off.  A turn that is saved is reported as an error only *)
(* if the refresh right after its commit fails (save_conversation_turn): of *)
(* what comes later - the cache, the model, the summary, the stale mark -   *)
(* nothing that fails, and nothing that is deleted meanwhile, keeps the     *)
(* client from being told.                                                  *)
RequestsEnd ==
    \A r \in Requests :
        /\ InFlight(r) ~> pc[r] = "over"
        /\ pc[r] = "invalidate" ~> pc[r] = "over" /\ answer[r] # "error"

-----------------------------------------------------------------------------
Log == INSTANCE TurnLog WITH acknowledged <- Acknowledged

ImplementsTurnLog == Log!Spec
=============================================================================
