# A TLA+ verification of the coaching backend

This directory models the core of the repository, an AI leadership coach served
by FastAPI: what it decides to do in a turn, how turns are stored while
requests overlap and fail, what of them a continuity summary may keep, how the
knowledge base behind the replies is filled, emptied and searched, and how
accounts, sessions and password recovery behave under concurrent requests. The
models are checked with TLC on small instances; every safety property except
the absence of deadlock over row locks, and every refinement, is also proved with
TLAPS for every value of the constants. `PROJECT.json` lists the components, the
runs, the definitions with the lines they stand for, the hazards, the findings
and the theorems.

Paths below are relative to `src/app/` unless they start with `src/`.

## 1. Inventory

| Component | State | Operations | Talks to |
|---|---|---|---|
| Coaching policy (`services/coaching_policy_service.py`) | none | `enforce`, `build_response_policy`, and the rules they consist of | called by the workflow and by the retention gate |
| Coaching working state (`services/coaching_memory_service.py`, `schemas/coaching.py`) | `coaching_working_states.state`, one JSON per conversation | `prepare_state_for_turn`, `update_working_state`, `_merge_action_context`, `assess_turn`, `conservative_state` | the language model (twice per turn) |
| Coaching summaries (same file) | `coaching_summaries` | `refresh_summary`, `_apply_retention_gate`, `select_relevant_summaries` | policy, language model |
| Chat workflow (`workflows/chat_workflow.py`, `api/v1/user/chat.py`) | locals of the request | retrieve, assess, build context, generate, save; plain and streamed | everything below |
| Chat history (`services/chat_history_service.py`) | `conversations`, `messages`, and the two tables above | save a turn, save a summary, mark it stale, list, delete | PostgreSQL |
| Redis cache (`core/cache.py`) | histories, search results, embeddings, each with a TTL | get, set, delete by pattern; errors swallowed | workflow, vector store |
| Documents (`services/document_service.py`, `api/v1/admin/documents.py`) | files, `documents`, `document_chunks` | upload and process, delete, list accessible | vector store |
| Vector store (`core/vector_store.py`) | points in Qdrant | scoped search, upsert, delete | Qdrant, cache |
| Sessions (`api/v1/auth.py`, `repositories/refresh_token_repository.py`) | `refresh_tokens` | sign-in, refresh with rotation, revocation of all tokens | accounts |
| Password recovery (`api/v1/auth.py`, `repositories/password_reset_code_repository.py`) | `password_reset_codes` | request, verify, reset, with attempt limit and expiry | e-mail |
| Accounts and agreements (`api/v1/users.py`, `repositories/*`) | `users`, `agreement_acceptances` | register, link a Google identity, accept | |
| Dashboard, providers, scripts, unused RAG service | none of their own | read-only or external | |

What makes this code hard:

* **Two model calls per turn, both of which may fail, retry or return anything
  the schema allows.** What the client said about an action, what the coach
  and the client share as a picture, and what the coach may do are kept in
  different fields, written in different calls and turns, and combined by a
  policy of a dozen ordered rules, many of which return early. The policy is
  then applied to its own output (`build_response_policy`,
  `_apply_retention_gate`).
* **Read, think for seconds, write.** A turn reads a history and a working
  state and replaces the working state at the end. Other requests of the same
  conversation, a deletion, a cancelled stream or a crash can fall anywhere in
  between. The summary is a second transaction after the turn, the stale mark a
  third.
* **Four stores, no transaction over them.** A document is a file, a row, its
  chunk rows and its vectors; search results of it are cached for other
  readers. `document_chunks` has no foreign key.
* **Codes, tokens and addresses** are read, checked and used up in separate
  statements at read committed, some of which wait for another transaction,
  one of them for a mail server.

What makes each component correct (each of these is a property below):

* policy and working state: the late stages and teaching are earned; refusals
  bind and survive; the picture, the basis and the unknowns agree; deciding
  twice does not widen a decision;
* summaries: commitments and discoveries enter only from turns that earned
  them; what the client revised away leaves, unless its refresh was missed;
* chat: an acknowledged turn is saved, once and whole; nothing outlives its
  conversation; working state and summary miss no turn unless requests overlap;
  every request ends;
* documents: rows, chunks, vectors and files agree after any interruption; a
  search never returns what its user may not see; no sentence is lost by cutting
  a text into chunks;
* sessions: a token that was exchanged is dead; a password change ends every
  session that is not racing with it; nobody is signed out by a refused refresh;
* recovery: codes are spent once, counted, spaced and retired, and no failure
  takes a working code away;
* accounts: an address or identity names one account; no password without an
  accepted agreement; an identity keeps its account.

Where the code leaves a race to chance, the property says which overlap it
takes ("`OnlyOverlap...`"): requests that follow one another are never affected.

## 2. Modules

```
CoachingPolicy <-- ActionContext <-- CoachingSession <-- MCInputs <-- MCCoachingSession
                                           ^                 ^
                                    SummaryRetention <-- MCSummaryRetention

TurnLog    <== implements ==  ChatTurns
Library    <== implements ==  DocumentStore
Directory  <== implements ==  Accounts
Rotation   <== implements ==  Sessions        (requests that do not overlap)
Recovery   <== implements ==  PasswordReset   (requests that do not overlap)
                              Chunking

Each of ChatTurns ... PasswordReset has its MC module.  X_proofs extends X;
SummaryRetention_proofs extends CoachingSession_proofs, which begins with the
facts about the policy.
```

**CoachingPolicy** is `CoachingPolicyService.enforce`, a pure function from
working states to working states. It is written rule by rule in the order of
the code: `Normalize`, `Redirect`, then boundaries, repairs and gates, each of
which lowers the stage through `Downgrade` or lets the proposal pass. Texts
are not modelled: evidence is "there is some", an action's wording is a member
of `Texts`, and what the client said about an action is the record the code
keeps (status, readiness, scope, two permissions).

**ActionContext** is the body of the loop in `_merge_action_context`: one
update, which either raises (no successor), says nothing new, revises a record
or makes one. A draft holds the loop's local variables. Where an excerpt was
found (current message, an earlier one, nowhere) is part of the update.

**CoachingSession** is the life of a conversation, turn by turn. Its actions
are the extraction (updates one at a time, then `FinishExtraction`), the
assessment (`Assess`, with all of `assess_turn`'s refusals in `Valid`), their
retries and fallbacks, `Decide` (`enforce` as `assess_coaching_move` calls it),
`SaveTurn` and `LoseTurn`. `Guidance` is what the reply is written under:
`build_response_policy` enforces the decision once more. Only the part of the
state that a later turn reads is persisted (`Durable`); the comment there says
why the rest can be left out. Turns of one conversation follow one another
here; their overlap is the subject of ChatTurns, where a turn that is overtaken
saves a state worked out from an older one.

**SummaryRetention** adds the continuity summary to CoachingSession: after a
turn is saved (`SaveThenRefresh`) its summary is refreshed from the recorded
decision. The model returns any revision; `Supported` is what
`refresh_summary` demands of it (an unsupported change is a failed refresh,
which keeps the text and marks it stale), `Gated` is `_apply_retention_gate`,
which chooses field by field between the revision and the text that was there,
and enforces the decision a second time to do so. Fields are of three kinds,
as in the code: grounded, understanding and action fields. `takenBack` and
`missed` are history: texts the client revised away, and those of them whose
own refresh failed or was cut off.

**ChatTurns** is a request as a coroutine: one step per await of
`process_message_stream`, from the history cache to the `done` event. It also
has every failure: an exception that leaves the workflow, one that is answered
by `mark_summary_stale`, one that is swallowed, a cancelled stream or stopped
process (`CutOff`), and a conversation that is deleted meanwhile. A turn is
named by its request; a working state or summary is the *set of turns it was
made from* and the counter the code stores. `Flushed` is the behaviour of
SQLAlchemy's unit of work: an UPDATE writes the columns that differ from the
row as it was loaded, so two writers of one summary row can mix. `crowded` is
history: the conversations in which a request began while another was at work,
so that one model serves clients that wait for their answers and clients that
do not. Titles and the cache entry of conversations without an identifier
(always the empty history) are left out.

**TurnLog** is what a client may rely on: append-only logs of whole turns,
acknowledged only after they are in the log, deleted only as a whole.

**DocumentStore** is `process_document`, `delete_document`, and
`_fetch_documents` with `VectorStore.search`. One step is what the single
process (`uvicorn app.main:app`, as the repository's README starts it) runs
between two awaits: the database sessions there are synchronous, calls to the
embedding model and Qdrant are not. Failures include a Qdrant call that took
effect although it was reported as failed. Any hits within the allowed
documents may come back; the model has one query, so the cache key is the set
of allowed documents.

**Library** is what an admin and a user may rely on: a document is offered whole
or not at all, to one user or to everyone; a confirmed one was offered; a
withdrawn one never comes back; and a search answers from what was offered to
its user at the one moment it began. `Lib` in DocumentStore is the mapping: a
document is on offer while its row says completed.

**Chunking** is `_chunk_text`. Text is a line of characters and a chunk an
interval of it, because the code only ever appends a sentence to the current
chunk or keeps its last `CHUNK_OVERLAP` characters. `Read` draws the next
sentence; `Extend` and `Close` are the two branches of the loop. Lengths are
numbers of characters, as `len` counts them; nothing in the code counts words
(section 4).

**Sessions** has the refresh tokens of one account. A request is a sign-in, a
refresh or a password change, and a step is one database statement: a refresh
reads the token, reads the user, revokes and commits, inserts and commits
(`Lookup`, `ReadUser`, `Revoke`, `Create`), and may be cut off after each. A
password change is an UPDATE, which fixes the rows it revokes (`targets`), and
a COMMIT (`RevokeAll`, `CommitChange`): a token inserted between the two is not
among them, and a refresh whose row is held (`Held`) waits. `signedIn` and
`stems` are history: the changes that were done when the sign-in behind a token
was checked, and the requests the token stems from. Accounts are deactivated and
tokens expire at any time.

**Rotation** is what a client that waits for its answers may rely on: a session
is one refresh token at a time, which is exchanged for one other, expires or is
lost, and a password change ends them all. Sessions does not implement it when
requests overlap (`OnlyOverlapForks` says what happens then); `SerialIsRotation`
says that it does as long as no request has begun while another was under way
(`Serial`), in whatever state interrupted requests, expiry and deactivation left
the rows. `Rot` maps to it: a token counts as alive until its exchange is over.

**PasswordReset** has the codes of one account. An `UPDATE` is two steps, the
snapshot it selects its rows from and the write, so that it can wait for a row
another transaction has written; `forgot_password` keeps those locks while it
waits for the mail server and until its commit (`Locked`). Time is a clock of
a few ticks. Codes are named by their requests: two equal codes by chance are
left out; a wrong entry is one that differs from the code it is compared with.

**Recovery** is the same for password recovery: a code that was sent becomes the
only good one, is good for `MaxAttempts` mistakes, is confirmed, and then resets
the password once. `SerialIsRecovery` says that PasswordReset implements it as
long as requests do not overlap, interrupted, undelivered and mistaken ones
included. Time is not in it: the lifetime of a code and the spacing of requests
only forbid steps it would allow (`OnlyOverlapCrowdsCodes` is about them).

**Accounts** has registration, Google sign-in up to the tokens, a change of
address and the acceptance of the agreement. Each looks first and writes later;
in between, the unique constraints decide: a write waits for an uncommitted row
with its key (`Pending`) and ends in an error, caught by nobody, on a committed
one (`Taken`). An address is a name and whether it is spelled with capitals:
`get_by_email` compares folded addresses, the index compares spellings.

**Directory** is the accounts as if every request ran by itself: a name (an
address, however spelled) and an identity belong to one account each, and
registering, signing up, signing in, linking, renaming and accepting each happen
at one moment, on the accounts as they are then. `Dir` in Accounts maps to it the
committed rows only.

The MC modules hold the instances; MCInputs has what the two of them that run
coaching turns build their inputs from. Definitions whose comment says *Mutant*
are not part of a model: each is a plausible bug in the definition after it, and
`PROJECT.json` ("mutants") names the property that fails when the code is
replaced by it.

## 3. Runs

| Run | Instance | What it shows |
|---|---|---|
| `session_turns` | four scenarios over any number of turns (below) | `ActionIsEarned`: the action stage needs a supported picture, evidence, an owned outcome and action, and no refusal, all at once; `BoundariesBind`: no reply works against a refusal; `TeachingIsEarned`; `PictureAndBasisAgree`; `GuidanceNeverWidens`: enforcing again never reaches the action stage, support or teaching that the decision did not; `UpdatesAreScoped`: at every step of a merge, what a record says differently from the saved one was said by an update of that scope in this attempt, so that a merge that breaks off leaves nothing to its retry; over several turns `RefusalsSurvive`, and `PictureIsReestablished`: a withdrawn picture comes back only by being established, and a turn that fell back carries none on |
| `session_reenforced` | the same | *violated:* `GuidanceIsDecision` (finding 1) |
| `summary_retained` | one field of each kind, two wordings, two scenarios | `CommitmentsAreEarned`, `DiscoveriesAreTested`, `OnlyMissedRefreshKeepsDiscovery` |
| `turns_overlapping` | three requests, one conversation, any overlap | `NoOrphans`; `OnlyOverlapDropsTurns`: overlap is the only thing that loses what a turn told the coach; `StateIsComplete`, `CurrentSummaryIsCurrent`: where the client waits, state and summary cover every saved turn, skipped and failed refreshes made up for; `SummaryKnowsItsTurns`: whatever two writers of a summary row mix, it neither counts nor covers a turn that was not saved and is current only with a text, and where the client waits its count says which turns the text is made from |
| `turns_log` | two requests, two conversations, fairness | `ImplementsTurnLog` (refinement), `RequestsEnd` (liveness): every request ends, and one whose turn was saved and read back ends without an error, whatever fails or is deleted after that |
| `turns_history` | three requests, one conversation | *violated:* `HistoryIsFresh` (finding 2) |
| `documents_kept` | two documents, users, deletions and searches | `CompletedIsStored`, `DeletionIsClean`, `RetrievedIsAccessible`, `RetrievedWasCompleted`; `ImplementsLibrary` (refinement) |
| `documents_leftover` | one document, one deletion, while the upload is under way or after it failed | *violated:* `DeletionRemovesVectors` (finding 3) |
| `chunks_split` | texts of five sentences of length 0 to 9; chunk size 8, overlap 3 | `SentencesAreWhole`, `ChunksOverlap`, `SizeIsBounded`: only a single sentence makes a chunk too large, in characters |
| `sessions_rotated` | four requests | `SuccessorEndsToken`, `OnlyOverlapForks`, `OnlyRefreshEndsToken`; `OnlyRacingSurvives`: a session outlives a password change only through a request that was under way during the change; `SerialIsRotation` (refinement) |
| `reset_codes` | four requests at one time, or three over four ticks | `OnlyOverlapMiscounts`, `OnlyOverlapCrowdsCodes`, `OnlyCodeRetiresCode`, `NeverAllWaiting` (no deadlock over row locks); `SerialIsRecovery` (refinement) |
| `accounts_signup` | three requests, two addresses in two spellings, two identities | `EmailsIdentify`, `OnlyOverlapRelinks`, `OnlyOverlapErrs`; `ImplementsDirectory` (refinement), which includes that an account with a password has accepted the agreement |

The type invariants are not among the runs' properties: each is proved for every
instance (`TypeCorrect` in the modules of section 5).

### Bounds, and why they are enough to be interesting

* The domain of an assessment is the product of a dozen fields. The variable
  `scenario` of the MC module fixes, for a behaviour, which fields vary:
  *boundaries* (one action, every way its refusals are set and lifted),
  *repairs* (client feedback, stalled or paused inquiry, retained, established
  or revised picture), *gates* (every stage, every set of the unknowns and
  grounds the gates read) and *merge* (sequences of updates of two actions). The
  number of turns is not bounded. Every rule of the policy looks at one action
  at a time, so one action, in all its recorded states, shows every outcome of
  the gates; merging, where records meet, has two actions, two texts and
  `Capacity = 1` instead of 10, so that the limit is hit.
* A summary has independent fields, each treated by its kind, so one of each
  kind suffices; two wordings tell a replaced text from a kept one. The
  scenarios are *commitments* (every change of a commitment, supported or not)
  and *discoveries* (everything that establishes, tests or revises one).
* Three requests are enough for a turn that is read before and saved after two
  others, and for a third writer of a summary row. The log needs two
  conversations for a turn to land in the wrong one.
* Two documents and two users give each user one that is his and one that is
  not; two deletions may overlap.
* Four requests are enough for a sign-in, two refreshes of its token and a
  password change between them; for two codes, a confirmation and a reset. Over
  time (`MaxTime = 3`) at most `MaxSpread = 3` of them begin: with a cooldown of
  one tick, a window and a lifetime of two and a limit of two, that is enough to
  reach each limit exactly and to pass it.
* A chunk of 8 characters with sentences from empty to longer than a chunk has
  every order of closing, carrying over and overflowing within five sentences.
* `CHECK_DEADLOCK FALSE` outside CoachingSession and SummaryRetention: there are
  finitely many requests, or sentences, each handled once, and the system rests
  when all are over. That requests do not wait for each other for ever is a
  property of its own (`NeverAllWaiting`, `RequestsEnd`).
* The runs of safety properties use symmetry in their interchangeable sets; the
  run with fairness does not.

### Fairness

`FairSpec` of ChatTurns is weak fairness of each request's own steps, used only
for `RequestsEnd`. The code justifies it: a provider call has a timeout
(`core/llm.py:14-21`) and the extraction one of its own, database and Redis
calls return or raise, and the event loop runs every ready task. Nothing is
assumed of clients, deletions, expiry, cancellation or failures.

## 4. Findings

1. *Enforcing twice is not enforcing once* (`session_reenforced`).
   `src/docs/calibration-cycle-5.md` says policy downgrades must be
   idempotent. A reply can be written under another move than the one recorded
   as the decision and carried into the next turn as the last move.
   `GuidanceNeverWidens` is the part that does hold, and `ActionIsFixed` (section
   5) says when enforcing twice does change nothing.
2. *The cached history is never invalidated* (`turns_history`). The pattern is
   hashed together with its asterisk, so it matches no key; within
   the TTL the next message is read against a history without the previous turn.
3. *Deleting a document can leave its vectors* (`documents_leftover`). The
   vectors to delete are found through chunk rows, which a failed or unfinished
   upload does not have. `RetrievedWasCompleted` shows that no search returns
   them, and `DeletionIsClean` that it never happens to a document whose upload
   was reported complete.

Five more places where the code does or allows something else than a document or
test suggests. There is no violated run for them; the property named is what does
hold, and in the first four the overlap or failure it excepts is the case.

* A correction removes stale understanding from continuity
  (`src/tests/test_coaching_operating_system.py:238`), but only in the refresh
  of its own turn (`services/coaching_memory_service.py:629`). If that refresh
  is missed, a later one keeps the withdrawn text and reports the summary
  current: `OnlyMissedRefreshKeepsDiscovery`.
* Rotation exchanges one token for one (`src/README.md:318-319`); two
  overlapping refreshes of a token both read it as active
  (`api/v1/auth.py:290`) and both succeed: `OnlyOverlapForks`.
* A password reset revokes existing sessions
  (`src/tests/test_password_recovery_contract.py:272`); a sign-in whose
  password was checked before it and whose token is stored after the UPDATE of
  `revoke_all_for_user` (`api/v1/auth.py:191`) stays, even if it is stored before
  that is committed: `OnlyRacingSurvives`.
* A conflicting address returns 409 (`src/README.md:345`); one that is taken
  between the check and the commit (`api/v1/users.py:76`) ends in an
  unhandled error: `OnlyOverlapErrs`.
* "Text is split into ~500-word chunks with overlap" (`src/README.md:580`). The
  code compares `CHUNK_SIZE = 500` (`core/config.py:46`) with `len()`
  (`services/document_service.py:180`), so a chunk has about 500 *characters*,
  and its overlap 50. Chunking follows the code: `ChunksOverlap` is what the
  sentence says of the overlap, and `SizeIsBounded` bounds characters, which is
  not what it says of the size.

## 5. Proofs

All theorems hold for every value of the constants, finite or not, under the
assumptions declared in the modules: `NoConv`, `NoAction`, `NoRequest`,
`NoSubject`, `NoText`, `Everyone` and `Nothing` differ from the things they
stand beside, `Texts` and `Names` are not empty, the three kinds of summary
fields are disjoint, `Updates`, `Assessments` and `Revisions` are within the
schema's types, the settings of password recovery are natural numbers, its
limits positive, and those of chunking natural numbers.

* **CoachingSession_proofs** begins with facts about `Enforce` for *every* working
  state: it maps working states to working states (`EnforceType`), teaches only
  when earned (`EnforceTeaching`), reaches the action stage only through every
  gate (`EnforceAction`; it assumes what the schema's validator and
  `assess_turn` guarantee of a proposal: a proposed action stage comes with a
  progress assessment, claimed understanding with a supported picture), keeps
  the action records and the last move (`EnforceKeeps`) and the picture
  (`EnforceKeepsPicture`). What enforcing a second time may do is in
  `EnforceTestsOnce`, `EnforceNeverAdvances`, `ActionIsFixed` and
  `EnforceOffersWhatIsProposed`; what a refused topic leads to in
  `EnforceDropsTopics`. Each rule has a lemma on what it can change. It then
  proves every property of `session_turns`, and
  `NoTeachingTwice` (no two consecutive saved turns teach). `DecisionInv` says
  that a proposal is backed in the sense `EnforceAction` assumes, and that the
  last move of a working state is the move that was saved. `GuidanceInv` joins
  the properties of the picture, the boundaries and the guidance with
  `TestedOnce`: enforcing the decision again claims no tested understanding,
  without which the second enforcement could open a gate the first one kept
  shut. `PictureOrigin` says where a supported picture in the turn comes from: in
  a turn with a reply to react to, from an assessment that judged the reaction.
  `Scoped` is `UpdatesAreScoped` of the draft in every phase; merging one update
  keeps it (`MergedIsScoped`), and an attempt starts from the saved records
  (`FreshIsScoped`).
  `RefusalInv` says that draft and working state keep every recorded refusal and
  record of the saved state, which is what makes a refusal survive when the turn
  is saved: the property itself says nothing of the intermediate states.
  `TurnsEnd` gives each phase a number of steps that are left (`Left`) and shows
  that every step but the reading of an update lowers it: each model call is made
  at most twice, whatever comes back.
* **SummaryRetention_proofs** first proves that a conversation with its summary
  is a coaching session (`SummaryRunsSession`), so that everything proved of
  sessions holds of it, then the three properties of `summary_retained`.
  `DueInv` says that a summary that is due is refreshed from the decision the
  saved state was made from; with `EnforceNeverAdvances` the gate's own
  enforcement cannot let in a commitment the recorded decision did not earn.
  `TakenInv` accounts for every text that was revised away: it is out of the
  summary, missed, or about to be dropped by the refresh that is due.
* **ChatTurns_proofs** proves that ChatTurns implements TurnLog
  (`RefinesTurnLog`), every property of `turns_overlapping`, and
  `AcknowledgedIsSaved`. `Inv` adds `TurnsStay` (a request that has saved its
  turn finds it in its conversation as long as that lives) and `StepsAgree` (how
  far a request is, whether its turn was saved, and what it was told agree).
  `OverlapInv` carries the statement about dropped turns from the rows to what a
  request has read and not yet saved (`ReadEarlier`): when it saves, the turns
  added since are the ones it did not know. `WaitInv` is about conversations
  that are not crowded: one request is at work (`Alone`), the rows cover every
  turn (`RowsWhole`), and what that request has in hand, at each of its steps, is
  what the rows held (`InHand`). `RequestsOnlyGoForward` is the variant behind
  `RequestsEnd`: whatever fails, a request passes each of its steps at most once;
  `SavedIsNeverAnError` is its part about saved turns, as a step property.
  `HistoryIsNeverAhead` complements finding 2: a history that is out of date is
  still a beginning of its log, in the cache and in every request (`HeardInv`).
  `SummaryAlwaysKnowsItsTurns` is about the one row that two requests may write
  column by column. `KnowInv` says of each row (`Row`) what the property says,
  and that a row that is there has been written by somebody; and of each request
  (`Hand`) that what it has read, counted and drafted is of saved turns, and that
  a text it loaded has not been taken away since, so that a column it leaves out
  of its UPDATE keeps a value that is as good as its own (`WriteRow`).
* **DocumentStore_proofs** proves every property of `documents_kept`, and
  `RowsHaveFiles`. The invariant adds what an upload at each step has done
  (`UploadInv`: only the upload itself completes a document, and its vectors are
  there before it does), what a deletion at each step may rely on (`DeleteInv`:
  vectors are deleted only of completed uploads, so they are not stored again),
  and that results and cache entries stay within what was allowed (`SearchInv`).
  `RefinesLibrary` maps every step: a document is offered by the commit
  that marks it completed, even if the upload is then reported as failed, and
  withdrawn by the first deletion that removes its row, whatever became of its
  vectors; a search begins when it looks up what its user may see. The
  step that is not a stutter by its shape is the answer: that hits from the cache
  or from Qdrant are within the documents allowed is `SearchInv`.
* **Sessions_proofs** proves every property of `sessions_rotated`. `ParentInv` says
  that what a refresh revoked stays revoked, `PairInv` that of two refreshes of one
  token that did not overlap one came to nothing, `HoldInv` that at most one change
  is between its UPDATE and its commit and the rows it found stay as it found them.
  `RaceInv` is `OnlyRacingSurvives` made inductive: if nothing a request stems from
  met a change (`Untouched`), its token is among the rows the change has found,
  dead when the change is done, and the request is not about to insert one.
  `RefinesRotation` maps every step of requests that do not overlap: the insertion
  of a token is its issue or the exchange of the one presented, a revocation
  without an insertion loses the token, and whoever is under way is alone (`Alone`,
  from `FlightInv`), so that nobody else exchanges what it is exchanging.
* **PasswordReset_proofs** proves the three safety properties of `reset_codes`
  and its types. A property of the form "unless requests overlap" is not
  inductive: the invariant says what the later of two requests that did not
  overlap has found. `ReuseInv`, `MissInv` (what a mistaken entry is about to
  write is the number of entries so far), `NumberInv` (rows are numbered apart
  and one is the latest), `SpacedInv`, `RetiredInv` and `WindowInv` do so for
  each part, on top of `PhaseInv` (steps and outcomes agree) and `FlightInv`
  (requests under way together overlap). The window needs finite cardinalities,
  from the library's FiniteSetTheorems.
  `LocksInv` is about the rows a transaction has written and not committed: one
  holder each, unused. From it, `RetiringExcludes` (only the holder's commit
  changes them) and `WaitingEnds` (whoever waits for a row waits for one request,
  which waits for none; so not all requests under way wait). That is what
  `NeverAllWaiting` says with ENABLED, in terms of the guards.
  `RefinesRecovery` maps every step of requests that do not overlap; `FreshInv`
  says that what such a request works from (the codes to retire, the number of
  mistakes, the confirmation) is what is stored, until it ends. `ResetsAreConfirmed`
  needs no such condition: however requests overlap, a password is reset only with
  a code that was mailed and had been confirmed by another request, which was over
  before this one began. `ConfirmInv` carries the confirmation from the row back
  to the request that made it.
* **Accounts_proofs** proves the properties of `accounts_signup`, its types and
  `PasswordMeansAcceptance` (no account has a password without the agreement
  accepted). `KeysInv` is the unique constraints with uncommitted rows included,
  `FoldedInv` that what is written was folded (with it the index on spellings
  decides about addresses), `FoundInv` that what a request found is still so
  until another one is under way, `LinkInv` that who is signed in came by the
  linked identity or by one that was replaced in an overlap. `RefinesDirectory`
  names the moment each request takes effect: the commit of a registration, of a
  new address, of an acceptance, of an account created or linked by Google, and,
  for a sign-in that writes nothing, the step that finds its account
  (`RegisterRefines`, `SignInRefines`, `GoogleRefines`, `ChangeRefines`). By
  `FoldedInv` an address is its name, so that the unique index on spellings keeps
  the abstract names apart.
* **Chunking_proofs** proves the three properties of `chunks_split`, for texts of
  any number and length of sentences and for every size and overlap, including an
  overlap larger than the size. They are about sequences, but the loop only
  appends to them, so that an invariant does what an induction over the text would:
  `Progress` says that there is something to write as soon as a sentence was
  read, `CurrentIsBounded` that a current chunk that is too long is
  one sentence.

Only model-checked: `RequestsEnd` (liveness) and `NeverAllWaiting` (ENABLED), both
out of the prover's reach; `RequestsOnlyGoForward`, `SavedIsNeverAnError` and
`WaitingEnds` prove what they rest on. The three violated properties are refuted by TLC's counterexamples.

## 6. What is not modelled, and why

Wording, prompts and the text of the response policy; similarity and embedding
and their cache; `select_relevant_summaries`, which chooses text for a prompt;
the dashboard (read-only); providers (any answer, an error or a timeout);
migrations, evaluation and backfill scripts (one-off operator tools); `services/rag_service.py`, which no
route reaches; the extraction path for a provider without
`generate_structured`, which the shipped provider has; access tokens, which are
stateless; extraction of text from file formats.

What could still be added: several accounts at once in Sessions and
PasswordReset (nothing in their code relates two accounts except the e-mail
address, which Accounts covers); the composition of Accounts and Sessions (they
meet in one call, `_issue_tokens`, whose statements Sessions has).
