------------------------------ MODULE Sessions -------------------------------
(***************************************************************************)
(* The refresh tokens of one account: sign-in (by password or Google),     *)
(* refresh with rotation, and the two operations that revoke every token   *)
(* (a password change and a password reset).  A request is a coroutine     *)
(* that yields at every database call; each step here is one statement, at *)
(* read committed.  A statement on one row is taken with its commit: until *)
(* then nobody sees it, and nobody else can update the row.  The UPDATE of *)
(* all the account's tokens and its commit are two steps.  A refresh token *)
(* is named by the request that created it.                                *)
(***************************************************************************)
EXTENDS Naturals

CONSTANTS Requests, NoRequest

ASSUME NoRequestAssumption == NoRequest \notin Requests

VARIABLES
    active,     \* users.is_active
    row,        \* refresh_tokens: the row a request inserted
    pc,         \* where a request is
    parent,     \* the token a refresh presents
    answer,     \* what the client was told
    spent,      \* the revocation of the presented token is committed
    targets,    \* the unrevoked tokens the UPDATE of a change has found
    signedIn,   \* history: changes done when the sign-in behind it was checked
    stems,      \* history: it and the requests its token stems from
    during      \* history: requests in flight when it was checked

database == <<active, row>>
locals == <<parent, spent, targets, signedIn, stems, during>>
vars == <<database, pc, answer, locals>>

Rows == {"absent", "live", "revoked", "expired"}
Steps == {"new", "user", "revoke", "create", "issued", "change", "commit", "over"}
Answers == {"none", "tokens", "done", "refused", "error"}

InFlight(r) == pc[r] \notin {"new", "over"}

Go(r, step) == pc' = [pc EXCEPT ![r] = step]

Finish(r, what) == Go(r, "over") /\ answer' = [answer EXCEPT ![r] = what]

-----------------------------------------------------------------------------
Init ==
    /\ active = TRUE
    /\ row = [r \in Requests |-> "absent"]
    /\ pc = [r \in Requests |-> "new"]
    /\ parent = [r \in Requests |-> NoRequest]
    /\ answer = [r \in Requests |-> "none"]
    /\ spent = [r \in Requests |-> FALSE]
    /\ targets = [r \in Requests |-> {}]
    /\ signedIn = [r \in Requests |-> {}]
    /\ stems = [r \in Requests |-> {r}]
    /\ during = [r \in Requests |-> {}]

Observe(r) == during' = [during EXCEPT ![r] = {q \in Requests \ {r} : InFlight(q)}]

Changed(k) == answer[k] = "done"

(* login and google_login: the account is read, and the password or the    *)
(* identity is checked against it.                                         *)
SignIn(r) ==
    /\ pc[r] = "new"
    /\ active
    /\ Observe(r)
    /\ signedIn' = [signedIn EXCEPT ![r] = {k \in Requests : Changed(k)}]
    /\ Go(r, "create")
    /\ UNCHANGED <<database, answer, parent, spent, targets, stems>>

(* Wrong credentials, or an account that is not active.                    *)
SignInRefused(r) ==
    /\ pc[r] = "new"
    /\ Finish(r, "refused")
    /\ UNCHANGED <<database, locals>>

\* Mutant: rows are looked up by their hash alone.
UnexpiredRow(t) == row[t] \in {"live", "revoked"}

\* get_active_by_hash, and the expiry refresh_tokens compares.
ActiveRow(t) == row[t] = "live"

\* A client presents a token it was given.
Presented(t) == answer[t] = "tokens"

Lookup(r, t) ==
    /\ pc[r] = "new"
    /\ Presented(t)
    /\ ActiveRow(t)
    /\ Observe(r)
    /\ parent' = [parent EXCEPT ![r] = t]
    /\ signedIn' = [signedIn EXCEPT ![r] = signedIn[t]]
    /\ stems' = [stems EXCEPT ![r] = stems[t] \cup {r}]
    /\ Go(r, "user")
    /\ UNCHANGED <<database, answer, spent, targets>>

LookupRefused(r, t) ==
    /\ pc[r] = "new"
    /\ Presented(t)
    /\ ~ActiveRow(t)
    /\ Finish(r, "refused")
    /\ UNCHANGED <<database, locals>>

\* Mutant: the token is revoked before its owner is looked up.
ReadUserLast(r) ==
    /\ pc[r] = "user"
    /\ row' = [row EXCEPT ![parent[r]] = "revoked"]
    /\ IF active
       THEN Go(r, "revoke") /\ UNCHANGED answer
       ELSE Finish(r, "refused")
    /\ UNCHANGED <<active, locals>>

ReadUser(r) ==
    /\ pc[r] = "user"
    /\ IF active
       THEN Go(r, "revoke") /\ UNCHANGED answer
       ELSE Finish(r, "refused")
    /\ UNCHANGED <<database, locals>>

\* Mutant: the revocation is never flushed.
RevokeUnflushed(r) ==
    /\ pc[r] = "revoke"
    /\ spent' = [spent EXCEPT ![r] = TRUE]
    /\ Go(r, "create")
    /\ UNCHANGED <<database, answer, parent, targets, signedIn, stems, during>>

\* A change has updated the row and not committed yet.
Held(t) == \E k \in Requests : pc[k] = "commit" /\ t \in targets[k]

(* The row found by Lookup is updated by its key, whatever became of it    *)
(* meanwhile, in a transaction of its own; an update waits for the one     *)
(* that holds the row.                                                     *)
Revoke(r) ==
    /\ pc[r] = "revoke"
    /\ ~Held(parent[r])
    /\ row' = [row EXCEPT ![parent[r]] = "revoked"]
    /\ spent' = [spent EXCEPT ![r] = TRUE]
    /\ Go(r, "create")
    /\ UNCHANGED <<active, answer, parent, targets, signedIn, stems, during>>

(* _issue_tokens: the acceptance is read and the new token inserted; what  *)
(* was checked before is not checked again.                                *)
Create(r) ==
    /\ pc[r] = "create"
    /\ row' = [row EXCEPT ![r] = "live"]
    /\ Go(r, "issued")
    /\ UNCHANGED <<active, answer, locals>>

Answer(r) ==
    /\ pc[r] = "issued"
    /\ Finish(r, "tokens")
    /\ UNCHANGED <<database, locals>>

(* change_password and reset_password, once the current password or the    *)
(* code is checked.                                                        *)
BeginChange(r) ==
    /\ pc[r] = "new"
    /\ active
    /\ Observe(r)
    /\ Go(r, "change")
    /\ UNCHANGED <<database, answer, parent, spent, targets, signedIn, stems>>

(* The new password is flushed, which makes the next change wait for this  *)
(* one, and revoke_all_for_user updates every row it sees unrevoked.       *)
RevokeAll(r) ==
    /\ pc[r] = "change"
    /\ \A k \in Requests : pc[k] # "commit"
    /\ targets' = [targets EXCEPT ![r] = {t \in Requests : row[t] \in {"live", "expired"}}]
    /\ Go(r, "commit")
    /\ UNCHANGED <<database, answer, parent, spent, signedIn, stems, during>>

(* A row inserted since the UPDATE is not among its targets.               *)
CommitChange(r) ==
    /\ pc[r] = "commit"
    /\ row' = [t \in Requests |-> IF t \in targets[r] THEN "revoked" ELSE row[t]]
    /\ Finish(r, "done")
    /\ UNCHANGED <<active, locals>>

-----------------------------------------------------------------------------
(* The environment *)

(* An exception (answered with an error) or a lost connection (no answer)  *)
(* ends the request; what is committed stays, the rest is rolled back.     *)
Interrupt(r) ==
    /\ InFlight(r)
    /\ \E what \in {"error", "none"} : Finish(r, what)
    /\ UNCHANGED <<database, locals>>

Expire(t) ==
    /\ row[t] = "live"
    /\ row' = [row EXCEPT ![t] = "expired"]
    /\ UNCHANGED <<active, pc, answer, locals>>

\* is_active is changed in the database by an operator.
SetActive ==
    /\ active' = ~active
    /\ UNCHANGED <<row, pc, answer, locals>>

Next ==
    \/ \E r \in Requests :
         \/ SignIn(r) \/ SignInRefused(r)
         \/ \E t \in Requests : Lookup(r, t) \/ LookupRefused(r, t)
         \/ ReadUser(r) \/ Revoke(r) \/ Create(r) \/ Answer(r)
         \/ BeginChange(r) \/ RevokeAll(r) \/ CommitChange(r)
         \/ Interrupt(r) \/ Expire(r)
    \/ SetActive

Spec == Init /\ [][Next]_vars

-----------------------------------------------------------------------------
(* The types of the variables; a request that revokes has a token to       *)
(* revoke, and a token that is answered is stored.                         *)
TypeOK ==
    /\ active \in BOOLEAN
    /\ row \in [Requests -> Rows]
    /\ pc \in [Requests -> Steps]
    /\ parent \in [Requests -> Requests \cup {NoRequest}]
    /\ answer \in [Requests -> Answers]
    /\ spent \in [Requests -> BOOLEAN]
    /\ targets \in [Requests -> SUBSET Requests]
    /\ signedIn \in [Requests -> SUBSET Requests]
    /\ stems \in [Requests -> SUBSET Requests]
    /\ during \in [Requests -> SUBSET Requests]
    /\ \A r \in Requests :
         /\ pc[r] \in {"user", "revoke"} => parent[r] # NoRequest
         /\ pc[r] = "issued" \/ answer[r] = "tokens" => row[r] # "absent"

\* Both were under way at one time.
Overlap(q, r) == q \in during[r] \/ r \in during[q]

Refreshed(r) == parent[r] # NoRequest /\ row[r] # "absent"

(* README.md: "revokes that record, and issues a new token pair".  From    *)
(* the moment a successor exists, the token it was made from is revoked    *)
(* for good, however refreshes, expiry and revocations interleave.         *)
SuccessorEndsToken ==
    \A r \in Requests : Refreshed(r) => row[parent[r]] = "revoked"

(* A token has two successors only if the requests that made them          *)
(* overlapped: a second refresh that begins after the first is over never  *)
(* succeeds.                                                               *)
OnlyOverlapForks ==
    \A q, r \in Requests :
        q # r /\ Refreshed(q) /\ Refreshed(r) /\ parent[q] = parent[r]
          => Overlap(q, r)

(* A session outlives a password change that was done after its sign-in    *)
(* was checked only through a request that was under way during the        *)
(* change: the sign-in or one of the refreshes it stems from.              *)
OnlyRacingSurvives ==
    \A r, k \in Requests :
        row[r] = "live" /\ Changed(k) /\ k \notin signedIn[r]
          => \E q \in stems[r] : Overlap(q, k)

(* A client is not signed out by a refresh that is refused or that fails   *)
(* before the revocation: a token that no password change revoked was      *)
(* revoked by a refresh that presented it and went on to issue another.    *)
OnlyRefreshEndsToken ==
    \A t \in Requests :
        row[t] = "revoked" =>
            \/ \E k \in Requests : Changed(k) /\ t \in targets[k]
            \/ \E r \in Requests : parent[r] = t /\ spent[r] /\ answer[r] # "refused"

-----------------------------------------------------------------------------
(* As long as requests follow one another, in whatever state the ones      *)
(* before were left, sessions behave as Rotation says.  A token that was   *)
(* presented in time counts as alive until its exchange is over: the row   *)
(* is revoked before its successor is there, and may expire before.        *)
Serial == \A r \in Requests : during[r] = {}

Exchanging(t) ==
    \E r \in Requests : pc[r] \in {"user", "revoke", "create"} /\ parent[r] = t

Rot == INSTANCE Rotation
    WITH from <- [r \in {q \in Requests : row[q] # "absent"} |-> parent[r]],
         alive <- {t \in Requests : row[t] = "live" \/ Exchanging(t)}

SerialIsRotation == Rot!Init /\ [][Serial' => [Rot!Next]_(Rot!vars)]_vars
=============================================================================
