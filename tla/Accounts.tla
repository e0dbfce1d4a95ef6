------------------------------- MODULE Accounts -------------------------------
(***************************************************************************)
(* Accounts and their agreements: registration, Google sign-in up to the   *)
(* tokens (which Sessions takes up), a change of e-mail address and the    *)
(* acceptance of the agreement.  Each looks before it writes and leaves    *)
(* what happens in between to the unique constraints of the tables: an     *)
(* INSERT or UPDATE waits for an uncommitted row with its key and fails on *)
(* a committed one.  An account is named by the request that creates it.   *)
(***************************************************************************)
EXTENDS Naturals

CONSTANTS
    Requests, NoRequest,
    Names,              \* e-mail addresses up to the case of their letters
    Subjects, NoSubject \* Google's subject identifiers

ASSUME NoRequestAssumption == NoRequest \notin Requests
ASSUME NoSubjectAssumption == NoSubject \notin Subjects
ASSUME NamesAssumption == Names # {}

VARIABLES
    accounts,   \* users: the committed rows
    email,      \* users.email
    subject,    \* users.google_subject
    local,      \* users.password_login_enabled: accounts with a password
    accepted,   \* agreement_acceptances of the current version
    pc,         \* where a request is
    asked,      \* the address a request is about
    identity,   \* the subject of the Google identity it presents
    target,     \* the account it is about
    outcome,    \* how it ended
    during      \* history: requests in flight when it first read

database == <<accounts, email, subject, local, accepted>>
locals == <<asked, identity, target, during>>
vars == <<database, pc, locals, outcome>>

Addresses == [name: Names, capital: BOOLEAN]
Lower(e) == [e EXCEPT !.capital = FALSE]

Steps == {"new", "insert", "inserted", "email", "link", "create", "tokens",
          "update", "accept", "over"}
\* An IntegrityError that nobody catches, by the constraint that is violated.
Errors == {"email", "subject", "acceptance"}
Outcomes == {"none", "registered", "tokens", "updated", "accepted",
             "refused", "interrupted"} \cup Errors

InFlight(r) == pc[r] \notin {"new", "over"}
Go(r, step) == pc' = [pc EXCEPT ![r] = step]
Finish(r, what) == Go(r, "over") /\ outcome' = [outcome EXCEPT ![r] = what]

Observe(r) == during' = [during EXCEPT ![r] = {q \in Requests \ {r} : InFlight(q)}]

\* Mutant: addresses are compared as they are written.
SpelledSame(a, e) == email[a] = e

(* get_by_email *)
HasEmail(a, e) == Lower(email[a]) = Lower(e)

(* The unique index on users.email: a committed row has the value ...      *)
Taken(e) == \E a \in accounts : email[a] = e

(* ... or one that is not committed yet.                                   *)
Pending(e) == \E q \in Requests : pc[q] = "inserted" /\ email[q] = e

-----------------------------------------------------------------------------
Init ==
    /\ accounts = {}
    /\ email = [r \in Requests |-> [name |-> CHOOSE n \in Names : TRUE, capital |-> FALSE]]
    /\ subject = [r \in Requests |-> NoSubject]
    /\ local = {}
    /\ accepted = {}
    /\ pc = [r \in Requests |-> "new"]
    /\ asked = email
    /\ identity = [r \in Requests |-> NoSubject]
    /\ target = [r \in Requests |-> NoRequest]
    /\ outcome = [r \in Requests |-> "none"]
    /\ during = [r \in Requests |-> {}]

-----------------------------------------------------------------------------
(* register *)

RegisterCheck(r, e) ==
    /\ pc[r] = "new"
    /\ ~ \E a \in accounts : HasEmail(a, e)
    /\ Observe(r)
    /\ asked' = [asked EXCEPT ![r] = e]
    /\ Go(r, "insert")
    /\ UNCHANGED <<database, identity, target, outcome>>

RegisterRefused(r, e) ==
    /\ pc[r] = "new"
    /\ \E a \in accounts : HasEmail(a, e)
    /\ Finish(r, "refused")
    /\ UNCHANGED <<database, locals>>

(* register_user and its flush; the acceptance is added to the same        *)
(* transaction.                                                            *)
RegisterInsert(r) ==
    /\ pc[r] = "insert"
    /\ ~Pending(Lower(asked[r]))
    /\ IF Taken(Lower(asked[r]))
       THEN Finish(r, "email") /\ UNCHANGED email
       ELSE /\ email' = [email EXCEPT ![r] = Lower(asked[r])]
            /\ Go(r, "inserted")
            /\ UNCHANGED outcome
    /\ UNCHANGED <<accounts, subject, local, accepted, locals>>

RegisterCommit(r) ==
    /\ pc[r] = "inserted"
    /\ accounts' = accounts \cup {r}
    /\ local' = local \cup {r}
    /\ accepted' = accepted \cup {r}
    /\ Finish(r, "registered")
    /\ UNCHANGED <<email, subject, locals>>

-----------------------------------------------------------------------------
(* google_login *)

(* Google sign-in is not configured, or verify_id_token refuses the token. *)
GoogleUnverified(r) ==
    /\ pc[r] = "new"
    /\ Finish(r, "refused")
    /\ UNCHANGED <<database, locals>>

GoogleFindSubject(r, s, e) ==
    /\ pc[r] = "new"
    /\ Observe(r)
    /\ identity' = [identity EXCEPT ![r] = s]
    /\ asked' = [asked EXCEPT ![r] = e]
    /\ \/ \E a \in accounts :
            /\ subject[a] = s
            /\ target' = [target EXCEPT ![r] = a]
            /\ Go(r, "tokens")
       \/ /\ ~ \E a \in accounts : subject[a] = s
          /\ Go(r, "email")
          /\ UNCHANGED target
    /\ UNCHANGED <<database, outcome>>

\* Mutant: an account that is linked already is linked again.
LinkableAlways(a, s) == subject[a] # s

\* An account found by its address that no identity is linked to.
Linkable(a, s) == subject[a] = NoSubject

GoogleFindEmail(r) ==
    /\ pc[r] = "email"
    /\ \/ \E a \in accounts :
            /\ HasEmail(a, asked[r])
            /\ IF Linkable(a, identity[r]) \/ subject[a] = identity[r]
               THEN /\ target' = [target EXCEPT ![r] = a]
                    /\ Go(r, IF Linkable(a, identity[r]) THEN "link" ELSE "tokens")
                    /\ UNCHANGED outcome
               ELSE Finish(r, "refused") /\ UNCHANGED target
       \/ /\ ~ \E a \in accounts : HasEmail(a, asked[r])
          /\ Go(r, "create")
          /\ UNCHANGED <<target, outcome>>
    /\ UNCHANGED <<database, asked, identity, during>>

\* Mutant: the identity signs in and is not linked.
GoogleLinkUnsaved(r) ==
    /\ pc[r] = "link"
    /\ Go(r, "tokens")
    /\ UNCHANGED <<database, locals, outcome>>

(* The row read by GoogleFindEmail is updated by its key.                  *)
GoogleLink(r) ==
    /\ pc[r] = "link"
    /\ IF \E a \in accounts \ {target[r]} : subject[a] = identity[r]
       THEN Finish(r, "subject") /\ UNCHANGED subject
       ELSE /\ subject' = [subject EXCEPT ![target[r]] = identity[r]]
            /\ Go(r, "tokens")
            /\ UNCHANGED outcome
    /\ UNCHANGED <<accounts, email, local, accepted, locals>>

\* Mutant: the address is stored as Google spells it.
GoogleEmailAsSpelled(r) == asked[r]

(* verify_id_token and register_google_user both fold the address.         *)
GoogleEmail(r) == Lower(asked[r])

GoogleCreate(r) ==
    /\ pc[r] = "create"
    /\ ~Pending(GoogleEmail(r))
    /\ IF Taken(GoogleEmail(r)) \/ \E a \in accounts : subject[a] = identity[r]
       THEN /\ Finish(r, IF Taken(GoogleEmail(r)) THEN "email" ELSE "subject")
            /\ UNCHANGED <<accounts, email, subject, target>>
       ELSE /\ accounts' = accounts \cup {r}
            /\ email' = [email EXCEPT ![r] = GoogleEmail(r)]
            /\ subject' = [subject EXCEPT ![r] = identity[r]]
            /\ target' = [target EXCEPT ![r] = r]
            /\ Go(r, "tokens")
            /\ UNCHANGED outcome
    /\ UNCHANGED <<local, accepted, asked, identity, during>>

\* is_active is set by an operator, so either answer is possible.
GoogleTokens(r) ==
    /\ pc[r] = "tokens"
    /\ \E what \in {"tokens", "refused"} : Finish(r, what)
    /\ UNCHANGED <<database, locals>>

-----------------------------------------------------------------------------
(* update_me, with a new address *)

UpdateCheck(r, a, e) ==
    /\ pc[r] = "new"
    /\ a \in accounts
    /\ ~ \E b \in accounts \ {a} : HasEmail(b, e)
    /\ Observe(r)
    /\ asked' = [asked EXCEPT ![r] = Lower(e)]
    /\ target' = [target EXCEPT ![r] = a]
    /\ Go(r, "update")
    /\ UNCHANGED <<database, identity, outcome>>

UpdateRefused(r, a, e) ==
    /\ pc[r] = "new"
    /\ a \in accounts
    /\ \E b \in accounts \ {a} : HasEmail(b, e)
    /\ Finish(r, "refused")
    /\ UNCHANGED <<database, locals>>

UpdateCommit(r) ==
    /\ pc[r] = "update"
    /\ ~Pending(asked[r])
    /\ IF \E b \in accounts \ {target[r]} : email[b] = asked[r]
       THEN Finish(r, "email") /\ UNCHANGED email
       ELSE Finish(r, "updated") /\ email' = [email EXCEPT ![target[r]] = asked[r]]
    /\ UNCHANGED <<accounts, subject, local, accepted, locals>>

-----------------------------------------------------------------------------
(* accept_agreement *)

AcceptCheck(r, a) ==
    /\ pc[r] = "new"
    /\ a \in accounts
    /\ IF a \in accepted
       THEN Finish(r, "accepted") /\ UNCHANGED <<target, during>>
       ELSE /\ Observe(r)
            /\ target' = [target EXCEPT ![r] = a]
            /\ Go(r, "accept")
            /\ UNCHANGED outcome
    /\ UNCHANGED <<database, asked, identity>>

(* uq_user_agreement_version: a second acceptance fails.                   *)
AcceptCommit(r) ==
    /\ pc[r] = "accept"
    /\ accepted' = accepted \cup {target[r]}
    /\ Finish(r, IF target[r] \in accepted THEN "acceptance" ELSE "accepted")
    /\ UNCHANGED <<accounts, email, subject, local, locals>>

-----------------------------------------------------------------------------
(* An exception or a lost connection ends a request, and what it has not   *)
(* committed is rolled back.                                               *)
Interrupt(r) ==
    /\ InFlight(r)
    /\ Finish(r, "interrupted")
    /\ UNCHANGED <<database, locals>>

(* What a request does next.                                               *)
Act(r) ==
    \/ \E e \in Addresses : RegisterCheck(r, e) \/ RegisterRefused(r, e)
    \/ RegisterInsert(r) \/ RegisterCommit(r)
    \/ \E s \in Subjects, e \in Addresses : GoogleFindSubject(r, s, e)
    \/ GoogleUnverified(r) \/ GoogleFindEmail(r)
    \/ GoogleLink(r) \/ GoogleCreate(r) \/ GoogleTokens(r)
    \/ \E a \in Requests :
         \/ \E e \in Addresses : UpdateCheck(r, a, e) \/ UpdateRefused(r, a, e)
         \/ AcceptCheck(r, a)
    \/ UpdateCommit(r) \/ AcceptCommit(r)
    \/ Interrupt(r)

Next == \E r \in Requests : Act(r)

Spec == Init /\ [][Next]_vars

-----------------------------------------------------------------------------
(* The types of the variables; a request that writes to an account has     *)
(* found a committed one.                                                  *)
TypeOK ==
    /\ accounts \subseteq Requests
    /\ email \in [Requests -> Addresses]
    /\ subject \in [Requests -> Subjects \cup {NoSubject}]
    /\ local \subseteq accounts
    /\ accepted \subseteq accounts
    /\ pc \in [Requests -> Steps]
    /\ asked \in [Requests -> Addresses]
    /\ identity \in [Requests -> Subjects \cup {NoSubject}]
    /\ target \in [Requests -> accounts \cup {NoRequest}]
    /\ outcome \in [Requests -> Outcomes]
    /\ during \in [Requests -> SUBSET Requests]
    /\ \A r \in Requests : pc[r] \in {"link", "tokens", "update", "accept"} => target[r] # NoRequest

Overlap(q, r) == q \in during[r] \/ r \in during[q]

(* README.md: "preventing duplicate email addresses".  No two accounts are *)
(* found by one address, however it is spelled, or by one Google identity: *)
(* scalar_one_or_none never meets two rows.                                *)
EmailsIdentify ==
    \A a, b \in accounts :
        a # b => /\ Lower(email[a]) # Lower(email[b])
                 /\ subject[a] = subject[b] => subject[a] = NoSubject

(* An account that signs in with a password was registered with the        *)
(* agreement accepted: there is no state in which one is stored without    *)
(* the other, wherever registration is cut off.                            *)
RegisteredHaveAccepted == local \subseteq accepted

(* README.md: Google sign-in "does not rely on an email address as an      *)
(* account key".  The identity that signed in to an account keeps it,      *)
(* through changes of address, unless another one was being linked to it   *)
(* at the same time.                                                       *)
OnlyOverlapRelinks ==
    \A r \in Requests :
        outcome[r] = "tokens" /\ subject[target[r]] # identity[r]
          => \E q \in Requests : /\ target[q] = target[r]
                                 /\ identity[q] = subject[target[r]]
                                 /\ Overlap(q, r)

(* The database refuses what the code did not only to a request that was   *)
(* under way together with another one.                                    *)
OnlyOverlapErrs ==
    \A r \in Requests :
        outcome[r] \in Errors => \E q \in Requests : Overlap(q, r)

-----------------------------------------------------------------------------
(* The accounts behave as the Directory does: however the looking and the  *)
(* writing of several requests interleave, each takes effect at the moment *)
(* of its write (a sign-in that writes nothing, when it found its account) *)
(* as if it had looked at that moment.  An address stands for its name; a  *)
(* row that is not committed is not in the directory.                      *)
Admitted ==
    {[request |-> r, account |-> target[r], subject |-> identity[r]] :
        r \in {q \in Requests : pc[q] = "tokens" \/ outcome[q] = "tokens"}}

Dir == INSTANCE Directory
    WITH name <- [a \in accounts |-> email[a].name],
         subject <- [a \in accounts |-> subject[a]],
         admitted <- Admitted

ImplementsDirectory == Dir!Spec
=============================================================================
