------------------------------- MODULE Directory -------------------------------
(***************************************************************************)
(* What the accounts promise: a directory in which a name and a Google     *)
(* identity belong to one account each, and every request takes effect at  *)
(* one moment, on the accounts as they are at that moment.  A name is an   *)
(* e-mail address, however it is spelled.  Accounts are never removed.     *)
(***************************************************************************)
CONSTANTS Requests, Names, Subjects, NoSubject

VARIABLES
    name,       \* the name of each account
    subject,    \* the identity linked to it, or NoSubject
    local,      \* accounts with a password
    accepted,   \* accounts that have accepted the agreement
    admitted    \* sign-ins that were let in: who, to what, as whom

vars == <<name, subject, local, accepted, admitted>>

accounts == DOMAIN name

\* The empty directory.
Nobody == [a \in {} |-> NoSubject]

With(f, a, v) == [b \in DOMAIN f \cup {a} |-> IF b = a THEN v ELSE f[b]]

\* No account but a goes by the name, by the identity.
NameIsFree(n, a) == \A b \in accounts \ {a} : name[b] # n
SubjectIsFree(s, a) == \A b \in accounts \ {a} : subject[b] # s

\* A request signs in once.
Admit(r, a, s) ==
    /\ \A entry \in admitted : entry.request # r
    /\ admitted' = admitted \cup {[request |-> r, account |-> a, subject |-> s]}

Init ==
    /\ name = Nobody
    /\ subject = Nobody
    /\ local = {}
    /\ accepted = {}
    /\ admitted = {}

(* An account with a password has accepted the agreement from the start.   *)
Register(a, n) ==
    /\ a \notin accounts
    /\ NameIsFree(n, a)
    /\ name' = With(name, a, n)
    /\ subject' = With(subject, a, NoSubject)
    /\ local' = local \cup {a}
    /\ accepted' = accepted \cup {a}
    /\ UNCHANGED admitted

(* An account created by an identity nobody has signed in with.            *)
SignUp(a, n, s) ==
    /\ a \notin accounts
    /\ NameIsFree(n, a)
    /\ SubjectIsFree(s, a)
    /\ name' = With(name, a, n)
    /\ subject' = With(subject, a, s)
    /\ Admit(a, a, s)
    /\ UNCHANGED <<local, accepted>>

(* A sign-in to the account its identity is linked to.                     *)
SignIn(r, a, s) ==
    /\ a \in accounts
    /\ subject[a] = s
    /\ Admit(r, a, s)
    /\ UNCHANGED <<name, subject, local, accepted>>

(* A sign-in that links its identity, in place of any other.               *)
Link(r, a, s) ==
    /\ a \in accounts
    /\ SubjectIsFree(s, a)
    /\ subject' = With(subject, a, s)
    /\ Admit(r, a, s)
    /\ UNCHANGED <<name, local, accepted>>

(* An inactive account, or a request cut off before it has its tokens.     *)
TurnAway(r) ==
    /\ admitted' = {entry \in admitted : entry.request # r}
    /\ UNCHANGED <<name, subject, local, accepted>>

Rename(a, n) ==
    /\ a \in accounts
    /\ NameIsFree(n, a)
    /\ name' = With(name, a, n)
    /\ UNCHANGED <<subject, local, accepted, admitted>>

Accept(a) ==
    /\ a \in accounts
    /\ accepted' = accepted \cup {a}
    /\ UNCHANGED <<name, subject, local, admitted>>

Next ==
    \E a \in Requests :
        \/ \E n \in Names : Register(a, n) \/ Rename(a, n)
        \/ \E n \in Names, s \in Subjects : SignUp(a, n, s)
        \/ \E r \in Requests, s \in Subjects : SignIn(r, a, s) \/ Link(r, a, s)
        \/ Accept(a)
        \/ TurnAway(a)

Spec == Init /\ [][Next]_vars
=============================================================================
