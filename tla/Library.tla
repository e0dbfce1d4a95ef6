-------------------------------- MODULE Library --------------------------------
(***************************************************************************)
(* What the knowledge base promises: a document is offered whole or not at *)
(* all, to one user or to everyone, and once withdrawn it never comes      *)
(* back; a search answers with documents that were offered to its user at  *)
(* the moment it began, all of them at that one moment.                    *)
(***************************************************************************)
CONSTANTS Documents, Users, Everyone, Searches

VARIABLES
    offered,    \* to whom each document on offer is offered
    withdrawn,  \* documents that were deleted
    confirmed,  \* documents whose admin was told they are on offer
    user,       \* for whom each search is made
    phase,      \* of each search: "idle", "open" or "answered"
    view,       \* what was offered to its user when it began
    answer      \* what it answers

vars == <<offered, withdrawn, confirmed, user, phase, view, answer>>

Init ==
    /\ offered = [d \in {} |-> Everyone]
    /\ withdrawn = {}
    /\ confirmed = {}
    /\ user \in [Searches -> Users]
    /\ phase = [q \in Searches |-> "idle"]
    /\ view = [q \in Searches |-> {}]
    /\ answer = [q \in Searches |-> {}]

(* The admin is told, unless the word is lost.                             *)
Offer(d, s) ==
    /\ d \notin DOMAIN offered \cup withdrawn
    /\ offered' = [c \in DOMAIN offered \cup {d} |-> IF c = d THEN s ELSE offered[c]]
    /\ confirmed' \in {confirmed, confirmed \cup {d}}
    /\ UNCHANGED <<withdrawn, user, phase, view, answer>>

(* A document may be withdrawn before it was ever offered.                 *)
Withdraw(d) ==
    /\ d \notin withdrawn
    /\ withdrawn' = withdrawn \cup {d}
    /\ offered' = [c \in DOMAIN offered \ {d} |-> offered[c]]
    /\ UNCHANGED <<confirmed, user, phase, view, answer>>

Begin(q) ==
    /\ phase[q] = "idle"
    /\ phase' = [phase EXCEPT ![q] = "open"]
    /\ view' = [view EXCEPT ![q] =
                  {d \in DOMAIN offered : offered[d] \in {user[q], Everyone}}]
    /\ UNCHANGED <<offered, withdrawn, confirmed, user, answer>>

Answer(q) ==
    /\ phase[q] = "open"
    /\ phase' = [phase EXCEPT ![q] = "answered"]
    /\ \E hits \in SUBSET view[q] : answer' = [answer EXCEPT ![q] = hits]
    /\ UNCHANGED <<offered, withdrawn, confirmed, user, view>>

Next ==
    \/ \E d \in Documents, s \in Users \cup {Everyone} : Offer(d, s)
    \/ \E d \in Documents : Withdraw(d)
    \/ \E q \in Searches : Begin(q) \/ Answer(q)

Spec == Init /\ [][Next]_vars
=============================================================================
