------------------------------- MODULE Rotation --------------------------------
(***************************************************************************)
(* What a client that waits for its answers may rely on: a session is one  *)
(* refresh token at a time.  A token is exchanged for one other, which     *)
(* ends it, or is lost; a password change ends them all.                   *)
(***************************************************************************)
CONSTANTS Requests, NoRequest

VARIABLES
    from,   \* the token each token was exchanged for, or NoRequest
    alive   \* tokens that can be exchanged

vars == <<from, alive>>

issued == DOMAIN from

Init ==
    /\ from = [r \in {} |-> NoRequest]
    /\ alive = {}

\* A token is issued once, to the request that asked for it.
Issue(r, t) ==
    /\ r \notin issued
    /\ from' = [q \in issued \cup {r} |-> IF q = r THEN t ELSE from[q]]

SignIn(r) ==
    /\ Issue(r, NoRequest)
    /\ alive' = alive \cup {r}

Exchange(t, r) ==
    /\ t \in alive
    /\ Issue(r, t)
    /\ alive' = (alive \ {t}) \cup {r}

(* It expires, or the exchange breaks off with nothing to show for it.     *)
Lose(t) ==
    /\ t \in alive
    /\ alive' = alive \ {t}
    /\ UNCHANGED from

EndAll ==
    /\ alive' = {}
    /\ UNCHANGED from

Next ==
    \/ \E r \in Requests : SignIn(r) \/ Lose(r) \/ \E t \in Requests : Exchange(t, r)
    \/ EndAll

Spec == Init /\ [][Next]_vars
=============================================================================
