------------------------------ MODULE TurnLog -------------------------------
(***************************************************************************)
(* What a client of the chat may rely on: each conversation is an          *)
(* append-only log of whole turns, a request adds at most one turn, and a  *)
(* request is acknowledged only after its turn is in the log.  A           *)
(* conversation is deleted as a whole and never comes back.                *)
(***************************************************************************)
EXTENDS Sequences

CONSTANTS Convs, Requests

VARIABLES
    life,           \* of each conversation: "unused", "live" or "deleted"
    turns,          \* the log of each conversation
    entered,        \* requests whose turn has entered a log
    acknowledged    \* requests whose client was told the turn is saved

vars == <<life, turns, entered, acknowledged>>

Init ==
    /\ life = [c \in Convs |-> "unused"]
    /\ turns = [c \in Convs |-> <<>>]
    /\ entered = {}
    /\ acknowledged = {}

\* The first turn of a conversation creates it.
Enter(c, r) ==
    /\ life[c] # "deleted"
    /\ r \notin entered
    /\ life' = [life EXCEPT ![c] = "live"]
    /\ turns' = [turns EXCEPT ![c] = Append(@, r)]
    /\ entered' = entered \cup {r}
    /\ UNCHANGED acknowledged

Acknowledge(r) ==
    /\ r \in entered \ acknowledged
    /\ acknowledged' = acknowledged \cup {r}
    /\ UNCHANGED <<life, turns, entered>>

Delete(c) ==
    /\ life[c] = "live"
    /\ life' = [life EXCEPT ![c] = "deleted"]
    /\ turns' = [turns EXCEPT ![c] = <<>>]
    /\ UNCHANGED <<entered, acknowledged>>

Next ==
    \/ \E c \in Convs, r \in Requests : Enter(c, r)
    \/ \E r \in Requests : Acknowledge(r)
    \/ \E c \in Convs : Delete(c)

Spec == Init /\ [][Next]_vars
=============================================================================
