--------------------------- MODULE ActionContext ----------------------------
(***************************************************************************)
(* CoachingMemoryService._merge_action_context: how one extracted update   *)
(* changes the records of what the client said about an action.  The loop  *)
(* over the updates is a state machine of its own (see CoachingSession):   *)
(* a draft carries its local variables from one iteration to the next.     *)
(*                                                                         *)
(* The source of an update's evidence stands for the search of its quotes: *)
(* "message" when all are in the current message, "history" when some are  *)
(* in an earlier client message, "unsupported" when one is in neither.     *)
(***************************************************************************)
EXTENDS CoachingPolicy

UpdateBases ==
    {"consideration", "intention", "reported_action", "readiness_boundary",
     "readiness_confirmation", "information_limit", "correction"}

ActionUpdates ==
    [id: ActionIds \cup {NoAction}, text: Texts,
     status: Statuses \cup {"null"}, readiness: Readinesses \cup {"null"},
     basis: UpdateBases, scope: BoundaryScopes \cup {"null"},
     source: {"message", "history", "unsupported"}]

PermissionScopes == {"preparation", "topic"}

Drafts ==
    [actions: [ActionIds -> ActionRecords],
     touched: SUBSET (ActionIds \X (PermissionScopes \cup {"action"})),
     created: SUBSET ActionIds]

FreshDraft(actions) == [actions |-> actions, touched |-> {}, created |-> {}]

NegativeReadiness == {"not_ready", "declined"}

ScopeOf(u) == IF u.scope \in PermissionScopes THEN u.scope ELSE "action"

(* Which record an update is about: the one it names, one with the same    *)
(* actor and action, or none.  The code takes the first of several equal   *)
(* records; the model takes any.                                           *)
SameText(d, u) == {i \in Recorded(d.actions) : d.actions[i].text = u.text}

About(d, u) ==
    IF u.id # NoAction THEN {u.id}
    ELSE IF SameText(d, u) # {} THEN SameText(d, u)
    ELSE {NoAction}

KnownId(d, u) == u.id # NoAction => u.id \in Recorded(d.actions)

(* The client lacks information: this says nothing about willingness. *)
Ignored(d, u) == KnownId(d, u) /\ u.basis = "information_limit"

(* Conditions every other update has to meet before it is looked at. *)
Admissible(d, u, old) ==
    /\ KnownId(d, u)
    /\ u.basis # "information_limit"
    /\ u.id = NoAction /\ old # NoAction => old \in d.created
    /\ <<old, ScopeOf(u)>> \notin d.touched
    /\ ScopeOf(u) # "action" => u.status = "null"

(* Saying a recorded fact again does not replace its original evidence. *)
Retains(d, u, old) ==
    /\ old # NoAction
    /\ u.text = d.actions[old].text
    /\ u.status \in {"null", d.actions[old].status}
    /\ u.readiness \in {"null", d.actions[old].readiness}
    /\ u.scope \in {"null", d.actions[old].scope} \ PermissionScopes

Quoted(d, u, old) ==
    \/ u.source = "message"
    \/ /\ u.source = "history"
       /\ u.id = NoAction
       /\ old = NoAction \/ old \in d.created

(* Each claim needs a basis that can carry it. *)
Justified(d, u, old) ==
    /\ u.status \in {"attempted", "ongoing", "completed", "abandoned"}
          => u.basis \in {"reported_action", "correction"}
    /\ u.status = "planned"
          => u.basis \in {"intention", "readiness_confirmation", "correction"}
    /\ u.readiness = "ready" => u.basis = "readiness_confirmation"
    /\ u.readiness \in NegativeReadiness
          => u.basis \in {"readiness_boundary", "correction"}
    /\ u.scope # "null"
          => u.basis \in {"readiness_boundary", "readiness_confirmation", "correction"}
    /\ old # NoAction /\ u.text # d.actions[old].text => u.basis = "correction"

Blank(text) ==
    [text |-> text, status |-> "unknown", readiness |-> "unknown",
     scope |-> "unknown", prepDeclined |-> FALSE, topicDeclined |-> FALSE]

\* Mutant: "unknown" overwrites a refusal.
NeverFaded(r, u) == FALSE

\* A refusal never fades to "unknown".
Faded(r, u) == u.readiness = "unknown" /\ r.readiness \in NegativeReadiness

(* The record after the update.  A preparation or topic update changes     *)
(* only that permission.                                                   *)
Revised(r, u) ==
    LET own == u.scope \notin PermissionScopes
        states(scope) == u.scope = scope /\ u.readiness \notin {"null", "unknown"}
    IN  [r EXCEPT
           !.text = u.text,
           !.status = IF u.status = "null" THEN @ ELSE u.status,
           !.readiness = IF own /\ u.readiness # "null" /\ ~Faded(r, u)
                         THEN u.readiness ELSE @,
           !.scope = IF own /\ u.scope # "null" THEN u.scope ELSE @,
           !.prepDeclined = IF states("preparation")
                            THEN u.readiness \in NegativeReadiness ELSE @,
           !.topicDeclined = IF states("topic")
                             THEN u.readiness \in NegativeReadiness ELSE @]

Touch(d, id, u) == d.touched \cup {<<id, ScopeOf(u)>>}

(* One iteration of the loop that does not raise: d is the draft before    *)
(* it, e the draft after it.  A new record takes an unused identifier.     *)
Merged(d, u, e) ==
    \/ Ignored(d, u) /\ e = d
    \/ \E old \in About(d, u) :
         /\ Admissible(d, u, old)
         /\ Retains(d, u, old)
         /\ e = [d EXCEPT !.touched = Touch(d, old, u)]
    \/ \E old \in About(d, u) \ {NoAction} :
         /\ Admissible(d, u, old)
         /\ ~Retains(d, u, old)
         /\ Quoted(d, u, old)
         /\ Justified(d, u, old)
         /\ e = [d EXCEPT !.actions[old] = Revised(@, u),
                          !.touched = Touch(d, old, u)]
    \/ \E id \in ActionIds \ Recorded(d.actions) :
         /\ About(d, u) = {NoAction}
         /\ Admissible(d, u, NoAction)
         /\ Quoted(d, u, NoAction)
         /\ Justified(d, u, NoAction)
         /\ e = [actions |-> [d.actions EXCEPT ![id] = Revised(Blank(u.text), u)],
                 touched |-> Touch(d, id, u),
                 created |-> d.created \cup {id}]
=============================================================================
