------------------------------ MODULE MCInputs -------------------------------
(***************************************************************************)
(* What the instances of CoachingSession and SummaryRetention make their   *)
(* updates and assessments from.                                           *)
(***************************************************************************)
EXTENDS CoachingSession

CONSTANTS a1, a2, t1, t2

Inquiry(progress, pause, teaching) ==
    [progress |-> progress, pause |-> pause, teaching |-> teaching]
Progress(effect, direction, material) ==
    [effect |-> effect, direction |-> direction, material |-> material]
Support(scope, permitted, boundary) ==
    [scope |-> scope, permitted |-> permitted, boundary |-> boundary]

Quiet == Inquiry("advancing", FALSE, FALSE)

Update(id, status, readiness, basis, scope) ==
    [id |-> id, text |-> t1, status |-> status, readiness |-> readiness,
     basis |-> basis, scope |-> scope, source |-> "message"]

NoUpdates == {}
=============================================================================
