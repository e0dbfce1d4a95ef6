---------------------------- MODULE MCChatTurns -----------------------------
(***************************************************************************)
(* Instances of ChatTurns.  Requests and conversations are interchangeable *)
(* (the runs of safety properties say so with SYMMETRY).                   *)
(***************************************************************************)
EXTENDS ChatTurns, TLC

Symmetry == Permutations(Requests) \cup Permutations(Convs)
=============================================================================
