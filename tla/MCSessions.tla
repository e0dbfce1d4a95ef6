----------------------------- MODULE MCSessions ------------------------------
(***************************************************************************)
(* Instances of Sessions: a few requests of one account.                   *)
(***************************************************************************)
EXTENDS Sessions, TLC

Symmetry == Permutations(Requests)
=============================================================================
