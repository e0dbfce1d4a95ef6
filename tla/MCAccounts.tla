----------------------------- MODULE MCAccounts -------------------------------
(***************************************************************************)
(* Instances of Accounts: a few requests about one or two addresses and    *)
(* Google identities.                                                      *)
(***************************************************************************)
EXTENDS Accounts, TLC

Symmetry == Permutations(Requests) \cup Permutations(Subjects)
=============================================================================
