--------------------------- MODULE MCPasswordReset ----------------------------
(***************************************************************************)
(* An instance of PasswordReset: a few requests for one account.           *)
(***************************************************************************)
EXTENDS PasswordReset, TLC

CONSTANT MaxSpread  \* bound on the requests that begin over more than one tick

Symmetry == Permutations(Requests)

(* As many requests as there are at one time, or MaxSpread of them spread  *)
(* over the ticks of the clock.                                            *)
Spread == now = 0 \/ Cardinality({r \in Requests : pc[r] # "new"}) <= MaxSpread

MCSpec == Init /\ [][Next /\ Spread']_vars
=============================================================================
