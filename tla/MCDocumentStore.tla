--------------------------- MODULE MCDocumentStore ---------------------------
(***************************************************************************)
(* Instances of DocumentStore.  Documents, users, deletions and searches   *)
(* are interchangeable.                                                    *)
(***************************************************************************)
EXTENDS DocumentStore, TLC

Symmetry ==
    Permutations(Documents) \cup Permutations(Users)
      \cup Permutations(Deletions) \cup Permutations(Searches)
=============================================================================
