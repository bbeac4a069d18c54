----------------------------- MODULE MCStoreLink -----------------------------
(***************************************************************************)
(* Instances of StoreLink for TLC.                                         *)
(***************************************************************************)
EXTENDS StoreLink, TLC

\* All records refer to the same content, as captures of unchanged files do.
SharedArt == [r \in Records |-> CHOOSE h \in Hashes : TRUE]

Symmetry == Permutations(Records) \cup Permutations(Clones) \cup Permutations(Links)
=============================================================================
