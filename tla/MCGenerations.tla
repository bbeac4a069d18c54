---------------------------- MODULE MCGenerations ----------------------------
(***************************************************************************)
(* Instances of Generations for TLC.                                       *)
(***************************************************************************)
EXTENDS Generations, TLC

Symmetry == Permutations(Gens) \cup Permutations(Readers) \cup Permutations(Keepers)
=============================================================================
