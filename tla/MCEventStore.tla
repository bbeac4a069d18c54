---------------------------- MODULE MCEventStore ----------------------------
(***************************************************************************)
(* Instances of EventStore for TLC: one event that names an artifact and,  *)
(* in the larger ones, one that names none.                                *)
(***************************************************************************)
EXTENDS EventStore, TLC

CONSTANTS k1, k2, b1

MCNeeds == [k \in Keys |-> IF k = k1 THEN Blobs ELSE {}]

Symmetry == Permutations(Procs)
=============================================================================
