-------------------------- MODULE MCDerivedAccess ---------------------------
(***************************************************************************)
(* Instances of DerivedAccess for TLC.                                     *)
(***************************************************************************)
EXTENDS DerivedAccess

CONSTANTS k1, k2

MCDigest == [k \in Keys |-> IF k = k1 THEN 1 ELSE 2]
=============================================================================
