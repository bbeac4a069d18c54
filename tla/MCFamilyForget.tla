--------------------------- MODULE MCFamilyForget ----------------------------
(***************************************************************************)
(* Instance of FamilyForget for TLC.                                       *)
(***************************************************************************)
EXTENDS FamilyForget

SharedArt == [r \in Records |-> CHOOSE h \in Hashes : TRUE]
=============================================================================
