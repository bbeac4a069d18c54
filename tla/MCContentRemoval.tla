-------------------------- MODULE MCContentRemoval --------------------------
(***************************************************************************)
(* ContentRemoval for TLC: one hash (hashes do not interact), a writer,    *)
(* two sweepers and a reader.                                              *)
(***************************************************************************)
EXTENDS ContentRemoval
=============================================================================
