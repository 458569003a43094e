----------------------------- MODULE MCDeletion -----------------------------
(***************************************************************************)
(* Two replicas, and two stages: one more than the last that could be      *)
(* skipped unseen.                                                         *)
(***************************************************************************)
EXTENDS Deletion
=============================================================================
