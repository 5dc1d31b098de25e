---------------------------- MODULE MCStageQueue ----------------------------
(* Instances of StageQueue for TLC. *)
EXTENDS StageQueue
=============================================================================
