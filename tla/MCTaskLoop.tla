----------------------------- MODULE MCTaskLoop -----------------------------
(* Instances of TaskLoop for TLC. *)
EXTENDS TaskLoop
=============================================================================
