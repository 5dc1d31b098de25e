------------------------- MODULE MCParallelRuntime -------------------------
(* Instances of ParallelRuntime for TLC: the plans that give the stages     *)
(* their components.                                                        *)
EXTENDS ParallelRuntime

\* source -> sink, or source -> task -> a bridge that sends
TaskPlan2 == <<"source", "sink">>
SendPlan3 == <<"source", "task", "bridge">>

=============================================================================
