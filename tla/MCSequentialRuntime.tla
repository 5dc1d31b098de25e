------------------------ MODULE MCSequentialRuntime ------------------------
(* Instances of SequentialRuntime for TLC: the plans and their bridges.    *)
EXTENDS SequentialRuntime

SendPlan == <<"source", "task", "bridge">>
ReceivePlan == <<"bridge", "sink">>
OneBridge == <<"bridge">>
=============================================================================
