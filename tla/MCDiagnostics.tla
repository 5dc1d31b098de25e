--------------------------- MODULE MCDiagnostics ---------------------------
(***************************************************************************)
(* The two layers of diagnostics side by side: a behaviour is one of the   *)
(* transport or one of the session layer above it, which takes from the    *)
(* transport what the transport's behaviours are checked to provide.       *)
(***************************************************************************)
EXTENDS IsoTp, Uds

Pdus == [n \in {"tester", "ecu"} |-> IF n = "ecu" THEN 2 ELSE 1]

Table == <<[did |-> "vin", value |-> 1]>>

VARIABLE layer

Init ==
  /\ layer \in {"transport", "session"}
  /\ TransportInit /\ (layer = "session" => mode = {})
  /\ UdsInit

vars == <<layer, transport_vars, uds_vars>>

Transport(A) == layer = "transport" /\ A /\ UNCHANGED <<layer, uds_vars>>
SessionLayer(A) == layer = "session" /\ A /\ UNCHANGED <<layer, transport_vars>>

Next ==
  \/ Transport(Tick)
  \/ \E n \in Node : \/ Transport(Process(n)) \/ Transport(Lose(n))
                     \/ Transport(ForeignFlowControl(n))
  \/ SessionLayer(Enqueue) \/ SessionLayer(Client) \/ SessionLayer(Server)
  \/ SessionLayer(LoseRequest) \/ SessionLayer(LoseResponse)
  \/ SessionLayer(UdsTick)

Fairness ==
  /\ WF_vars(Transport(Tick))
  /\ \A n \in Node : WF_vars(Transport(Process(n)))
  /\ WF_vars(SessionLayer(Client)) /\ WF_vars(SessionLayer(Server))
  /\ WF_vars(SessionLayer(UdsTick))

Spec == Init /\ [][Next]_vars /\ Fairness
=============================================================================
