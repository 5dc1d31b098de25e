------------------------------ MODULE MCReplay ------------------------------
(***************************************************************************)
(* The sequential body side by side with the two programs that run it over *)
(* a recording: a behaviour is one of run_one_iteration, of a debug        *)
(* session, or of the replay of a fleet's logs.                            *)
(***************************************************************************)
EXTENDS MCSequentialRuntime, DebugSession, DistributedReplay

Message(id, ts, origins) == [id |-> id, ts |-> ts, origins |-> origins]
Plain(id) == Message(id, 10 * id + 1, {})
Recorded(sections, keyframes) ==
  [lists |-> FlattenSeq(sections),
   ends |-> [k \in DOMAIN sections |-> Len(FlattenSeq(SubSeq(sections, 1, k)))],
   keyframes |-> {[culistid |-> id, timestamp |-> 10 * id,
                   frozen |-> <<[by |-> "recorder", before |-> id]>>] :
                    id \in keyframes}]
OneSection(lists, keyframes) == Recorded(<<lists>>, keyframes)
NoLists == Recorded(<<>>, {})

Logs == {
  Recorded(<<<<Plain(0), Plain(1)>>, <<Plain(2), Plain(3)>>>>, {0, 2}),
  \* lists without timestamps, one of them lost, keyframe 2 without its list
  Recorded(<<<<Message(0, 1, {}), Message(1, None, {})>>,
             <<Message(3, None, {})>>,
             <<Message(4, 41, {}), Message(5, 51, {})>>>>, {0, 2, 5}),
  \* nothing to rewind to before list 2
  Recorded(<<<<Message(0, 1, {}), Message(1, 1, {})>>,
             <<Message(2, 21, {}), Message(3, None, {})>>>>, {2}),
  \* sections that start at the same time
  Recorded(<<<<Message(0, 1, {}), Message(1, 5, {})>>, <<Message(2, 5, {})>>,
             <<Message(3, 5, {}), Message(4, 21, {})>>>>, {0, 3}),
  NoLists }

LogFleets == {
  \* there and back, the third list caused by both of the other log's
  << OneSection(<<Plain(0), Message(1, 11, {<<2, 0>>}),
                  Message(2, 21, {<<2, 0>>, <<2, 1>>})>>, {0, 2}),
     OneSection(<<Message(0, 1, {<<1, 0>>}), Message(1, 11, {<<1, 1>>})>>, {0}) >>,
  \* two lists that exchanged messages both ways
  << OneSection(<<Plain(0), Message(1, 11, {<<2, 1>>})>>, {0}),
     OneSection(<<Plain(0), Message(1, 11, {<<1, 1>>})>>, {0}) >>,
  \* a message to oneself; list 2 was aborted and has no keyframe
  << OneSection(<<Plain(0), Message(1, 11, {<<1, 0>>}), Plain(2), Plain(3),
                  Plain(4)>>, {0, 4}) >>,
  \* a list without a time, and one that was lost
  << OneSection(<<Plain(0), Message(1, None, {})>>, {0}),
     OneSection(<<Plain(0), Plain(2), Plain(3)>>, {0, 2}) >>,
  \* no keyframe, and one that this runtime does not capture
  << OneSection(<<Plain(0)>>, {}), OneSection(<<Plain(1)>>, {1}),
     OneSection(<<Plain(0), Plain(1)>>, {0}) >>,
  <<>> }

VARIABLE layer

Init ==
  /\ layer \in {"sequential", "debug", "fleet"}
  /\ SeqInit /\ DebugInit /\ EngineInit
  /\ layer # "debug" => recording = NoLists
  /\ layer # "fleet" => fleet = <<>>

vars == <<layer, seq_vars, debug_vars, engine_vars>>

Next ==
  \/ layer = "sequential" /\ SeqNext /\ UNCHANGED <<layer, debug_vars, engine_vars>>
  \/ layer = "debug" /\ DebugNext /\ UNCHANGED <<layer, seq_vars, engine_vars>>
  \/ layer = "fleet" /\ EngineNext /\ UNCHANGED <<layer, seq_vars, debug_vars>>

Spec == Init /\ [][Next]_vars
=============================================================================
