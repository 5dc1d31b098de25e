---------------------------- MODULE StageChannel ----------------------------
(***************************************************************************)
(* What a stage queue promises to the pipeline: a bounded FIFO channel     *)
(* between one sender and one receiver, each of which may leave.  The      *)
(* receiver is told of the sender's departure only once it has happened,   *)
(* but it may be told before it has taken the last items.                  *)
(***************************************************************************)
EXTENDS Naturals, Sequences

CONSTANT Capacity

VARIABLES
  chan,       \* the items sent and not yet received, oldest first
  sent,       \* how many items have been sent: they are 0, 1, 2, ...
  received,   \* the items received, in the order of reception
  open        \* end -> is it alive?

scVars == <<chan, sent, received, open>>

End == {"sender", "receiver"}

SCInit == chan = <<>> /\ sent = 0 /\ received = <<>> /\ open = [e \in End |-> TRUE]

Send ==
  /\ open["sender"] /\ Len(chan) < Capacity
  /\ chan' = Append(chan, sent)
  /\ sent' = sent + 1
  /\ UNCHANGED <<received, open>>

Receive ==
  /\ open["receiver"] /\ chan # <<>>
  /\ received' = Append(received, Head(chan))
  /\ chan' = Tail(chan)
  /\ UNCHANGED <<sent, open>>

Leave(e) ==
  /\ open[e]
  /\ open' = [open EXCEPT ![e] = FALSE]
  /\ UNCHANGED <<chan, sent, received>>

SCNext == Send \/ Receive \/ \E e \in End : Leave(e)

SCSpec == SCInit /\ [][SCNext]_scVars
=============================================================================
