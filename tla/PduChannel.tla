----------------------------- MODULE PduChannel -----------------------------
(***************************************************************************)
(* What ISO-TP promises to the layer above: a PDU arrives whole or not at  *)
(* all, once, and not before one that was handed over earlier.  On a torn  *)
(* channel a PDU may arrive mixed with another.                            *)
(***************************************************************************)
EXTENDS Integers, Sequences

CONSTANT Node

VARIABLES
  handed,     \* node -> PDUs handed over to be sent to it
  torn,       \* whether PDUs may arrive mixed
  delivered   \* node -> the PDUs it was given, oldest first; -p is a mixture
              \* that begins as p

pc_vars == <<handed, torn, delivered>>

PCInit ==
  /\ handed = [n \in Node |-> 0]
  /\ torn = FALSE
  /\ delivered = [n \in Node |-> <<>>]

Latest(n) ==
  LET last == delivered[n][Len(delivered[n])] IN
  IF delivered[n] = <<>> THEN 0 ELSE IF last < 0 THEN -last ELSE last

HandOver(n) == handed' = [handed EXCEPT ![n] = @ + 1]

\* An older PDU that has not arrived by now never will.
Deliver(n) ==
  \E p \in (Latest(n) + 1)..handed[n] :
    \E e \in {p} \cup (IF torn THEN {-p} ELSE {}) :
      delivered' = [delivered EXCEPT ![n] = Append(@, e)]

PCNext ==
  /\ torn => torn'
  /\ \E n \in Node : HandOver(n) \/ UNCHANGED handed
  /\ \/ \E n \in Node : Deliver(n)
     \/ UNCHANGED delivered

PCSpec == PCInit /\ [][PCNext]_pc_vars
=============================================================================
