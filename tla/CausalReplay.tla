---------------------------- MODULE CausalReplay ----------------------------
(***************************************************************************)
(* What the replay of a fleet promises: the lists of all its logs, one at  *)
(* a time, each after those that caused it, and always the first in order  *)
(* of those whose turn may come, so that every replay of a fleet is the    *)
(* same.  A list whose replay fails is given up, with what depends on it.  *)
(***************************************************************************)
EXTENDS Integers

VARIABLES
  nodes, causes,    \* lists <<log, id>>; pairs of a list and one it caused
  executed, given_up

cr_vars == <<nodes, causes, executed, given_up>>

\* By log, and then by id.
InOrder(m, n) == m[1] < n[1] \/ (m[1] = n[1] /\ m[2] <= n[2])

Ready ==
  {n \in nodes \ (executed \cup given_up) :
     \A m \in nodes : <<m, n>> \in causes => m \in executed}
Turn == {n \in Ready : \A m \in Ready : InOrder(n, m)}

CRInit == executed = {} /\ given_up = {}

Replay ==
  \E n \in Turn : executed' = executed \cup {n} /\ UNCHANGED given_up
GiveUp ==
  \E n \in Turn : given_up' = given_up \cup {n} /\ UNCHANGED executed
StartOver == executed' = {} /\ given_up' = {}

CRSpec ==
  CRInit /\ [][(Replay \/ GiveUp \/ StartOver) /\ UNCHANGED <<nodes, causes>>]_cr_vars
=============================================================================
