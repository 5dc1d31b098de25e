---------------------------- MODULE OneSlotTask ----------------------------
(***************************************************************************)
(* What background tasks promise to the loop that polls them: one slot     *)
(* each.  A poll takes the result of the last run out and starts the next  *)
(* run, or comes back empty-handed; a failure is reported first.           *)
(***************************************************************************)
EXTENDS Naturals, Sequences

CONSTANT Task

VARIABLES
  slot,      \* task -> what its slot holds
  round,     \* task -> the last run that was started
  taken      \* task -> the runs whose results came out, oldest first

os_vars == <<slot, round, taken>>

OSInit ==
  /\ slot = [t \in Task |-> "nothing"]
  /\ round = [t \in Task |-> 0]
  /\ taken = [t \in Task |-> <<>>]

TakeOut(t) ==
  \/ slot[t] = "nothing" /\ UNCHANGED taken
  \/ /\ slot[t] \in {"result", "leftover"}
     /\ taken' = [taken EXCEPT ![t] = Append(@, round[t])]

Start(t) ==
  /\ TakeOut(t)
  /\ slot' = [slot EXCEPT ![t] = "running"]
  /\ round' = [round EXCEPT ![t] = @ + 1]

Finish(t) ==
  /\ slot[t] = "running"
  /\ \E end \in {"nothing", "result", "failure"} :
       slot' = [slot EXCEPT ![t] = end]
  /\ UNCHANGED <<round, taken>>

\* A run that failed may have left something behind.
Report(t) ==
  /\ slot[t] = "failure"
  /\ \E rest \in {"nothing", "leftover"} : slot' = [slot EXCEPT ![t] = rest]
  /\ UNCHANGED <<round, taken>>

OSNext == \E t \in Task : Start(t) \/ Finish(t) \/ Report(t)

OSSpec == OSInit /\ [][OSNext]_os_vars
=============================================================================
