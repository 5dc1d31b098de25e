-------------------------- MODULE SequentialRuntime --------------------------
(***************************************************************************)
(* run_one_iteration as cu29_derive generates it: one CopperList is        *)
(* created, every step of the plan is executed in order, the list and its  *)
(* keyframe are logged, the postprocess calls follow.  Whoever calls it    *)
(* (run, a simulation, a debugger) may call it again after an error.       *)
(***************************************************************************)
EXTENDS CopperListRing, KeyFrames, FiniteSets

CONSTANTS
  Plan,              \* the steps: the component each one executes
  BridgeOrder,       \* the bridges, in the order of their postprocess
  Endings,           \* how a step may end
  LogMayFail,        \* may a write to the unified log fail?
  MaxClid            \* bound: no iteration is started from this id on

Steps == 1..Len(Plan)
Bridges == {BridgeOrder[i] : i \in 1..Len(BridgeOrder)}
Component == {Plan[s] : s \in Steps}
Ending == {"Continue", "Abort", "Shutdown", "Panic"}

ASSUME SequentialAssumption ==
  /\ Len(Plan) \in Nat \ {0} /\ Len(BridgeOrder) \in Nat
  /\ Bridges \subseteq Component
  /\ Endings \subseteq Ending
  /\ LogMayFail \in BOOLEAN
  /\ MaxClid \in Nat

VARIABLES
  pc,          \* where the iteration is
  step,        \* the step it executes next
  kf,          \* KeyFramesManager.inner: id and frozen states
  kf_log,      \* keyframes written to the log
  \* history
  ran,         \* step -> the ids it has processed
  lost         \* the ids whose iteration returned before they were logged

seq_vars == <<ring, log, pc, step, kf, kf_log, ran, lost>>

SeqInit ==
  /\ RingInit
  /\ pc = "idle" /\ step = 1
  /\ kf = [culistid |-> 0, frozen |-> <<>>] /\ kf_log = {}
  /\ ran = [s \in Steps |-> {}] /\ lost = {}

clid == current_cl_id - 1

\* The state of a component is what it has been through.
StateOf(c, steps) ==
  {x \in Steps \X UNION {steps[s] : s \in Steps} :
     Plan[x[1]] = c /\ x[2] \in steps[x[1]]}

Frozen(c, steps) == [component |-> c, state |-> StateOf(c, steps)]

\* freeze_task, at the head of a task's step; bridges have none.
Freezes(s) == Plan[s] \notin Bridges /\ captures_keyframe(clid)

----------------------------------------------------------------------------

\* The preprocess calls, which may return early with nothing changed, then
\* create and the reset of the keyframe.
KeyframeReset_kept(k) == [kf EXCEPT !.culistid = k]
KeyframeReset(k) == [culistid |-> k, frozen |-> <<>>]

Begin ==
  /\ pc = "idle" /\ current_cl_id < MaxClid
  /\ Create
  /\ kf' = IF captures_keyframe(current_cl_id)
             THEN KeyframeReset(current_cl_id) ELSE kf
  /\ pc' = "steps" /\ step' = 1
  /\ UNCHANGED <<kf_log, ran, lost>>

\* "Ran out of space for copper lists"
RunOutOfSpace ==
  /\ pc = "idle" /\ is_full
  /\ UNCHANGED seq_vars

\* A list whose iteration ends here stays in its slot as it is.
Lose_onwards == lost' = lost \cup {clid} /\ pc' = "keyframe"
Lose == lost' = lost \cup {clid} /\ pc' = "idle"

\* Where the step's result leads: a decision to ignore an error continues,
\* one to abort leaves the steps, shutdown and panics leave the iteration.
Step ==
  /\ pc = "steps"
  /\ kf' = IF Freezes(step)
             THEN [kf EXCEPT !.frozen = Append(@, Frozen(Plan[step], ran))]
             ELSE kf
  /\ ran' = [ran EXCEPT ![step] = @ \cup {clid}]
  /\ \E ending \in Endings :
       \/ /\ ending = "Continue" /\ step < Len(Plan)
          /\ step' = step + 1
          /\ UNCHANGED <<pc, lost>>
       \/ /\ ending = "Continue" /\ step = Len(Plan)
          /\ pc' = "end"
          /\ UNCHANGED <<step, lost>>
       \/ /\ ending = "Abort"
          /\ pc' = "abort"
          /\ UNCHANGED <<step, lost>>
       \/ /\ ending \in {"Shutdown", "Panic"}
          /\ Lose
          /\ UNCHANGED step
  /\ UNCHANGED <<ring, log, kf_log>>

\* cl_manager.end_of_processing(clid)?, after which an aborted iteration
\* returns whatever the monitor said of the list.
AfterList == IF pc = "abort" THEN "idle" ELSE "keyframe"

EndList ==
  /\ pc \in {"abort", "end"}
  /\ EndOfProcessing(clid)
  /\ pc' = AfterList
  /\ UNCHANGED <<step, kf, kf_log, ran, lost>>

EndListFails ==
  /\ pc \in {"abort", "end"} /\ LogMayFail
  /\ EndOfProcessingFails(clid)
  /\ Lose
  /\ UNCHANGED <<step, kf, kf_log, ran>>

\* kf_manager.end_of_processing(clid)?, then an error of the monitor returns.
LogKeyframe ==
  /\ pc = "keyframe"
  /\ kf_log' = IF captures_keyframe(clid) THEN kf_log \cup {kf} ELSE kf_log
  /\ pc' \in {"postprocess", "idle"}
  /\ UNCHANGED <<ring, log, step, kf, ran, lost>>

LogKeyframeFails ==
  /\ pc = "keyframe" /\ LogMayFail /\ captures_keyframe(clid)
  /\ pc' = "idle"
  /\ UNCHANGED <<ring, log, step, kf, kf_log, ran, lost>>

\* The postprocess calls: the tasks', then each bridge is frozen and called;
\* an error returns after any of them.
Postprocess ==
  /\ pc = "postprocess"
  /\ \E n \in 0..Len(BridgeOrder) :
       kf' = IF captures_keyframe(clid)
               THEN [kf EXCEPT !.frozen = @ \o
                       [i \in 1..n |-> Frozen(BridgeOrder[i], ran)]]
               ELSE kf
  /\ pc' = "idle"
  /\ UNCHANGED <<ring, log, step, kf_log, ran, lost>>

Stopped == pc = "idle" /\ current_cl_id >= MaxClid /\ UNCHANGED seq_vars

SeqNext ==
  \/ Begin \/ RunOutOfSpace \/ Step \/ EndList \/ EndListFails
  \/ LogKeyframe \/ LogKeyframeFails \/ Postprocess \/ Stopped

SeqSpec == SeqInit /\ [][SeqNext]_seq_vars

----------------------------------------------------------------------------
(* Properties. *)

Keyframe == [culistid : Nat,
             frozen : Seq([component : Component,
                           state : SUBSET (Steps \X Nat)])]

TypeOK ==
  /\ RingType
  /\ pc \in {"idle", "steps", "abort", "end", "keyframe", "postprocess"}
  /\ step \in Steps
  /\ kf \in Keyframe /\ kf_log \subseteq Keyframe
  /\ ran \in [Steps -> SUBSET Nat]
  /\ lost \subseteq Nat

InProcess == pc \in {"steps", "abort", "end"}

(* The list an iteration ends is the newest of the ring, once, and still    *)
(* Processing, whatever earlier iterations left behind: the assertion of    *)
(* debug_assert_end_of_processing_target.                                   *)
EndTarget ==
  InProcess =>
    \E k \in 1..length :
      /\ data[Iter[k]] = [id |-> clid, state |-> "Processing"]
      /\ \A j \in 1..length : data[Iter[j]].id = clid => j = k

(* Every id handed out is in the log once, or was lost to an error, or is   *)
(* the one in process; and the log is in ascending order.                   *)
LoggedUnlessLost ==
  /\ \A i, j \in 1..Len(log) : i < j => log[i] < log[j]
  /\ {log[i] : i \in 1..Len(log)} =
       0..(current_cl_id - 1) \ (lost \cup (IF InProcess THEN {clid} ELSE {}))

(* Slots are lost only to errors: an application whose steps fail but are   *)
(* ignored or abort their list never runs out of CopperLists.               *)
SlotsLostToErrors ==
  length = Cardinality(lost) + (IF InProcess THEN 1 ELSE 0)

\* The steps up to n whose component freeze_task is called for.
TaskSteps(n) == {s \in 1..n : Plan[s] \notin Bridges}

(* A logged keyframe holds every task in plan order, each in the state the  *)
(* lists before the keyframe's left it in, and none of its own list.        *)
KeyframeIsPrefix ==
  \A f \in kf_log :
    /\ Len(f.frozen) >= Cardinality(TaskSteps(Len(Plan)))
    /\ \A s \in TaskSteps(Len(Plan)) :
         f.frozen[Cardinality(TaskSteps(s))] =
           [component |-> Plan[s],
            state |-> {x \in StateOf(Plan[s], ran) : x[2] < f.culistid}]

(* A keyframe never refers to a list that is not in the log.                *)
KeyframeHasList ==
  \A f \in kf_log : \E i \in 1..Len(log) : log[i] = f.culistid

Tasks == SelectSeq(Plan, LAMBDA c : c \notin Bridges)

(* A logged keyframe holds what restore_keyframe decodes: the tasks in      *)
(* order, then the bridges in order.                                        *)
KeyframeRestorable ==
  \A f \in kf_log :
    [i \in 1..Len(f.frozen) |-> f.frozen[i].component] = Tasks \o BridgeOrder
=============================================================================
