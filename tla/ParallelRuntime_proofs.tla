----------------------- MODULE ParallelRuntime_proofs -----------------------
(***************************************************************************)
(* ParallelRuntime for every plan, every number of boxes and every mix of  *)
(* failures, in three parts: its types and its log, which is that of       *)
(* OrderedCommit; where its lists and boxes are; and what its keyframes    *)
(* hold.                                                                   *)
(***************************************************************************)
EXTENDS ParallelRuntime, SequenceTheorems, FiniteSetTheorems, TLAPS

\* The tuples of variables are only shorthand for UNCHANGED.
USE DEF NoClid, shared, pipeline, launching, committing, workers, io,
        history, dispatcher

(* What the queues of the runtime do to the type of their contents.        *)
LEMMA SeqType ==
  ASSUME NEW S, NEW q \in Seq(S)
  PROVE  /\ Len(q) \in Nat
         /\ <<>> \in Seq(S)
         /\ \A x \in S : Append(q, x) \in Seq(S)
         /\ q # <<>> => Head(q) \in S /\ Tail(q) \in Seq(S)
<1>1. Len(q) \in Nat /\ <<>> \in Seq(S)
  BY LenProperties, EmptySeq
<1>2. \A x \in S : Append(q, x) \in Seq(S)
  BY AppendProperties
<1>3. q # <<>> => Head(q) \in S /\ Tail(q) \in Seq(S)
  BY HeadTailProperties
<1> QED
  BY <1>1, <1>2, <1>3

(* The state of a component, whatever has run, is a set of stage-id pairs.  *)
LEMMA StateOfType ==
  ASSUME NEW c, NEW h \in [Stage -> SUBSET Nat]
  PROVE  StateOf(c, h) \in SUBSET (Stage \X Nat)
BY DEF StateOf

(* There is a first stage, and every stage has a component.                 *)
LEMMA StageNonEmpty ==
  1 \in Stage /\ \A s \in Stage : ComponentOf[s] \in Component
BY ParallelAssumption DEF Stage, Component

----------------------------------------------------------------------------
(* Type correctness: the initial state, then one lemma per action.          *)

LEMMA InitType == Init => TypeOK
<1> SUFFICES ASSUME Init PROVE TypeOK
  OBVIOUS
<1>1. SharedType
  BY ParallelAssumption DEF Init, SharedType
<1>2. KeyframeType
  BY DEF Init, KeyframeType, Keyframe
<1>3. PipelineType
  BY DEF Init, PipelineType
<1>4. LaunchType /\ CommitType
  BY ParallelAssumption DEF Init, LaunchType, CommitType
<1>5. WorkerType
  BY DEF Init, WorkerType
<1>6. IoType /\ HistoryType
  BY DEF Init, IoType, HistoryType
<1> QED
  BY <1>1, <1>2, <1>3, <1>4, <1>5, <1>6 DEF TypeOK

LEMMA TypeReclaim ==
  ASSUME TypeOK, Reclaim
  PROVE  TypeOK'
<1>1. SharedType' /\ KeyframeType' /\ WorkerType' /\ HistoryType'
  BY DEF TypeOK, SharedType, KeyframeType, WorkerType, HistoryType, Reclaim,
     EarlyReturn
<1>2. PipelineType'
  BY DEF TypeOK, PipelineType, Reclaim, EarlyReturn
<1>3. LaunchType'
  BY SeqType DEF TypeOK, LaunchType, Reclaim, EarlyReturn, IoType
<1>4. CommitType'
  BY DEF TypeOK, CommitType, Reclaim, EarlyReturn
<1>5. IoType'
  BY SeqType DEF TypeOK, IoType, Reclaim, EarlyReturn
<1> QED
  BY <1>1, <1>2, <1>3, <1>4, <1>5 DEF TypeOK

LEMMA TypeLaunch ==
  ASSUME TypeOK, Launch
  PROVE  TypeOK'
<1>1. WorkerType' /\ IoType'
  BY DEF TypeOK, WorkerType, IoType, Launch
<1>2. SharedType'
  BY DEF TypeOK, SharedType, Launch
<1>3. KeyframeType'
  <2>1. <<>> \in Seq([component : Component, state : SUBSET (Stage \X Nat)])
    BY EmptySeq
  <2>2. kf' = kf \/ kf' = [culistid |-> next_launch_clid, frozen |-> <<>>]
    BY DEF Launch
  <2>3. next_launch_clid \in Nat
    BY DEF TypeOK, LaunchType
  <2>4. [culistid |-> next_launch_clid, frozen |-> <<>>] \in Keyframe
    BY <2>1, <2>3 DEF Keyframe
  <2> QED
    BY <2>2, <2>4 DEF TypeOK, KeyframeType, Launch
<1>4. PipelineType'
  <2>1. Append(queue[1], next_launch_clid) \in Seq(Nat)
    BY StageNonEmpty, SeqType DEF TypeOK, PipelineType, LaunchType
  <2> QED
    BY <2>1 DEF TypeOK, PipelineType, Launch, Enqueue
<1>5. LaunchType'
  BY DEF TypeOK, LaunchType, Launch, LaunchReady, StopSeen, SharedType
<1>6. CommitType'
  BY DEF TypeOK, CommitType, Launch
<1>7. HistoryType'
  BY DEF TypeOK, HistoryType, Launch
<1> QED
  BY <1>1, <1>2, <1>3, <1>4, <1>5, <1>6, <1>7 DEF TypeOK

LEMMA TypeSkipLaunch ==
  ASSUME TypeOK, SkipLaunch
  PROVE  TypeOK'
<1>1. /\ SharedType' /\ KeyframeType' /\ PipelineType'
      /\ LaunchType' /\ WorkerType' /\ IoType' /\ HistoryType'
  BY DEF TypeOK, SharedType, KeyframeType, PipelineType, LaunchType,
     WorkerType, IoType, HistoryType, SkipLaunch
<1>2. CommitType'
  BY DEF TypeOK, CommitType, SkipLaunch
<1> QED
  BY <1>1, <1>2 DEF TypeOK

LEMMA TypeLeave ==
  ASSUME TypeOK, Leave
  PROVE  TypeOK'
<1>1. /\ SharedType' /\ KeyframeType' /\ LaunchType'
      /\ WorkerType' /\ IoType' /\ HistoryType'
  BY DEF TypeOK, SharedType, KeyframeType, LaunchType, WorkerType, IoType,
     HistoryType, Leave
<1>2. PipelineType'
  BY DEF TypeOK, PipelineType, Leave
<1>3. CommitType'
  BY DEF TypeOK, CommitType, Leave
<1> QED
  BY <1>1, <1>2, <1>3 DEF TypeOK

LEMMA TypeWaitReclaim ==
  ASSUME TypeOK, WaitReclaim
  PROVE  TypeOK'
<1>1. SharedType' /\ KeyframeType' /\ WorkerType' /\ HistoryType'
  BY DEF TypeOK, SharedType, KeyframeType, WorkerType, HistoryType,
     WaitReclaim, EarlyReturn
<1>2. PipelineType'
  BY DEF TypeOK, PipelineType, WaitReclaim, EarlyReturn
<1>3. LaunchType'
  <2>1. free_copperlists' = free_copperlists + 1 /\ UNCHANGED launching
    BY DEF WaitReclaim
  <2> QED
    BY <2>1 DEF TypeOK, LaunchType
<1>4. CommitType'
  BY DEF TypeOK, CommitType, WaitReclaim, EarlyReturn
<1>5. IoType'
  BY SeqType DEF TypeOK, IoType, WaitReclaim
<1> QED
  BY <1>1, <1>2, <1>3, <1>4, <1>5 DEF TypeOK

LEMMA TypeAskLimiter ==
  ASSUME TypeOK, AskLimiter
  PROVE  TypeOK'
<1>1. /\ SharedType' /\ KeyframeType' /\ PipelineType'
      /\ LaunchType' /\ WorkerType' /\ IoType' /\ HistoryType'
  BY DEF TypeOK, SharedType, KeyframeType, PipelineType, LaunchType,
     WorkerType, IoType, HistoryType, AskLimiter
<1>2. CommitType'
  BY DEF TypeOK, CommitType, AskLimiter
<1> QED
  BY <1>1, <1>2 DEF TypeOK

LEMMA TypeWakeUp ==
  ASSUME TypeOK, WakeUp
  PROVE  TypeOK'
<1>1. /\ SharedType' /\ KeyframeType' /\ PipelineType'
      /\ LaunchType' /\ WorkerType' /\ IoType' /\ HistoryType'
  BY DEF TypeOK, SharedType, KeyframeType, PipelineType, LaunchType,
     WorkerType, IoType, HistoryType, WakeUp
<1>2. CommitType'
  BY DEF TypeOK, CommitType, WakeUp
<1> QED
  BY <1>1, <1>2 DEF TypeOK

LEMMA TypeStartWait ==
  ASSUME TypeOK, StartWait
  PROVE  TypeOK'
<1>1. /\ SharedType' /\ KeyframeType' /\ PipelineType'
      /\ LaunchType' /\ WorkerType' /\ IoType' /\ HistoryType'
  BY DEF TypeOK, SharedType, KeyframeType, PipelineType, LaunchType,
     WorkerType, IoType, HistoryType, StartWait
<1>2. CommitType'
  BY DEF TypeOK, CommitType, StartWait
<1> QED
  BY <1>1, <1>2 DEF TypeOK

LEMMA TypeTimeout ==
  ASSUME TypeOK, Timeout
  PROVE  TypeOK'
<1>1. /\ SharedType' /\ KeyframeType' /\ PipelineType'
      /\ WorkerType' /\ IoType' /\ HistoryType'
  BY DEF TypeOK, SharedType, KeyframeType, PipelineType, WorkerType, IoType,
     HistoryType, Timeout
<1>2. LaunchType'
  BY DEF TypeOK, LaunchType, Timeout, SharedType
<1>3. CommitType'
  BY DEF TypeOK, CommitType, Timeout
<1> QED
  BY <1>1, <1>2, <1>3 DEF TypeOK

LEMMA TypeReceive ==
  ASSUME TypeOK, Receive
  PROVE  TypeOK'
<1>1. SharedType' /\ KeyframeType' /\ WorkerType' /\ IoType' /\ HistoryType'
  BY DEF TypeOK, SharedType, KeyframeType, WorkerType, IoType, HistoryType,
     Receive
<1>2. PipelineType'
  BY SeqType DEF TypeOK, PipelineType, Receive
<1>3. LaunchType'
  BY DEF TypeOK, LaunchType, Receive, Received
<1>4. CommitType'
  BY SeqType DEF TypeOK, CommitType, Receive, PipelineType
<1> QED
  BY <1>1, <1>2, <1>3, <1>4 DEF TypeOK

LEMMA TypeSubmit ==
  ASSUME TypeOK, NEW r \in pending_results, Submit(r)
  PROVE  TypeOK'
<1>1. SharedType' /\ KeyframeType' /\ WorkerType' /\ HistoryType'
  BY DEF TypeOK, SharedType, KeyframeType, WorkerType, HistoryType, Submit,
     EarlyReturn
<1>2. PipelineType'
  BY DEF TypeOK, PipelineType, Submit, EarlyReturn
<1>3. LaunchType'
  BY DEF TypeOK, LaunchType, Submit, EarlyReturn
<1>4. CommitType'
  BY DEF TypeOK, CommitType, Submit, EarlyReturn
<1>5. IoType'
  <2>1. r.clid \in Nat
    BY DEF TypeOK, CommitType, Result
  <2>2. /\ Append(log, r.clid) \in Seq(Nat)
        /\ Append(io_queue, r.clid) \in Seq(Nat)
    BY <2>1, SeqType DEF TypeOK, IoType
  <2>3. manager_pool + Len(completions) \in Nat /\ <<>> \in Seq(BOOLEAN)
    BY SeqType DEF TypeOK, IoType
  <2> QED
    BY <2>2, <2>3 DEF TypeOK, IoType, Submit
<1> QED
  BY <1>1, <1>2, <1>3, <1>4, <1>5 DEF TypeOK

LEMMA TypeFinish ==
  ASSUME TypeOK, NEW r \in pending_results, Finish(r)
  PROVE  TypeOK'
<1>1. SharedType' /\ WorkerType' /\ HistoryType'
  BY DEF TypeOK, SharedType, WorkerType, HistoryType, Finish, ReleaseCommit,
     EarlyReturn
<1>2. KeyframeType'
  BY DEF TypeOK, KeyframeType, Finish
<1>3. PipelineType'
  BY DEF TypeOK, PipelineType, Finish, EarlyReturn
<1>4. LaunchType'
  BY DEF TypeOK, LaunchType, Finish, ReleaseCommit, ReleaseKeyframe,
     EarlyReturn
<1>5. CommitType'
  <2>1. r.clid + 1 \in Nat /\ pending_results \ {r} \subseteq Result
    BY DEF TypeOK, CommitType, Result
  <2> QED
    BY <2>1 DEF TypeOK, CommitType, Finish, ReleaseCommit, EarlyReturn
<1>6. IoType'
  BY SeqType DEF TypeOK, IoType, Finish
<1> QED
  BY <1>1, <1>2, <1>3, <1>4, <1>5, <1>6 DEF TypeOK

LEMMA TypeCommitError ==
  ASSUME TypeOK, NEW r \in pending_results, CommitError(r)
  PROVE  TypeOK'
<1>1. /\ KeyframeType' /\ PipelineType'
      /\ WorkerType' /\ IoType' /\ HistoryType'
  BY DEF TypeOK, KeyframeType, PipelineType, WorkerType, IoType, HistoryType,
     CommitError, ReleaseCommit
<1>2. SharedType'
  BY DEF TypeOK, SharedType, CommitError
<1>3. LaunchType'
  BY DEF TypeOK, LaunchType, CommitError, ReleaseCommit, ReleaseKeyframe,
     BoxOf
<1>4. CommitType'
  <2>1. r.clid + 1 \in Nat /\ pending_results \ {r} \subseteq Result
    BY DEF TypeOK, CommitType, Result
  <2>2. r \in Result
    BY DEF TypeOK, CommitType
  <2>3. fatal_error' \in {"Err", "Panic", "ShuttingDown", "HandOffFailed",
                         "OutOfSync"}
    BY <2>2 DEF CommitError, Committable, Result, StepOutcome
  <2> QED
    BY <2>1, <2>3 DEF TypeOK, CommitType, CommitError, ReleaseCommit
<1> QED
  BY <1>1, <1>2, <1>3, <1>4 DEF TypeOK

LEMMA TypeDiscard ==
  ASSUME TypeOK, NEW r \in pending_results, Discard(r)
  PROVE  TypeOK'
<1>1. /\ SharedType' /\ KeyframeType' /\ PipelineType'
      /\ WorkerType' /\ IoType' /\ HistoryType'
  BY DEF TypeOK, SharedType, KeyframeType, PipelineType, WorkerType, IoType,
     HistoryType, Discard, ReleaseCommit
<1>2. LaunchType'
  BY DEF TypeOK, LaunchType, Discard, ReleaseCommit, ReleaseKeyframe, BoxOf
<1>3. CommitType'
  <2>1. r.clid + 1 \in Nat /\ pending_results \ {r} \subseteq Result
    BY DEF TypeOK, CommitType, Result
  <2> QED
    BY <2>1 DEF TypeOK, CommitType, Discard, ReleaseCommit
<1> QED
  BY <1>1, <1>2, <1>3 DEF TypeOK

LEMMA TypeCommitDone ==
  ASSUME TypeOK, CommitDone
  PROVE  TypeOK'
<1>1. /\ SharedType' /\ KeyframeType' /\ PipelineType'
      /\ WorkerType' /\ IoType' /\ HistoryType'
  BY DEF TypeOK, SharedType, KeyframeType, PipelineType, WorkerType, IoType,
     HistoryType, CommitDone
<1>2. LaunchType'
  BY DEF TypeOK, LaunchType, CommitDone, SharedType
<1>3. CommitType'
  BY DEF TypeOK, CommitType, CommitDone
<1> QED
  BY <1>1, <1>2, <1>3 DEF TypeOK

LEMMA TypeDrain ==
  ASSUME TypeOK, Drain
  PROVE  TypeOK'
<1>1. SharedType' /\ KeyframeType' /\ WorkerType' /\ HistoryType'
  BY DEF TypeOK, SharedType, KeyframeType, WorkerType, HistoryType, Drain,
     EarlyReturn
<1>2. PipelineType'
  BY DEF TypeOK, PipelineType, Drain, EarlyReturn
<1>3. LaunchType'
  <2>1. /\ \/ free_copperlists' = free_copperlists + 1
           \/ free_copperlists' = free_copperlists
        /\ UNCHANGED launching
    BY DEF Drain
  <2> QED
    BY <2>1 DEF TypeOK, LaunchType
<1>4. CommitType'
  BY DEF TypeOK, CommitType, Drain, EarlyReturn
<1>5. IoType'
  BY SeqType DEF TypeOK, IoType, Drain
<1> QED
  BY <1>1, <1>2, <1>3, <1>4, <1>5 DEF TypeOK

LEMMA TypeJoin ==
  ASSUME TypeOK, Join
  PROVE  TypeOK'
<1>1. /\ SharedType' /\ KeyframeType' /\ PipelineType'
      /\ LaunchType' /\ WorkerType' /\ IoType' /\ HistoryType'
  BY DEF TypeOK, SharedType, KeyframeType, PipelineType, LaunchType,
     WorkerType, IoType, HistoryType, Join
<1>2. CommitType'
  BY DEF TypeOK, CommitType, Join
<1> QED
  BY <1>1, <1>2 DEF TypeOK

LEMMA TypeRecv ==
  ASSUME TypeOK, NEW s \in Stage, Recv(s)
  PROVE  TypeOK'
<1>1. /\ SharedType' /\ KeyframeType' /\ LaunchType'
      /\ CommitType' /\ IoType' /\ HistoryType'
  BY DEF TypeOK, SharedType, KeyframeType, LaunchType, CommitType, IoType,
     HistoryType, Recv
<1>2. PipelineType'
  BY SeqType DEF TypeOK, PipelineType, Recv
<1>3. WorkerType'
  <2>1. Head(queue[s]) \in Nat
    BY SeqType DEF TypeOK, PipelineType, Recv
  <2> QED
    BY <2>1 DEF TypeOK, WorkerType, Recv, StepOutcome
<1> QED
  BY <1>1, <1>2, <1>3 DEF TypeOK

LEMMA TypeRun ==
  ASSUME TypeOK, NEW s \in Stage, Run(s)
  PROVE  TypeOK'
<1>1. PipelineType' /\ LaunchType' /\ CommitType' /\ IoType'
  BY DEF TypeOK, PipelineType, LaunchType, CommitType, IoType, Run
<1>2. HistoryType'
  <2>1. job[s] \in Nat
    BY DEF TypeOK, WorkerType, Run
  <2>2. ran' = ran \/ ran' = [ran EXCEPT ![s] = @ \cup {job[s]}]
    BY DEF Run
  <2> QED
    BY <2>1, <2>2 DEF TypeOK, HistoryType, Run
<1>3. SharedType'
  BY DEF TypeOK, SharedType, Run
<1>4. KeyframeType'
  <2>1. job[s] \in Nat
    BY DEF TypeOK, WorkerType, Run
  <2>2. ran' \in [Stage -> SUBSET Nat]
    BY <1>2 DEF HistoryType
  <2>3. FrozenState(s, ran, ran') \in SUBSET (Stage \X Nat)
    BY <2>2, StateOfType DEF FrozenState, TypeOK, HistoryType
  <2>4. [component |-> ComponentOf[s], state |-> FrozenState(s, ran, ran')]
          \in [component : Component, state : SUBSET (Stage \X Nat)]
    BY <2>3, StageNonEmpty
  <2>5. Append(kf.frozen, [component |-> ComponentOf[s],
                           state |-> FrozenState(s, ran, ran')])
          \in Seq([component : Component, state : SUBSET (Stage \X Nat)])
    BY <2>4, SeqType DEF TypeOK, KeyframeType, Keyframe
  <2>6. \/ kf' = kf
        \/ kf' = [kf EXCEPT !.frozen =
                    Append(@, [component |-> ComponentOf[s],
                               state |-> FrozenState(s, ran, ran')])]
    BY DEF Run
  <2>7. kf' \in Keyframe
    BY <2>5, <2>6 DEF TypeOK, KeyframeType, Keyframe
  <2> QED
    BY <2>7 DEF TypeOK, KeyframeType, Run
<1>5. WorkerType'
  <2>1. PICK o \in StepOutcome \cup {"ShuttingDown"} :
          outcome' = [outcome EXCEPT ![s] = o]
    BY ParallelAssumption DEF Run, StepOutcome
  <2>2. \/ wpc' = [wpc EXCEPT ![s] = "forward"]
        \/ wpc' = [wpc EXCEPT ![s] = "report"]
    BY DEF Run
  <2>3. poisoned' \subseteq Component
    BY StageNonEmpty DEF TypeOK, WorkerType, Run
  <2>4. job[s] \in Nat /\ job' = job
    BY DEF TypeOK, WorkerType, Run
  <2> QED
    BY <2>1, <2>2, <2>3, <2>4 DEF TypeOK, WorkerType, StepOutcome
<1> QED
  BY <1>1, <1>2, <1>3, <1>4, <1>5 DEF TypeOK

LEMMA TypeForward ==
  ASSUME TypeOK, NEW s \in Stage, Forward(s)
  PROVE  TypeOK'
<1>1. KeyframeType' /\ LaunchType' /\ CommitType' /\ IoType' /\ HistoryType'
  BY DEF TypeOK, KeyframeType, LaunchType, CommitType, IoType, HistoryType,
     Forward
<1>2. SharedType'
  BY DEF TypeOK, SharedType, Forward
<1>3. PipelineType'
  <2>1. CASE wpc[s + 1] = "dead"
    BY <2>1 DEF TypeOK, PipelineType, Forward
  <2>2. CASE wpc[s + 1] # "dead"
    <3>1. job[s] \in Nat
      BY DEF TypeOK, WorkerType, Forward
    <3>2. \A t \in Stage : Append(queue[t], job[s]) \in Seq(Nat)
      BY <3>1, SeqType DEF TypeOK, PipelineType
    <3>3. queue' = [queue EXCEPT ![s + 1] = Append(queue[s + 1], job[s])]
      BY <2>2 DEF Forward, Enqueue
    <3>4. queue' \in [Stage -> Seq(Nat)]
      BY <3>2, <3>3 DEF TypeOK, PipelineType
    <3> QED
      BY <2>2, <3>4 DEF TypeOK, PipelineType, Forward
  <2> QED
    BY <2>1, <2>2
<1>4. WorkerType'
  BY DEF TypeOK, WorkerType, Forward
<1> QED
  BY <1>1, <1>2, <1>3, <1>4 DEF TypeOK

LEMMA TypeReport ==
  ASSUME TypeOK, NEW s \in Stage, Report(s)
  PROVE  TypeOK'
<1>1. /\ SharedType' /\ KeyframeType' /\ LaunchType'
      /\ CommitType' /\ IoType' /\ HistoryType'
  BY DEF TypeOK, SharedType, KeyframeType, LaunchType, CommitType, IoType,
     HistoryType, Report
<1>2. PipelineType'
  <2>1. [clid |-> job[s], outcome |-> outcome[s]] \in Result
    BY DEF TypeOK, WorkerType, Report, Result
  <2>2. Append(done, [clid |-> job[s], outcome |-> outcome[s]]) \in Seq(Result)
    BY <2>1, SeqType DEF TypeOK, PipelineType
  <2> QED
    BY <2>2 DEF TypeOK, PipelineType, Report
<1>3. WorkerType'
  BY DEF TypeOK, WorkerType, Report
<1> QED
  BY <1>1, <1>2, <1>3 DEF TypeOK

LEMMA TypeDisconnect ==
  ASSUME TypeOK, NEW s \in Stage, Disconnect(s)
  PROVE  TypeOK'
<1>1. /\ SharedType' /\ KeyframeType' /\ PipelineType'
      /\ LaunchType' /\ CommitType' /\ IoType' /\ HistoryType'
  BY DEF TypeOK, SharedType, KeyframeType, PipelineType, LaunchType,
     CommitType, IoType, HistoryType, Disconnect
<1>2. WorkerType'
  BY DEF TypeOK, WorkerType, Disconnect
<1> QED
  BY <1>1, <1>2 DEF TypeOK

LEMMA TypeSerialize ==
  ASSUME TypeOK, Serialize
  PROVE  TypeOK'
<1>1. /\ SharedType' /\ KeyframeType' /\ PipelineType'
      /\ LaunchType' /\ CommitType' /\ WorkerType' /\ HistoryType'
  BY DEF TypeOK, SharedType, KeyframeType, PipelineType, LaunchType,
     CommitType, WorkerType, HistoryType, Serialize
<1>2. IoType'
  <2>1. Head(io_queue) \in Nat /\ Tail(io_queue) \in Seq(Nat)
    BY SeqType DEF TypeOK, IoType, Serialize
  <2>2. Append(log, Head(io_queue)) \in Seq(Nat)
    BY <2>1, SeqType DEF TypeOK, IoType
  <2>3. /\ Append(completions, TRUE) \in Seq(BOOLEAN)
        /\ Append(completions, FALSE) \in Seq(BOOLEAN)
    BY SeqType DEF TypeOK, IoType
  <2> QED
    BY <2>1, <2>2, <2>3 DEF TypeOK, IoType, Serialize
<1> QED
  BY <1>1, <1>2 DEF TypeOK

LEMMA TypeCtrlC ==
  ASSUME TypeOK, CtrlC
  PROVE  TypeOK'
<1>1. /\ KeyframeType' /\ PipelineType' /\ LaunchType'
      /\ CommitType' /\ WorkerType' /\ IoType' /\ HistoryType'
  BY DEF TypeOK, KeyframeType, PipelineType, LaunchType, CommitType,
     WorkerType, IoType, HistoryType, CtrlC
<1>2. SharedType'
  BY DEF TypeOK, SharedType, CtrlC
<1> QED
  BY <1>1, <1>2 DEF TypeOK

LEMMA TypeDeadline ==
  ASSUME TypeOK, Deadline
  PROVE  TypeOK'
<1>1. /\ KeyframeType' /\ PipelineType' /\ LaunchType'
      /\ CommitType' /\ WorkerType' /\ IoType' /\ HistoryType'
  BY DEF TypeOK, KeyframeType, PipelineType, LaunchType, CommitType,
     WorkerType, IoType, HistoryType, Deadline
<1>2. SharedType'
  BY DEF TypeOK, SharedType, Deadline
<1> QED
  BY <1>1, <1>2 DEF TypeOK

----------------------------------------------------------------------------
(* No step of any thread leaves the type invariant.                        *)
LEMMA TypeNext ==
  ASSUME TypeOK, [Next]_vars
  PROVE  TypeOK'
<1>1. CASE Dispatcher
  <2>1. CASE Commit
    BY <2>1, TypeSubmit, TypeFinish, TypeCommitError, TypeDiscard DEF Commit
  <2> QED
    BY <1>1, <2>1, TypeReclaim, TypeLaunch, TypeSkipLaunch, TypeLeave,
       TypeWaitReclaim, TypeAskLimiter, TypeWakeUp, TypeStartWait,
       TypeTimeout, TypeReceive, TypeCommitDone, TypeDrain, TypeJoin
       DEF Dispatcher
<1>2. ASSUME NEW s \in Stage, Worker(s) PROVE TypeOK'
  BY <1>2, TypeRecv, TypeRun, TypeForward, TypeReport, TypeDisconnect
     DEF Worker
<1>3. CASE Serialize \/ CtrlC \/ Deadline
  BY <1>3, TypeSerialize, TypeCtrlC, TypeDeadline
<1>4. CASE UNCHANGED vars
  BY <1>4 DEF vars, TypeOK, SharedType, KeyframeType, PipelineType,
              LaunchType, CommitType, WorkerType, IoType, HistoryType
<1> QED
  BY <1>1, <1>2, <1>3, <1>4 DEF Next, Terminated

(* The generated run() keeps every shared structure well typed: a busy      *)
(* worker holds a job, a reporting one an outcome, whatever fails and      *)
(* whoever panics.                                                         *)
THEOREM TypeCorrect == Spec => []TypeOK
<1>1. Init => TypeOK
  BY InitType
<1>2. TypeOK /\ [Next]_vars => TypeOK'
  BY TypeNext
<1> QED
  BY <1>1, <1>2, PTL DEF Spec

----------------------------------------------------------------------------
(* The log is in order: CommitCursorInv is inductive under TypeOK.          *)

\* Where the ids on their way are kept.
idsVars == <<queue, job, done, pending_results, next_launch_clid>>
\* What ties the log to the commit cursor.
cursorVars == <<log, io_queue, io_alive, next_launch_clid, next_commit_clid,
                fatal_error>>

(* What an append, and what a dequeue, makes of the elements of a queue.    *)
LEMMA SeqElements ==
  ASSUME NEW S, NEW q \in Seq(S)
  PROVE  /\ \A x \in S :
              /\ Len(Append(q, x)) = Len(q) + 1
              /\ \A i \in 1..Len(q) : Append(q, x)[i] = q[i]
              /\ Append(q, x)[Len(q) + 1] = x
         /\ q # <<>> =>
              /\ Len(q) > 0 /\ Head(q) = q[1]
              /\ Len(Tail(q)) = Len(q) - 1
              /\ \A i \in 1..Len(Tail(q)) : Tail(q)[i] = q[i + 1]
<1>1. \A x \in S :
        /\ Len(Append(q, x)) = Len(q) + 1
        /\ \A i \in 1..Len(q) : Append(q, x)[i] = q[i]
        /\ Append(q, x)[Len(q) + 1] = x
  BY AppendProperties
<1>2. ASSUME q # <<>>
      PROVE  /\ Len(q) > 0 /\ Head(q) = q[1]
             /\ Len(Tail(q)) = Len(q) - 1
             /\ \A i \in 1..Len(Tail(q)) : Tail(q)[i] = q[i + 1]
  BY <1>2, HeadTailProperties, EmptySeq, LenProperties
<1> QED
  BY <1>1, <1>2

LEMMA IdsLaunch ==
  ASSUME TypeOK, IdsLaunched, Launch
  PROVE  IdsLaunched'
<1> USE DEF TypeOK, PipelineType, LaunchType, CommitType, WorkerType
<1>1. next_launch_clid' = next_launch_clid + 1 /\ next_launch_clid \in Nat
  BY DEF Launch
<1>2. ASSUME NEW s \in Stage, NEW i \in 1..Len(queue'[s])
      PROVE  queue'[s][i] < next_launch_clid'
  <2>1. queue[s] \in Seq(Nat) /\ Len(queue[s]) \in Nat
    BY LenProperties
  <2>2. \A j \in 1..Len(queue[s]) : queue[s][j] < next_launch_clid'
    <3>1. \A j \in 1..Len(queue[s]) : queue[s][j] \in Nat
      BY <2>1, ElementOfSeq
    <3> QED
      BY <1>1, <3>1 DEF IdsLaunched
  <2>3. CASE s # 1
    BY <2>2, <2>3 DEF Launch
  <2>4. CASE s = 1
    <3>1. queue'[s] = Append(queue[s], next_launch_clid)
      BY <2>4, StageNonEmpty DEF Launch, Enqueue
    <3>2. i \in 1..Len(queue[s]) \/ i = Len(queue[s]) + 1
      BY <2>1, <3>1, <1>1, SeqElements
    <3>3. queue'[s][i] = queue[s][i] \/ queue'[s][i] = next_launch_clid
      BY <2>1, <3>1, <3>2, <1>1, SeqElements
    <3>4. CASE i = Len(queue[s]) + 1
      BY <2>1, <3>1, <3>4, <1>1, SeqElements
    <3>5. CASE i \in 1..Len(queue[s])
      BY <2>1, <2>2, <3>1, <3>5, <1>1, SeqElements
    <3> QED
      BY <3>2, <3>4, <3>5
  <2> QED
    BY <2>3, <2>4
<1>3. \A s \in Stage : job'[s] < next_launch_clid'
  <2>1. job' = job /\ \A s \in Stage : job[s] \in Int
    BY DEF Launch
  <2>2. \A s \in Stage : job[s] < next_launch_clid
    BY DEF IdsLaunched
  <2> HIDE DEF TypeOK, WorkerType
  <2> QED
    BY <1>1, <2>1, <2>2
<1>4. \A i \in 1..Len(done') : done'[i].clid < next_launch_clid'
  <2>1. \A i \in 1..Len(done) : done[i] \in Result
    BY ElementOfSeq
  <2> QED
    BY <1>1, <2>1 DEF IdsLaunched, Launch, Result
<1>5. \A r \in pending_results' : r.clid < next_launch_clid'
  BY <1>1 DEF IdsLaunched, Launch, Result
<1> QED
  BY <1>2, <1>3, <1>4, <1>5 DEF IdsLaunched

LEMMA IdsReceive ==
  ASSUME TypeOK, IdsLaunched, Receive
  PROVE  IdsLaunched'
<1>1. done \in Seq(Result) /\ done # <<>> /\ done' = Tail(done)
  BY DEF TypeOK, PipelineType, Receive
<1>2. Len(done) \in Nat /\ Len(done') = Len(done) - 1
  BY <1>1, SeqElements, LenProperties
<1>3. \A i \in 1..Len(done') : done'[i] = done[i + 1]
  BY <1>1, SeqElements
<1>4. \A i \in 1..Len(done') : done'[i].clid < next_launch_clid
  BY <1>2, <1>3 DEF IdsLaunched
<1>5. Head(done).clid < next_launch_clid
  BY <1>1, <1>2, SeqElements DEF IdsLaunched
<1> QED
  BY <1>4, <1>5 DEF IdsLaunched, Receive

LEMMA IdsRecv ==
  ASSUME TypeOK, IdsLaunched, NEW s \in Stage, Recv(s)
  PROVE  IdsLaunched'
<1>1. queue[s] \in Seq(Nat) /\ queue[s] # <<>> /\ Len(queue[s]) \in Nat
  BY LenProperties DEF TypeOK, PipelineType, Recv
<1>2. queue' = [queue EXCEPT ![s] = Tail(queue[s])]
  BY DEF Recv
<1>3. job' = [job EXCEPT ![s] = queue[s][1]]
  BY <1>1, SeqElements DEF Recv
<1>4. queue[s][1] < next_launch_clid
  BY <1>1, SeqElements DEF IdsLaunched
<1>5. \A t \in Stage : job'[t] < next_launch_clid
  BY <1>3, <1>4 DEF IdsLaunched, TypeOK, WorkerType
<1>6. \A i \in 1..Len(Tail(queue[s])) : Tail(queue[s])[i] < next_launch_clid
  BY <1>1, SeqElements DEF IdsLaunched
<1>7. \A t \in Stage : \A i \in 1..Len(queue'[t]) :
        queue'[t][i] < next_launch_clid
  BY <1>2, <1>6 DEF IdsLaunched, TypeOK, PipelineType
<1> QED
  BY <1>5, <1>7 DEF IdsLaunched, Recv

LEMMA IdsForward ==
  ASSUME TypeOK, IdsLaunched, NEW s \in Stage, Forward(s)
  PROVE  IdsLaunched'
<1>1. job[s] \in Nat /\ job[s] < next_launch_clid /\ next_launch_clid \in Nat
  BY DEF IdsLaunched, Forward, TypeOK, WorkerType, LaunchType
<1>2. \A t \in Stage : job'[t] < next_launch_clid
  BY <1>1 DEF IdsLaunched, TypeOK, WorkerType, Forward
<1>3. queue' = queue \/ queue' = [queue EXCEPT ![s + 1] = Append(@, job[s])]
  BY DEF Forward, Enqueue
<1>4. ASSUME NEW t \in Stage
      PROVE  \A i \in 1..Len(queue'[t]) : queue'[t][i] < next_launch_clid
  <2>1. queue[t] \in Seq(Nat) /\ Len(queue[t]) \in Nat
    BY LenProperties DEF TypeOK, PipelineType
  <2>2. CASE queue'[t] = queue[t]
    BY <2>2 DEF IdsLaunched
  <2>3. CASE queue'[t] = Append(queue[t], job[s])
    BY <1>1, <2>1, <2>3, SeqElements DEF IdsLaunched
  <2> QED
    BY <1>3, <2>2, <2>3 DEF TypeOK, PipelineType
<1> QED
  BY <1>2, <1>4 DEF IdsLaunched, Forward

LEMMA IdsReport ==
  ASSUME TypeOK, IdsLaunched, NEW s \in Stage, Report(s)
  PROVE  IdsLaunched'
<1> DEFINE result == [clid |-> job[s], outcome |-> outcome[s]]
<1>1. job[s] \in Nat /\ job[s] < next_launch_clid /\ next_launch_clid \in Nat
  BY DEF IdsLaunched, Report, TypeOK, WorkerType, LaunchType
<1>2. \A t \in Stage : job'[t] < next_launch_clid
  BY <1>1 DEF IdsLaunched, TypeOK, WorkerType, Report
<1>3. done \in Seq(Result) /\ Len(done) \in Nat /\ result \in Result
  BY <1>1, LenProperties DEF TypeOK, PipelineType, WorkerType, Report, Result
<1>4. done' = done \/ done' = Append(done, result)
  BY DEF Report
<1>5. \A i \in 1..Len(done') : done'[i].clid < next_launch_clid
  <2> HIDE DEF result
  <2>1. CASE done' = done
    BY <2>1 DEF IdsLaunched
  <2>2. CASE done' = Append(done, result)
    <3>1. result.clid = job[s]
      BY DEF result
    <3> QED
      BY <1>1, <1>3, <2>2, <3>1, SeqElements DEF IdsLaunched
  <2> QED
    BY <1>4, <2>1, <2>2
<1> QED
  BY <1>2, <1>5 DEF IdsLaunched, Report

(* The commit steps only take results out of the reorder map.               *)
LEMMA IdsCommit ==
  ASSUME IdsLaunched, Commit
  PROVE  IdsLaunched'
<1>1. PICK r \in pending_results :
        Submit(r) \/ Finish(r) \/ CommitError(r) \/ Discard(r)
  BY DEF Commit
<1>2. /\ pending_results' \subseteq pending_results
      /\ UNCHANGED <<queue, job, done, next_launch_clid>>
  BY <1>1 DEF Submit, Finish, CommitError, Discard, ReleaseCommit, EarlyReturn
<1> QED
  BY <1>2 DEF IdsLaunched

LEMMA IdsNext ==
  ASSUME TypeOK, IdsLaunched, [Next]_vars
  PROVE  IdsLaunched'
<1>1. CASE Dispatcher
  <2>1. CASE \/ Reclaim \/ SkipLaunch \/ Leave \/ WaitReclaim \/ AskLimiter
             \/ WakeUp \/ StartWait \/ Timeout \/ CommitDone \/ Drain \/ Join
    <3>1. UNCHANGED idsVars
      BY <2>1 DEF idsVars, Reclaim, SkipLaunch, Leave, WaitReclaim,
         AskLimiter, WakeUp, StartWait, Timeout, CommitDone, Drain, Join,
         EarlyReturn
    <3> QED
      BY <3>1 DEF idsVars, IdsLaunched
  <2> QED
    BY <1>1, <2>1, IdsLaunch, IdsReceive, IdsCommit DEF Dispatcher
<1>2. ASSUME NEW s \in Stage, Worker(s) PROVE IdsLaunched'
  <2>1. CASE Run(s) \/ Disconnect(s)
    BY <2>1 DEF Run, Disconnect, IdsLaunched
  <2> QED
    BY <1>2, <2>1, IdsRecv, IdsForward, IdsReport DEF Worker
<1>3. CASE Serialize \/ CtrlC \/ Deadline \/ UNCHANGED vars
  BY <1>3 DEF Serialize, CtrlC, Deadline, vars, IdsLaunched
<1> QED
  BY <1>1, <1>2, <1>3 DEF Next, Terminated

LEMMA CursorSubmit ==
  ASSUME TypeOK, CommitCursorInv, NEW r \in pending_results, Submit(r)
  PROVE  LogMeetsCursor' /\ (UNCHANGED <<next_launch_clid, log>>
           \/ (/\ Len(log) < next_launch_clid /\ log' = Append(log, Len(log))
               /\ UNCHANGED next_launch_clid))
<1>1. /\ r.clid = next_commit_clid /\ r.clid \in Nat
      /\ r.clid < next_launch_clid
      /\ dpc = "commit" /\ fatal_error = "none"
      /\ UNCHANGED <<next_launch_clid, next_commit_clid, io_alive>>
  BY DEF Submit, NextResults, CommitCursorInv, IdsLaunched, TypeOK,
         CommitType, Result
<1>2. /\ log \in Seq(Nat) /\ io_queue \in Seq(Nat)
      /\ Len(log) \in Nat /\ Len(io_queue) \in Nat
      /\ next_launch_clid \in Nat /\ next_commit_clid \in Nat
  BY LenProperties DEF TypeOK, IoType, LaunchType, CommitType
<1>3. LogMeetsCursor /\ SubmittedOne = 0
  BY <1>1 DEF CommitCursorInv, SubmittedOne
<1>4. CASE ~AsyncIO /\ log' = Append(log, r.clid) /\ dpc' = "submitted"
           /\ UNCHANGED <<io_queue, fatal_error>>
  <2>1. io_queue = <<>> /\ io_alive /\ Len(io_queue) = 0
    BY <1>3, <1>4, EmptySeq DEF LogMeetsCursor
  <2>2. Len(log) = r.clid /\ Len(log') = Len(log) + 1
    BY <1>1, <1>2, <1>3, <1>4, <2>1, SeqElements DEF LogMeetsCursor
  <2>3. SubmittedOne' = 1
    BY <1>4 DEF SubmittedOne
  <2>4. LogMeetsCursor'
    BY <1>1, <1>2, <1>4, <2>1, <2>2, <2>3 DEF LogMeetsCursor
  <2> QED
    BY <1>1, <1>4, <2>2, <2>4
<1>5. CASE AsyncIO /\ io_queue' = Append(io_queue, r.clid)
           /\ dpc' = "submitted" /\ UNCHANGED <<log, fatal_error>>
  <2>1. /\ Len(io_queue') = Len(io_queue) + 1
        /\ \A i \in 1..Len(io_queue) : io_queue'[i] = io_queue[i]
        /\ io_queue'[Len(io_queue) + 1] = r.clid
    BY <1>1, <1>2, <1>5, SeqElements
  <2>2. SubmittedOne' = 1
    BY <1>5 DEF SubmittedOne
  <2>3. CASE io_alive
    <3>1. Len(log) + Len(io_queue) = r.clid
      BY <1>1, <1>2, <1>3, <2>3 DEF LogMeetsCursor
    <3>2. \A i \in 1..Len(io_queue) : io_queue[i] = Len(log) + i - 1
      BY <1>3, <2>3 DEF LogMeetsCursor
    <3>3. ASSUME NEW i \in 1..Len(io_queue')
          PROVE  io_queue'[i] = Len(log') + i - 1
      <4>1. i \in 1..Len(io_queue) \/ i = Len(io_queue) + 1
        BY <1>2, <2>1
      <4>2. CASE i \in 1..Len(io_queue)
        BY <1>5, <2>1, <3>2, <4>2
      <4>3. CASE i = Len(io_queue) + 1
        BY <1>1, <1>2, <1>5, <2>1, <3>1, <4>3
      <4> QED
        BY <4>1, <4>2, <4>3
    <3>4. /\ Len(log') + Len(io_queue') = next_commit_clid' + SubmittedOne'
          /\ Len(log') + Len(io_queue') <= next_launch_clid'
      BY <1>1, <1>2, <1>5, <2>1, <2>2, <3>1
    <3>5. \A i \in 1..Len(io_queue') : io_queue'[i] = Len(log') + i - 1
      BY <3>3
    <3>6. LogMeetsCursor'
      BY <1>5, <3>4, <3>5 DEF LogMeetsCursor
    <3> QED
      BY <1>1, <1>5, <3>6
  <2>4. CASE ~io_alive
    BY <1>1, <1>5, <2>4 DEF LogMeetsCursor
  <2> QED
    BY <1>1, <1>5, <2>3, <2>4
<1>6. CASE fatal_error' = "Returned" /\ UNCHANGED <<log, io_queue>>
  BY <1>1, <1>3, <1>6 DEF LogMeetsCursor
<1> QED
  BY <1>4, <1>5, <1>6 DEF Submit, EarlyReturn

LEMMA CursorFinish ==
  ASSUME TypeOK, LogMeetsCursor, NEW r \in pending_results, Finish(r)
  PROVE  LogMeetsCursor'
<1>1. /\ dpc = "submitted" /\ SubmittedOne = 1 /\ next_commit_clid \in Nat
      /\ UNCHANGED <<log, io_queue, io_alive, next_launch_clid>>
  BY DEF Finish, SubmittedOne, TypeOK, CommitType
<1>2. CASE ReleaseCommit(r) /\ UNCHANGED fatal_error
  <2>1. SubmittedOne' = 0 /\ next_commit_clid' = next_commit_clid + 1
    BY <1>2 DEF ReleaseCommit, SubmittedOne
  <2>2. next_commit_clid' + SubmittedOne' = next_commit_clid + SubmittedOne
    BY <1>1, <2>1
  <2> QED
    BY <1>1, <1>2, <2>2 DEF LogMeetsCursor
<1>3. CASE fatal_error' = "Returned"
  BY <1>1, <1>3 DEF LogMeetsCursor
<1> QED
  BY <1>2, <1>3 DEF Finish, EarlyReturn

(* Past the first failure nothing ties the log to the cursor any more.      *)
LEMMA CursorFailure ==
  ASSUME TypeOK, LogMeetsCursor, NEW r \in pending_results,
         CommitError(r) \/ Discard(r)
  PROVE  LogMeetsCursor'
<1>1. UNCHANGED <<log, io_queue, io_alive, next_launch_clid>>
  BY DEF CommitError, Discard
<1>2. r.outcome # "none"
  BY DEF TypeOK, CommitType, Result, StepOutcome
<1>3. fatal_error' # "none"
  BY <1>2 DEF CommitError, Discard
<1> QED
  BY <1>1, <1>3 DEF LogMeetsCursor

LEMMA CursorSerialize ==
  ASSUME TypeOK, LogMeetsCursor, Serialize
  PROVE  LogMeetsCursor' /\ (UNCHANGED <<next_launch_clid, log>>
           \/ (/\ Len(log) < next_launch_clid /\ log' = Append(log, Len(log))
               /\ UNCHANGED next_launch_clid))
<1>1. /\ log \in Seq(Nat) /\ io_queue \in Seq(Nat)
      /\ Len(log) \in Nat /\ Len(io_queue) \in Nat
      /\ next_launch_clid \in Nat /\ next_commit_clid \in Nat
  BY LenProperties DEF TypeOK, IoType, LaunchType, CommitType
<1>2. /\ io_alive /\ AsyncIO
      /\ UNCHANGED <<next_launch_clid, next_commit_clid, fatal_error, dpc>>
  BY DEF Serialize, LogMeetsCursor
<1>3. /\ Len(io_queue) > 0 /\ Head(io_queue) = io_queue[1]
      /\ Len(io_queue') = Len(io_queue) - 1
      /\ \A i \in 1..Len(io_queue') : io_queue'[i] = io_queue[i + 1]
  BY <1>1, SeqElements DEF Serialize
<1>4. CASE ~io_alive' /\ UNCHANGED log
  BY <1>2, <1>4 DEF LogMeetsCursor
<1>5. CASE io_alive' /\ log' = Append(log, Head(io_queue))
  <2>1. Head(io_queue) = Len(log) /\ Len(log) < next_launch_clid
    BY <1>1, <1>2, <1>3 DEF LogMeetsCursor
  <2>2. Len(log') = Len(log) + 1
    BY <1>1, <1>5, <2>1, SeqElements
  <2>3. \A i \in 1..Len(io_queue') : io_queue'[i] = Len(log') + i - 1
    <3> SUFFICES ASSUME NEW i \in 1..Len(io_queue')
                 PROVE  io_queue'[i] = Len(log') + i - 1
      OBVIOUS
    <3>1. i + 1 \in 1..Len(io_queue) /\ io_queue'[i] = io_queue[i + 1]
      BY <1>1, <1>3
    <3>2. io_queue[i + 1] = Len(log) + (i + 1) - 1
      BY <1>2, <3>1 DEF LogMeetsCursor
    <3> QED
      BY <1>1, <1>3, <2>2, <3>1, <3>2
  <2>4. Len(log') + Len(io_queue') = Len(log) + Len(io_queue)
    BY <1>1, <1>3, <2>2
  <2>5. SubmittedOne' = SubmittedOne
    BY <1>2 DEF SubmittedOne
  <2>6. LogMeetsCursor'
    BY <1>2, <2>3, <2>4, <2>5 DEF LogMeetsCursor
  <2> QED
    BY <1>2, <1>5, <2>1, <2>6
<1> QED
  BY <1>2, <1>4, <1>5 DEF Serialize

(* Every step keeps the invariant and is, for who reads the log, a HandOut, *)
(* a WriteNext or nothing at all.                                          *)
LEMMA CursorNext ==
  ASSUME TypeOK, CommitCursorInv, [Next]_vars
  PROVE  CommitCursorInv' /\ [OC!OCNext]_(OC!ocVars)
<1> USE DEF OC!OCNext, OC!HandOut, OC!WriteNext, OC!ocVars
<1> DEFINE Goal == LogMeetsCursor' /\ [OC!OCNext]_(OC!ocVars)
<1>1. LogMeetsCursor
  BY DEF CommitCursorInv
<1>2. ASSUME Dispatcher PROVE Goal
  <2>1. CASE \/ Reclaim \/ SkipLaunch \/ Leave \/ WaitReclaim \/ AskLimiter
             \/ WakeUp \/ StartWait \/ Timeout \/ Receive \/ CommitDone
             \/ Drain \/ Join
    <3>1. /\ UNCHANGED <<log, io_queue, io_alive, next_launch_clid,
                         next_commit_clid>>
          /\ dpc # "submitted" /\ dpc' # "submitted"
          /\ fatal_error' \in {fatal_error, "Returned"}
      BY <2>1 DEF Reclaim, SkipLaunch, Leave, WaitReclaim, AskLimiter,
         WakeUp, StartWait, Timeout, Receive, CommitDone, Drain, Join,
         EarlyReturn
    <3>2. SubmittedOne' = SubmittedOne
      BY <3>1 DEF SubmittedOne
    <3> QED
      BY <1>1, <3>1, <3>2 DEF LogMeetsCursor
  <2>2. CASE Launch
    <3>1. /\ UNCHANGED <<log, io_queue, io_alive, next_commit_clid,
                         fatal_error>>
          /\ next_launch_clid' = next_launch_clid + 1
          /\ SubmittedOne' = SubmittedOne
      BY <2>2 DEF Launch, SubmittedOne
    <3>2. Len(log) \in Nat /\ Len(io_queue) \in Nat /\ next_launch_clid \in Nat
      BY LenProperties DEF TypeOK, IoType, LaunchType
    <3>3. LogMeetsCursor'
      BY <1>1, <3>1, <3>2 DEF LogMeetsCursor
    <3> QED
      BY <3>1, <3>3
  <2>3. CASE Commit
    <3>1. PICK r \in pending_results :
            Submit(r) \/ Finish(r) \/ CommitError(r) \/ Discard(r)
      BY <2>3 DEF Commit
    <3>2. CASE Submit(r)
      BY <3>2, CursorSubmit
    <3>3. CASE Finish(r) \/ CommitError(r) \/ Discard(r)
      <4>1. LogMeetsCursor'
        BY <1>1, <3>3, CursorFinish, CursorFailure
      <4>2. UNCHANGED <<log, next_launch_clid>>
        BY <3>3 DEF Finish, CommitError, Discard
      <4> QED
        BY <4>1, <4>2
    <3> QED
      BY <3>1, <3>2, <3>3
  <2> QED
    BY <1>2, <2>1, <2>2, <2>3 DEF Dispatcher
<1>3. ASSUME NEW s \in Stage, Worker(s) PROVE Goal
  <2>1. UNCHANGED <<log, io_queue, io_alive, next_launch_clid,
                    next_commit_clid, fatal_error, dpc>>
    BY <1>3 DEF Worker, Recv, Run, Forward, Report, Disconnect
  <2> QED
    BY <1>1, <2>1 DEF LogMeetsCursor, SubmittedOne
<1>4. ASSUME Serialize PROVE Goal
  BY <1>1, <1>4, CursorSerialize
<1>5. ASSUME CtrlC \/ Deadline \/ UNCHANGED vars PROVE Goal
  <2>1. UNCHANGED <<log, io_queue, io_alive, next_launch_clid,
                    next_commit_clid, fatal_error, dpc>>
    BY <1>5 DEF CtrlC, Deadline, vars
  <2> QED
    BY <1>1, <2>1 DEF LogMeetsCursor, SubmittedOne
<1>6. Goal
  BY <1>2, <1>3, <1>4, <1>5 DEF Next, Terminated
<1> QED
  BY <1>6, IdsNext DEF CommitCursorInv

LEMMA CursorInit == Init => CommitCursorInv /\ OC!OCInit
<1> SUFFICES ASSUME Init PROVE CommitCursorInv /\ OC!OCInit
  OBVIOUS
<1>1. IdsLaunched
  BY DEF Init, IdsLaunched
<1>2. LogMeetsCursor
  BY DEF Init, LogMeetsCursor, SubmittedOne
<1>3. OC!OCInit
  BY DEF Init, OC!OCInit
<1> QED
  BY <1>1, <1>2, <1>3 DEF CommitCursorInv

(* At every moment the ids on their way were launched, and until the run    *)
(* fails the log and the serializer's queue end at the commit cursor.       *)
THEOREM CursorCorrect == Spec => []CommitCursorInv
<1>1. Init => CommitCursorInv
  BY CursorInit
<1>2. TypeOK /\ CommitCursorInv /\ [Next]_vars => CommitCursorInv'
  BY CursorNext
<1> QED
  BY <1>1, <1>2, TypeCorrect, PTL DEF Spec

(* Whatever the plan, the interleaving of the workers, the failures and the *)
(* way the log is written, the log of run() is the sequence of the launched *)
(* ids, in order and without a gap.                                         *)
THEOREM Refinement == Spec => ImplementsOrderedCommit
<1>1. Init => OC!OCInit
  BY CursorInit
<1>2. TypeOK /\ CommitCursorInv /\ [Next]_vars => [OC!OCNext]_(OC!ocVars)
  BY CursorNext
<1> QED
  BY <1>1, <1>2, TypeCorrect, CursorCorrect, PTL
     DEF Spec, ImplementsOrderedCommit, OC!OCSpec

(* Ctrl-C lets at most one more list into the pipeline: the launch that     *)
(* meets the flag is the one that closes the gate.                          *)
LateLaunchInv ==
  late_launches = 0 \/ (late_launches = 1 /\ stop_launching)

THEOREM StopLatencyCorrect == Spec => []StopLatency
<1>1. Init => LateLaunchInv
  BY DEF Init, LateLaunchInv
<1>2. TypeOK /\ LateLaunchInv /\ [Next]_vars => LateLaunchInv'
  <2> SUFFICES ASSUME TypeOK, LateLaunchInv, [Next]_vars
               PROVE  LateLaunchInv'
    OBVIOUS
  <2>1. CASE Launch
    <3>1. late_launches = 0
      BY <2>1 DEF Launch, LaunchReady, LateLaunchInv
    <3>2. CASE STOP_FLAG
      <4>1. STOP_FLAG' /\ stop_launching' = STOP_FLAG'
        BY <2>1, <3>2 DEF Launch, StopSeen
      <4>2. late_launches' = 1
        BY <2>1, <3>1, <3>2 DEF Launch
      <4> QED
        BY <4>1, <4>2 DEF LateLaunchInv
    <3>3. CASE ~STOP_FLAG
      BY <2>1, <3>1, <3>3 DEF Launch, LateLaunchInv
    <3> QED
      BY <3>2, <3>3
  <2>2. CASE \/ Reclaim \/ SkipLaunch \/ Leave \/ WaitReclaim \/ AskLimiter
             \/ WakeUp \/ StartWait \/ Receive \/ Drain \/ Join
    BY <2>2 DEF Reclaim, SkipLaunch, Leave, WaitReclaim, AskLimiter,
       WakeUp, StartWait, Receive, Drain, Join, LateLaunchInv
  <2>5. CASE Timeout \/ CommitDone
    BY <2>5 DEF Timeout, CommitDone, LateLaunchInv
  <2>6. CASE Commit
    BY <2>6 DEF Commit, Submit, Finish, CommitError, Discard, LateLaunchInv
  <2>3. CASE Serialize \/ CtrlC \/ Deadline \/ UNCHANGED vars
    BY <2>3 DEF Serialize, CtrlC, Deadline, vars, LateLaunchInv
  <2>4. ASSUME NEW s \in Stage, Worker(s) PROVE LateLaunchInv'
    BY <2>4 DEF Worker, Recv, Run, Forward, Report, Disconnect, LateLaunchInv
  <2> QED
    BY <2>1, <2>2, <2>3, <2>4, <2>5, <2>6 DEF Next, Dispatcher, Terminated
<1>3. LateLaunchInv => StopLatency
  BY DEF LateLaunchInv, StopLatency
<1> QED
  BY <1>1, <1>2, <1>3, TypeCorrect, PTL DEF Spec

-----------------------------------------------------------------------------
(***************************************************************************)
(* Where the lists and the boxes of ParallelRuntime are, for every plan,   *)
(* every number of boxes and every mix of failures: every list on its way  *)
(* is in one place, so that it is answered once, no queue is ever full     *)
(* when it is needed, and a failure cuts the log.                          *)
(***************************************************************************)

(* Queues of ids, and of answers. *)

Elems(q) == {q[i] : i \in 1..Len(q)}
Once(q) == \A i, j \in 1..Len(q) : q[i] = q[j] => i = j

Clids(q) == {q[i].clid : i \in 1..Len(q)}
ClidsOnce(q) == \A i, j \in 1..Len(q) : q[i].clid = q[j].clid => i = j

LEMMA Appended ==
  ASSUME NEW S, NEW q \in Seq(S), NEW x \in S
  PROVE  /\ Elems(Append(q, x)) = Elems(q) \cup {x}
         /\ Clids(Append(q, x)) = Clids(q) \cup {x.clid}
         /\ Once(q) /\ x \notin Elems(q) => Once(Append(q, x))
         /\ ClidsOnce(q) /\ x.clid \notin Clids(q) => ClidsOnce(Append(q, x))
<1> DEFINE n == Len(q)
           r == Append(q, x)
<1>1. /\ n \in Nat /\ Len(r) = n + 1 /\ r[n + 1] = x
      /\ \A i \in 1..n : r[i] = q[i]
  BY AppendProperties, LenProperties
<1>2. 1..Len(r) = (1..n) \cup {n + 1}
  BY <1>1
<1> HIDE DEF r, n
<1>3. Elems(r) = Elems(q) \cup {x} /\ Clids(r) = Clids(q) \cup {x.clid}
  BY <1>1, <1>2 DEF Elems, Clids, n
<1>4. Once(q) /\ x \notin Elems(q) => Once(r)
  BY <1>1, <1>2 DEF Once, Elems, n
<1>5. ClidsOnce(q) /\ x.clid \notin Clids(q) => ClidsOnce(r)
  BY <1>1, <1>2 DEF ClidsOnce, Clids, n
<1> QED
  BY <1>3, <1>4, <1>5 DEF r

LEMMA Removed ==
  ASSUME NEW S, NEW q \in Seq(S), q # <<>>
  PROVE  /\ Head(q) \in Elems(q) /\ Head(q).clid \in Clids(q)
         /\ Once(q) => /\ Once(Tail(q))
                       /\ Elems(Tail(q)) = Elems(q) \ {Head(q)}
         /\ ClidsOnce(q) => /\ ClidsOnce(Tail(q))
                            /\ Clids(Tail(q)) = Clids(q) \ {Head(q).clid}
<1> DEFINE n == Len(q)
           r == Tail(q)
<1>1. /\ n \in Nat /\ n >= 1 /\ Len(r) = n - 1 /\ Head(q) = q[1]
      /\ \A i \in 1..Len(r) : r[i] = q[i + 1]
  BY HeadTailProperties, EmptySeq, LenProperties
<1> HIDE DEF r, n
<1>2. \A i \in 1..(n - 1) : i + 1 \in 1..n /\ r[i] = q[i + 1]
  BY <1>1
<1>3. \A j \in 1..n : j = 1 \/ (j - 1 \in 1..(n - 1) /\ r[j - 1] = q[j])
  BY <1>1
<1>4. Head(q) \in Elems(q) /\ Head(q).clid \in Clids(q)
  BY <1>1 DEF Elems, Clids, n
<1>5. ASSUME Once(q)
      PROVE  Once(r) /\ Elems(r) = Elems(q) \ {Head(q)}
  <2>1. Once(r)
    BY <1>1, <1>2, <1>5 DEF Once, n
  <2>2. \A i \in 1..(n - 1) : r[i] \in Elems(q) \ {Head(q)}
    BY <1>1, <1>2, <1>5 DEF Once, Elems, n
  <2>3. \A y \in Elems(q) \ {Head(q)} : \E i \in 1..(n - 1) : y = r[i]
    BY <1>1, <1>3 DEF Elems, n
  <2>4. Elems(r) = {r[i] : i \in 1..(n - 1)}
    BY <1>1 DEF Elems
  <2> QED
    BY <2>1, <2>2, <2>3, <2>4
<1>6. ASSUME ClidsOnce(q)
      PROVE  ClidsOnce(r) /\ Clids(r) = Clids(q) \ {Head(q).clid}
  <2>1. ClidsOnce(r)
    BY <1>1, <1>2, <1>6 DEF ClidsOnce, n
  <2>2. \A i \in 1..(n - 1) : r[i].clid \in Clids(q) \ {Head(q).clid}
    BY <1>1, <1>2, <1>6 DEF ClidsOnce, Clids, n
  <2>3. \A y \in Clids(q) \ {Head(q).clid} : \E i \in 1..(n - 1) : y = r[i].clid
    BY <1>1, <1>3 DEF Clids, n
  <2>4. Clids(r) = {r[i].clid : i \in 1..(n - 1)}
    BY <1>1 DEF Clids
  <2> QED
    BY <2>1, <2>2, <2>3, <2>4
<1> QED
  BY <1>4, <1>5, <1>6 DEF r

LEMMA Interval ==
  ASSUME NEW a \in Nat, NEW b \in Nat, a <= b
  PROVE  IsFiniteSet(a..(b - 1)) /\ Cardinality(a..(b - 1)) = b - a
<1>1. a \in Int /\ b - 1 \in Int
  OBVIOUS
<1>2. /\ IsFiniteSet(a..(b - 1))
      /\ Cardinality(a..(b - 1)) = IF a > b - 1 THEN 0 ELSE b - 1 - a + 1
  BY ONLY <1>1, FS_Interval
<1> QED
  BY <1>2

\* Ids out of an interval, each once, are not more than it has.
LEMMA NotMore ==
  ASSUME NEW q \in Seq(Nat), NEW a \in Nat, NEW b \in Nat, a <= b, Once(q),
         Elems(q) \subseteq a..(b - 1)
  PROVE  Len(q) <= b - a
<1> DEFINE n == Len(q)
           T == a..(b - 1)
<1>1. n \in Nat /\ q \in [1..n -> Nat]
  BY LenProperties
<1>2. q \in Injection(1..n, T)
  BY <1>1 DEF Injection, Once, Elems, IsInjective
<1>3. IsFiniteSet(T) /\ Cardinality(T) = b - a
  BY Interval
<1>4. Cardinality(1..n) = n
  <2>1. Cardinality(1..n) = IF 1 > n THEN 0 ELSE n - 1 + 1
    BY <1>1, FS_Interval
  <2> QED
    BY <1>1, <2>1
<1> QED
  BY <1>2, <1>3, <1>4, FS_Injection

\* Nor are results of different ids; when they are as many, none is missing.
LEMMA ResultsFit ==
  ASSUME NEW P, NEW a \in Nat, NEW b \in Nat, a <= b,
         \A r, x \in P : r.clid = x.clid => r = x,
         \A r \in P : r.clid \in a..(b - 1)
  PROVE  /\ IsFiniteSet(P) /\ Cardinality(P) \in Nat /\ Cardinality(P) <= b - a
         /\ Cardinality(P) = b - a =>
              \A k \in a..(b - 1) : \E r \in P : r.clid = k
<1> DEFINE T == a..(b - 1)
           f == [r \in P |-> r.clid]
<1>1. f \in Injection(P, T)
  BY DEF Injection, IsInjective
<1>2. IsFiniteSet(T) /\ Cardinality(T) = b - a
  BY Interval
<1>3. /\ IsFiniteSet(P) /\ Cardinality(P) <= b - a
      /\ Cardinality(P) = b - a => f \in Surjection(P, T)
  BY <1>1, <1>2, FS_Injection
<1>4. f \in Surjection(P, T) => \A k \in T : \E r \in P : r.clid = k
  BY DEF Surjection
<1> QED
  BY <1>3, <1>4, FS_CardinalityType

----------------------------------------------------------------------------
(* Ids in places: F is the ids in each of the places C. *)

Apart(C, F) == \A c, d \in C : c # d => F[c] \cap F[d] = {}
Somewhere(C, F) == UNION {F[c] : c \in C}

LEMMA Moves ==
  ASSUME NEW C, NEW F, NEW G, NEW p \in C, NEW q \in C, p # q, NEW k \in F[p],
         Apart(C, F), G[p] = F[p] \ {k}, G[q] = F[q] \cup {k},
         \A c \in C : c # p /\ c # q => G[c] = F[c]
  PROVE  Apart(C, G) /\ Somewhere(C, G) = Somewhere(C, F)
<1>1. \A c \in C : /\ c # p /\ c # q => G[c] = F[c]
                   /\ k \in G[c] <=> c = q
  BY DEF Apart
<1>2. \A c \in C : \A x : x # k => (x \in G[c] <=> x \in F[c])
  OBVIOUS
<1>3. Apart(C, G)
  BY <1>1, <1>2 DEF Apart
<1>4. \A x : (\E c \in C : x \in G[c]) <=> (\E c \in C : x \in F[c])
  BY <1>1, <1>2
<1> QED
  BY <1>3, <1>4 DEF Somewhere

LEMMA Enters ==
  ASSUME NEW C, NEW F, NEW G, NEW q \in C, NEW k \in Nat, k \notin Somewhere(C, F),
         Apart(C, F), G[q] = F[q] \cup {k},
         \A c \in C : c # q => G[c] = F[c]
  PROVE  Apart(C, G) /\ Somewhere(C, G) = Somewhere(C, F) \cup {k}
<1>1. \A c \in C : k \notin F[c] /\ (k \in G[c] <=> c = q)
  BY DEF Somewhere
<1>2. \A c \in C : \A x : x # k => (x \in G[c] <=> x \in F[c])
  OBVIOUS
<1>3. Apart(C, G)
  BY <1>1, <1>2 DEF Apart
<1>4. \A x : (\E c \in C : x \in G[c]) <=> x = k \/ (\E c \in C : x \in F[c])
  BY <1>1, <1>2
<1> QED
  BY <1>3, <1>4 DEF Somewhere

LEMMA Leaves ==
  ASSUME NEW C, NEW F, NEW G, NEW p \in C, NEW k \in F[p], Apart(C, F),
         G[p] = F[p] \ {k}, \A c \in C : c # p => G[c] = F[c]
  PROVE  Apart(C, G) /\ Somewhere(C, G) = Somewhere(C, F) \ {k}
<1>1. \A c \in C : k \notin G[c]
  BY DEF Apart
<1>2. \A c \in C : \A x : x # k => (x \in G[c] <=> x \in F[c])
  OBVIOUS
<1>3. Apart(C, G)
  BY <1>1, <1>2 DEF Apart
<1>4. \A x : (\E c \in C : x \in G[c]) <=> x # k /\ (\E c \in C : x \in F[c])
  BY <1>1, <1>2
<1> QED
  BY <1>3, <1>4 DEF Somewhere

----------------------------------------------------------------------------
(* The places of a list. *)

InQueue(s) == <<"queue", s>>
AtWorker(s) == <<"worker", s>>
Answered == <<"done", 0>>
Reordered == <<"pending", 0>>
Place == ({"queue", "worker"} \X Stage) \cup {Answered, Reordered}

Held ==
  [p \in Place |->
     CASE p[1] = "queue" -> Elems(queue[p[2]])
       [] p[1] = "worker" -> {job[p[2]]} \ {NoClid}
       [] p[1] = "done" -> Clids(done)
       [] p[1] = "pending" -> {r.clid : r \in pending_results}]

LEMMA Places ==
  /\ Answered \in Place /\ Reordered \in Place /\ Answered # Reordered
  /\ \A s \in Stage :
       /\ InQueue(s) \in Place /\ AtWorker(s) \in Place
       /\ InQueue(s) \notin {Answered, Reordered}
       /\ AtWorker(s) \notin {Answered, Reordered}
  /\ \A s, t \in Stage :
       /\ InQueue(s) # AtWorker(t)
       /\ InQueue(s) = InQueue(t) => s = t
       /\ AtWorker(s) = AtWorker(t) => s = t
  /\ \A p \in Place : \/ \E s \in Stage : p = InQueue(s) \/ p = AtWorker(s)
                      \/ p = Answered \/ p = Reordered
BY DEF Place, InQueue, AtWorker, Answered, Reordered

LEMMA HeldAt ==
  /\ \A s \in Stage : /\ Held[InQueue(s)] = Elems(queue[s])
                      /\ Held[AtWorker(s)] = {job[s]} \ {NoClid}
  /\ Held[Answered] = Clids(done)
  /\ Held[Reordered] = {r.clid : r \in pending_results}
BY DEF Held, Place, InQueue, AtWorker, Answered, Reordered

LEMMA HeldNext ==
  /\ \A s \in Stage : /\ Held'[InQueue(s)] = Elems(queue'[s])
                      /\ Held'[AtWorker(s)] = {job'[s]} \ {NoClid}
  /\ Held'[Answered] = Clids(done')
  /\ Held'[Reordered] = {r.clid : r \in pending_results'}
BY DEF Held, Place, InQueue, AtWorker, Answered, Reordered

LEMMA HeldElsewhere ==
  ASSUME NEW p \in Place,
         \A t \in Stage : /\ p = InQueue(t) => queue'[t] = queue[t]
                          /\ p = AtWorker(t) => job'[t] = job[t],
         p = Answered => done' = done,
         p = Reordered => pending_results' = pending_results
  PROVE  Held'[p] = Held[p]
<1>1. ASSUME NEW t \in Stage, p = InQueue(t)
      PROVE  Held'[p] = Held[p]
  BY <1>1, HeldAt, HeldNext
<1>2. ASSUME NEW t \in Stage, p = AtWorker(t)
      PROVE  Held'[p] = Held[p]
  BY <1>2, HeldAt, HeldNext
<1>3. CASE p = Answered \/ p = Reordered
  BY <1>3, HeldAt, HeldNext
<1> QED
  BY <1>1, <1>2, <1>3, Places

----------------------------------------------------------------------------
(* The invariant. *)

OnePlace == Apart(Place, Held)
OnceEach ==
  /\ \A s \in Stage : Once(queue[s])
  /\ ClidsOnce(done)
  /\ \A r, x \in pending_results : r.clid = x.clid => r = x
\* The lists on their way are those launched and not committed, all of them
\* until the dispatcher stops listening.
OnTheWay ==
  /\ next_commit_clid <= next_launch_clid
  /\ Somewhere(Place, Held) \subseteq next_commit_clid..(next_launch_clid - 1)
  /\ done_open =>
       next_commit_clid..(next_launch_clid - 1) \subseteq Somewhere(Place, Held)
Attentive ==
  /\ Running => done_open
  /\ \A s \in Stage : /\ wpc[s] \in {"recv", "dead"} => job[s] = NoClid
                      /\ wpc[s] = "forward" => s + 1 \in Stage

ListInv == OnePlace /\ OnceEach /\ OnTheWay /\ Attentive

LEMMA HeldMoves ==
  ASSUME ListInv, NEW p \in Place, NEW q \in Place, p # q, NEW k \in Held[p],
         Held'[p] = Held[p] \ {k}, Held'[q] = Held[q] \cup {k},
         \A c \in Place : c # p /\ c # q => Held'[c] = Held[c]
  PROVE  OnePlace' /\ Somewhere(Place, Held)' = Somewhere(Place, Held)
<1>1. Apart(Place, Held)
  BY DEF ListInv, OnePlace
<1> DEFINE F == Held
           G == Held'
<1>2. Apart(Place, F) /\ G[p] = F[p] \ {k} /\ G[q] = F[q] \cup {k} /\ k \in F[p]
      /\ \A c \in Place : c # p /\ c # q => G[c] = F[c]
  BY <1>1
<1> HIDE DEF F, G
<1>3. Apart(Place, G) /\ Somewhere(Place, G) = Somewhere(Place, F)
  BY <1>2, Moves
<1> QED
  BY <1>3 DEF OnePlace, Apart, Somewhere, F, G

LEMMA HeldEnters ==
  ASSUME ListInv, NEW q \in Place, NEW k \in Nat, k \notin Somewhere(Place, Held),
         Held'[q] = Held[q] \cup {k},
         \A c \in Place : c # q => Held'[c] = Held[c]
  PROVE  OnePlace' /\ Somewhere(Place, Held)' = Somewhere(Place, Held) \cup {k}
<1>1. Apart(Place, Held)
  BY DEF ListInv, OnePlace
<1> DEFINE F == Held
           G == Held'
<1>2. Apart(Place, F) /\ G[q] = F[q] \cup {k} /\ k \notin Somewhere(Place, F)
      /\ \A c \in Place : c # q => G[c] = F[c]
  BY <1>1
<1> HIDE DEF F, G
<1>3. Apart(Place, G) /\ Somewhere(Place, G) = Somewhere(Place, F) \cup {k}
  BY <1>2, Enters
<1> QED
  BY <1>3 DEF OnePlace, Apart, Somewhere, F, G

LEMMA HeldLeaves ==
  ASSUME ListInv, NEW p \in Place, NEW k \in Held[p], Held'[p] = Held[p] \ {k},
         \A c \in Place : c # p => Held'[c] = Held[c]
  PROVE  OnePlace' /\ Somewhere(Place, Held)' = Somewhere(Place, Held) \ {k}
<1>1. Apart(Place, Held)
  BY DEF ListInv, OnePlace
<1> DEFINE F == Held
           G == Held'
<1>2. Apart(Place, F) /\ G[p] = F[p] \ {k} /\ k \in F[p]
      /\ \A c \in Place : c # p => G[c] = F[c]
  BY <1>1
<1> HIDE DEF F, G
<1>3. Apart(Place, G) /\ Somewhere(Place, G) = Somewhere(Place, F) \ {k}
  BY <1>2, Leaves
<1> QED
  BY <1>3 DEF OnePlace, Apart, Somewhere, F, G

LEMMA ListInit == Init => ListInv
<1> SUFFICES ASSUME Init PROVE ListInv
  OBVIOUS
<1>1. /\ \A s \in Stage : queue[s] = <<>> /\ job[s] = NoClid /\ wpc[s] = "recv"
      /\ done = <<>> /\ pending_results = {} /\ done_open
      /\ next_commit_clid = 0 /\ next_launch_clid = 0
  BY DEF Init
<1>2. Elems(<<>>) = {} /\ Clids(<<>>) = {} /\ Once(<<>>) /\ ClidsOnce(<<>>)
  BY DEF Elems, Clids, Once, ClidsOnce
<1>3. \A p \in Place : Held[p] = {}
  BY <1>1, <1>2, Places, HeldAt
<1>4. OnePlace /\ Somewhere(Place, Held) = {}
  BY <1>3 DEF OnePlace, Apart, Somewhere
<1>5. OnceEach
  BY <1>1, <1>2 DEF OnceEach
<1>6. OnTheWay
  BY <1>1, <1>4 DEF OnTheWay
<1> QED
  BY <1>1, <1>4, <1>5, <1>6 DEF ListInv, Attentive

listVars == <<queue, job, done, pending_results, next_launch_clid,
              next_commit_clid>>

\* Steps that move no list.
LEMMA ListSame ==
  ASSUME ListInv, UNCHANGED listVars, done_open' => done_open, Attentive'
  PROVE  ListInv'
<1>1. Held' = Held
  BY DEF Held, listVars
<1> QED
  BY <1>1 DEF ListInv, OnePlace, OnceEach, OnTheWay, listVars

LEMMA ListLaunch == ASSUME TypeOK, ListInv, Launch PROVE ListInv'
<1> DEFINE k == next_launch_clid
<1>1. /\ queue[1] \in Seq(Nat) /\ k \in Nat /\ next_commit_clid \in Nat /\ 1 \in Stage
      /\ queue' = [queue EXCEPT ![1] = Append(queue[1], k)]
      /\ \A t \in Stage : t # 1 => queue'[t] = queue[t]
      /\ queue'[1] = Append(queue[1], k)
      /\ next_launch_clid' = k + 1
      /\ UNCHANGED <<job, done, done_open, pending_results, next_commit_clid, wpc>>
  BY StageNonEmpty DEF Launch, Enqueue, TypeOK, PipelineType, LaunchType, CommitType
<1> HIDE DEF k
<1>2. k \notin Somewhere(Place, Held)
  BY <1>1 DEF ListInv, OnTheWay, k
<1>3. k \notin Elems(queue[1])
  BY <1>1, <1>2, Places, HeldAt DEF Somewhere
<1>4. Elems(queue'[1]) = Elems(queue[1]) \cup {k} /\ Once(queue'[1])
  BY <1>1, <1>3, Appended DEF ListInv, OnceEach
<1>5. /\ Held'[InQueue(1)] = Held[InQueue(1)] \cup {k}
      /\ \A c \in Place : c # InQueue(1) => Held'[c] = Held[c]
  <2>1. Held'[InQueue(1)] = Held[InQueue(1)] \cup {k}
    BY <1>1, <1>4, HeldAt, HeldNext
  <2>2. ASSUME NEW c \in Place, c # InQueue(1) PROVE Held'[c] = Held[c]
    BY <1>1, <2>2, HeldElsewhere
  <2> QED
    BY <2>1, <2>2
<1>6. OnePlace' /\ Somewhere(Place, Held)' = Somewhere(Place, Held) \cup {k}
  BY <1>1, <1>2, <1>5, Places, HeldEnters
<1>7. OnTheWay'
  BY <1>1, <1>6 DEF ListInv, OnTheWay, k
<1>8. OnceEach'
  BY <1>1, <1>4 DEF ListInv, OnceEach
<1>9. Attentive'
  BY <1>1 DEF ListInv, Attentive, Launch, Running
<1> QED
  BY <1>6, <1>7, <1>8, <1>9 DEF ListInv

LEMMA ListReceive == ASSUME TypeOK, ListInv, Receive PROVE ListInv'
<1> DEFINE r == Head(done)
<1>1. /\ done \in Seq(Result) /\ done # <<>> /\ done' = Tail(done)
      /\ pending_results' = pending_results \cup {r}
      /\ UNCHANGED <<queue, job, done_open, next_launch_clid, next_commit_clid, wpc>>
  BY DEF Receive, TypeOK, PipelineType
<1>2. /\ r.clid \in Clids(done) /\ ClidsOnce(done')
      /\ Clids(done') = Clids(done) \ {r.clid}
  BY <1>1, Removed DEF ListInv, OnceEach
<1>3. {x.clid : x \in pending_results'} = {x.clid : x \in pending_results} \cup {r.clid}
  BY <1>1
<1>4. r.clid \notin {x.clid : x \in pending_results}
  BY <1>2, Places, HeldAt DEF ListInv, OnePlace, Apart
<1> HIDE DEF r
<1>5. /\ r.clid \in Held[Answered]
      /\ Held'[Answered] = Held[Answered] \ {r.clid}
      /\ Held'[Reordered] = Held[Reordered] \cup {r.clid}
  BY <1>2, <1>3, HeldAt, HeldNext
<1>10. ASSUME NEW c \in Place, c # Answered, c # Reordered
      PROVE  Held'[c] = Held[c]
  BY <1>1, <1>10, HeldElsewhere
<1>6. OnePlace' /\ Somewhere(Place, Held)' = Somewhere(Place, Held)
  BY <1>5, <1>10, Places, HeldMoves
<1>7. OnTheWay'
  BY <1>1, <1>6 DEF ListInv, OnTheWay
<1>8. OnceEach'
  BY <1>1, <1>2, <1>4 DEF ListInv, OnceEach
<1>9. Attentive'
  BY <1>1 DEF ListInv, Attentive, Receive, Running
<1> QED
  BY <1>6, <1>7, <1>8, <1>9 DEF ListInv

LEMMA ListRecv ==
  ASSUME TypeOK, ListInv, NEW s \in Stage, Recv(s)
  PROVE  ListInv'
<1> DEFINE k == Head(queue[s])
<1>1. /\ queue[s] \in Seq(Nat) /\ queue[s] # <<>> /\ queue'[s] = Tail(queue[s])
      /\ job'[s] = k /\ job[s] = NoClid
      /\ \A t \in Stage : t # s => queue'[t] = queue[t] /\ job'[t] = job[t]
      /\ UNCHANGED <<done, done_open, pending_results, next_launch_clid,
                     next_commit_clid>>
  BY DEF Recv, TypeOK, PipelineType, WorkerType, ListInv, Attentive
<1>2. /\ k \in Elems(queue[s]) /\ Once(queue'[s])
      /\ Elems(queue'[s]) = Elems(queue[s]) \ {k}
  BY <1>1, Removed DEF ListInv, OnceEach
<1>3. k \in Nat
  BY <1>1, HeadTailProperties
<1> HIDE DEF k
<1>4. /\ k \in Held[InQueue(s)]
      /\ Held'[InQueue(s)] = Held[InQueue(s)] \ {k}
      /\ Held'[AtWorker(s)] = Held[AtWorker(s)] \cup {k}
  BY <1>1, <1>2, <1>3, HeldAt, HeldNext
<1>9. ASSUME NEW c \in Place, c # InQueue(s), c # AtWorker(s)
      PROVE  Held'[c] = Held[c]
  BY <1>1, <1>9, HeldElsewhere
<1>5. OnePlace' /\ Somewhere(Place, Held)' = Somewhere(Place, Held)
  BY <1>4, <1>9, Places, HeldMoves
<1>6. OnTheWay'
  BY <1>1, <1>5 DEF ListInv, OnTheWay
<1>7. OnceEach'
  BY <1>1, <1>2 DEF ListInv, OnceEach
<1>8. Attentive'
  <2>1. /\ wpc'[s] \in {"report", "run"} /\ Running' = Running
        /\ \A t \in Stage : t # s => wpc'[t] = wpc[t]
    BY DEF Recv, TypeOK, WorkerType, Running
  <2> QED
    BY <1>1, <2>1 DEF ListInv, Attentive
<1> QED
  BY <1>5, <1>6, <1>7, <1>8 DEF ListInv

LEMMA ListForward ==
  ASSUME TypeOK, ListInv, NEW s \in Stage, Forward(s)
  PROVE  ListInv'
<1> DEFINE k == job[s]
           n == s + 1
<1>1. k \in Nat /\ n \in Stage /\ queue[n] \in Seq(Nat) /\ n # s
  BY DEF Forward, TypeOK, WorkerType, PipelineType, ListInv, Attentive, Stage
<1>2. CASE wpc[n] = "dead"
  <2>1. /\ UNCHANGED listVars /\ UNCHANGED done_open /\ Running' = Running
        /\ wpc' = [wpc EXCEPT ![s] = "report"]
    BY <1>2 DEF Forward, listVars, Running
  <2>2. Attentive'
    BY <2>1 DEF ListInv, Attentive, listVars, TypeOK, WorkerType
  <2> QED
    BY <2>1, <2>2, ListSame
<1>3. CASE wpc[n] # "dead"
  <2>1. /\ queue'[n] = Append(queue[n], k) /\ job'[s] = NoClid
        /\ \A t \in Stage : /\ t # n => queue'[t] = queue[t]
                            /\ t # s => job'[t] = job[t] /\ wpc'[t] = wpc[t]
        /\ wpc'[s] = "recv" /\ Running' = Running
        /\ UNCHANGED <<done, done_open, pending_results, next_launch_clid,
                       next_commit_clid>>
    BY <1>1, <1>3 DEF Forward, Enqueue, TypeOK, PipelineType, WorkerType, Running
  <2>2. k \in Held[AtWorker(s)]
    BY <1>1, HeldAt
  <2>3. k \notin Elems(queue[n])
    BY <1>1, <2>2, Places, HeldAt DEF ListInv, OnePlace, Apart
  <2>4. Elems(queue'[n]) = Elems(queue[n]) \cup {k} /\ Once(queue'[n])
    BY <1>1, <2>1, <2>3, Appended DEF ListInv, OnceEach
  <2> HIDE DEF k, n
  <2>5. /\ Held'[AtWorker(s)] = Held[AtWorker(s)] \ {k}
        /\ Held'[InQueue(n)] = Held[InQueue(n)] \cup {k}
    <3>1. Held[AtWorker(s)] = {k} /\ Held'[AtWorker(s)] = {}
      BY <1>1, <2>1, HeldAt, HeldNext DEF k
    <3> QED
      BY <1>1, <2>4, <3>1, HeldAt, HeldNext
  <2>10. ASSUME NEW c \in Place, c # AtWorker(s), c # InQueue(n)
        PROVE  Held'[c] = Held[c]
    BY <2>1, <2>10, HeldElsewhere
  <2>6. OnePlace' /\ Somewhere(Place, Held)' = Somewhere(Place, Held)
    BY <1>1, <2>2, <2>5, <2>10, Places, HeldMoves
  <2>7. OnTheWay'
    BY <2>1, <2>6 DEF ListInv, OnTheWay
  <2>8. OnceEach'
    BY <1>1, <2>1, <2>4 DEF ListInv, OnceEach
  <2>9. Attentive'
    BY <2>1 DEF ListInv, Attentive
  <2> QED
    BY <2>6, <2>7, <2>8, <2>9 DEF ListInv
<1> QED
  BY <1>2, <1>3

LEMMA ListReport ==
  ASSUME TypeOK, ListInv, NEW s \in Stage, Report(s)
  PROVE  ListInv'
<1> DEFINE k == job[s]
           r == [clid |-> k, outcome |-> outcome[s]]
<1>1. k \in Nat /\ done \in Seq(Result) /\ r \in Result
  BY DEF Report, TypeOK, WorkerType, PipelineType, Result
<1>2. /\ job'[s] = NoClid /\ wpc'[s] \in {"recv", "dead"} /\ Running' = Running
      /\ \A t \in Stage : t # s => job'[t] = job[t] /\ wpc'[t] = wpc[t]
      /\ UNCHANGED <<queue, done_open, pending_results, next_launch_clid,
                     next_commit_clid>>
  BY DEF Report, TypeOK, WorkerType, Running
<1>3. k \in Held[AtWorker(s)] /\ Held[AtWorker(s)] = {k} /\ Held'[AtWorker(s)] = {}
  BY <1>1, <1>2, HeldAt, HeldNext
<1>4. Attentive'
  BY <1>2 DEF ListInv, Attentive
<1>5. CASE done_open
  <2>1. done' = Append(done, r) /\ r.clid = k
    BY <1>5 DEF Report
  <2>2. k \notin Clids(done)
    BY <1>3, Places, HeldAt DEF ListInv, OnePlace, Apart
  <2>3. Clids(done') = Clids(done) \cup {k} /\ ClidsOnce(done')
    BY <1>1, <2>1, <2>2, Appended DEF ListInv, OnceEach
  <2> HIDE DEF k, r
  <2>4. /\ Held'[AtWorker(s)] = Held[AtWorker(s)] \ {k}
        /\ Held'[Answered] = Held[Answered] \cup {k}
    BY <1>3, <2>3, HeldAt, HeldNext
  <2>8. ASSUME NEW c \in Place, c # AtWorker(s), c # Answered
        PROVE  Held'[c] = Held[c]
    BY <1>2, <2>8, HeldElsewhere
  <2>5. OnePlace' /\ Somewhere(Place, Held)' = Somewhere(Place, Held)
    BY <1>3, <2>4, <2>8, Places, HeldMoves
  <2>6. OnTheWay'
    BY <1>2, <2>5 DEF ListInv, OnTheWay
  <2>7. OnceEach'
    BY <1>2, <2>3 DEF ListInv, OnceEach
  <2> QED
    BY <1>4, <2>5, <2>6, <2>7 DEF ListInv
<1>6. CASE ~done_open
  <2>1. done' = done
    BY <1>6 DEF Report
  <2> HIDE DEF k, r
  <2>2. ASSUME NEW c \in Place, c # AtWorker(s) PROVE Held'[c] = Held[c]
    BY <1>2, <2>1, <2>2, HeldElsewhere
  <2>3. OnePlace' /\ Somewhere(Place, Held)' = Somewhere(Place, Held) \ {k}
    BY <1>3, <2>2, Places, HeldLeaves
  <2>4. OnTheWay'
    BY <1>2, <1>6, <2>3 DEF ListInv, OnTheWay
  <2>5. OnceEach'
    BY <1>2, <2>1 DEF ListInv, OnceEach
  <2> QED
    BY <1>4, <2>3, <2>4, <2>5 DEF ListInv
<1> QED
  BY <1>5, <1>6 DEF TypeOK, PipelineType

\* A result that is committed leaves the map, and the cursor moves past it.
LEMMA ListRelease ==
  ASSUME TypeOK, ListInv, NEW r \in NextResults, ReleaseCommit(r),
         UNCHANGED <<queue, job, done, done_open, next_launch_clid, wpc>>, Running
  PROVE  ListInv'
<1> DEFINE k == next_commit_clid
<1>1. /\ r \in pending_results /\ r.clid = k /\ k \in Nat /\ next_launch_clid \in Nat
      /\ pending_results' = pending_results \ {r} /\ next_commit_clid' = k + 1
      /\ dpc' = "commit"
  BY DEF NextResults, ReleaseCommit, TypeOK, CommitType, LaunchType
<1>2. {x.clid : x \in pending_results'} = {x.clid : x \in pending_results} \ {k}
  BY <1>1 DEF ListInv, OnceEach
<1>3. k \in Held[Reordered]
  BY <1>1, HeldAt
<1> HIDE DEF k
<1>4. Held'[Reordered] = Held[Reordered] \ {k}
  BY <1>2, HeldAt, HeldNext
<1>10. ASSUME NEW c \in Place, c # Reordered PROVE Held'[c] = Held[c]
  BY <1>10, HeldElsewhere
<1>5. OnePlace' /\ Somewhere(Place, Held)' = Somewhere(Place, Held) \ {k}
  BY <1>3, <1>4, <1>10, Places, HeldLeaves
<1>6. k \in Somewhere(Place, Held)
  BY <1>3, Places DEF Somewhere
<1>7. OnTheWay'
  BY <1>1, <1>5, <1>6 DEF ListInv, OnTheWay, k
<1>8. OnceEach'
  BY <1>1 DEF ListInv, OnceEach
<1>9. Attentive'
  BY <1>1 DEF ListInv, Attentive, Running
<1> QED
  BY <1>5, <1>7, <1>8, <1>9 DEF ListInv

\* Every step keeps every list in its place, or moves it to one other.
LEMMA ListNext == ASSUME TypeOK, ListInv, [Next]_vars PROVE ListInv'
<1>1. CASE \/ Reclaim \/ SkipLaunch \/ Leave \/ WaitReclaim \/ AskLimiter
           \/ WakeUp \/ StartWait \/ Timeout \/ CommitDone \/ Drain \/ Join
  <2>1. /\ UNCHANGED <<listVars, wpc>> /\ (done_open' => done_open)
        /\ Running' => Running /\ UNCHANGED done_open
    <3> USE DEF EarlyReturn, Running, listVars
    <3>1. CASE Reclaim \/ WaitReclaim
      BY <3>1 DEF Reclaim, WaitReclaim
    <3>2. CASE Drain
      BY <3>2 DEF Drain
    <3>3. CASE Leave \/ Join
      BY <3>3 DEF Leave, Join
    <3>4. CASE SkipLaunch \/ AskLimiter \/ WakeUp
      BY <3>4 DEF SkipLaunch, AskLimiter, WakeUp
    <3>5. CASE StartWait \/ Timeout \/ CommitDone
      BY <3>5 DEF StartWait, Timeout, CommitDone
    <3> QED
      BY <1>1, <3>1, <3>2, <3>3, <3>4, <3>5
  <2>3. Attentive'
    BY <2>1 DEF ListInv, Attentive, listVars
  <2> QED
    BY <2>1, <2>3, ListSame
<1>2. CASE Launch
  BY <1>2, ListLaunch
<1>3. CASE Receive
  BY <1>3, ListReceive
<1>4. CASE Commit
  <2>1. PICK r \in pending_results :
          Submit(r) \/ Finish(r) \/ CommitError(r) \/ Discard(r)
    BY <1>4 DEF Commit
  <2>2. CASE ReleaseCommit(r)
    <3>1. /\ r \in NextResults /\ dpc \in {"commit", "submitted"}
          /\ UNCHANGED <<queue, job, next_launch_clid, wpc>>
      <4>1. CASE Submit(r)
        BY <4>1 DEF Submit, EarlyReturn
      <4>2. CASE Finish(r)
        BY <4>2 DEF Finish, EarlyReturn
      <4>3. CASE CommitError(r) \/ Discard(r)
        BY <4>3 DEF CommitError, Discard
      <4> QED
        BY <2>1, <4>1, <4>2, <4>3
    <3>2. UNCHANGED <<done, done_open>>
      BY <2>1, <2>2 DEF Submit, Finish, CommitError, Discard, EarlyReturn,
         ReleaseCommit
    <3> QED
      BY <2>2, <3>1, <3>2, ListRelease DEF Running
  <2>3. CASE ~ReleaseCommit(r)
    <3>1. UNCHANGED <<listVars, wpc>> /\ (done_open' => done_open)
      BY <2>1, <2>3 DEF Submit, Finish, CommitError, Discard, EarlyReturn, listVars
    <3>2. Running' => Running /\ UNCHANGED done_open
      BY <2>1, <2>3 DEF Submit, Finish, CommitError, Discard, EarlyReturn, Running
    <3>3. Attentive'
      BY <3>1, <3>2 DEF ListInv, Attentive, listVars
    <3> QED
      BY <3>1, <3>3, ListSame
  <2> QED
    BY <2>2, <2>3
<1>5. ASSUME NEW s \in Stage, Run(s) \/ Disconnect(s) PROVE ListInv'
  <2>1. UNCHANGED listVars /\ done_open' = done_open /\ Running' = Running
    BY <1>5 DEF Run, Disconnect, listVars, Running
  <2>2. /\ \A t \in Stage : t # s => wpc'[t] = wpc[t]
        /\ wpc'[s] \in {"dead", "report", "forward"}
        /\ wpc'[s] = "forward" => s < StageCount
        /\ wpc'[s] = "dead" => wpc[s] = "recv"
    <3>1. wpc \in [Stage -> {"recv", "run", "forward", "report", "dead"}]
      BY DEF TypeOK, WorkerType
    <3>2. CASE Disconnect(s)
      BY <3>1, <3>2 DEF Disconnect
    <3>3. CASE Run(s)
      <4>1. PICK result : wpc' = [wpc EXCEPT ![s] =
                          IF result = "Continue" /\ s < StageCount
                            THEN "forward" ELSE "report"]
        BY <3>3 DEF Run
      <4> QED
        BY <3>1, <4>1
    <3> QED
      BY <1>5, <3>2, <3>3
  <2>3. s < StageCount => s + 1 \in Stage
    BY ParallelAssumption DEF Stage
  <2>4. Attentive'
    BY <2>1, <2>2, <2>3 DEF ListInv, Attentive, listVars
  <2> QED
    BY <2>1, <2>4, ListSame
<1>6. ASSUME NEW s \in Stage, Worker(s) PROVE ListInv'
  BY <1>5, <1>6, ListRecv, ListForward, ListReport DEF Worker
<1>7. CASE Serialize \/ CtrlC \/ Deadline \/ UNCHANGED vars
  <2>1. UNCHANGED <<listVars, wpc, done_open, dpc>>
    BY <1>7 DEF Serialize, CtrlC, Deadline, vars, listVars
  <2>2. Attentive'
    BY <2>1 DEF ListInv, Attentive, listVars, Running
  <2> QED
    BY <2>1, <2>2, ListSame
<1> QED
  BY <1>1, <1>2, <1>3, <1>4, <1>6, <1>7 DEF Next, Dispatcher, Terminated

LEMMA ListsKept == Spec => []ListInv
<1>1. TypeOK /\ ListInv /\ [Next]_vars => ListInv'
  BY ListNext
<1> QED
  BY <1>1, ListInit, TypeCorrect, PTL DEF Spec

----------------------------------------------------------------------------
(* in_flight counts the lists that are not in the reorder map. *)

CountInv ==
  Running => in_flight = next_launch_clid - next_commit_clid
                           - Cardinality(pending_results)

LEMMA PendingFits ==
  ASSUME TypeOK, ListInv
  PROVE  LET n == Cardinality(pending_results)
         IN  /\ IsFiniteSet(pending_results) /\ n \in Nat
             /\ n <= next_launch_clid - next_commit_clid
             /\ /\ n = next_launch_clid - next_commit_clid
                /\ next_launch_clid # next_commit_clid
                => NextResults # {}
<1>1. /\ next_commit_clid \in Nat /\ next_launch_clid \in Nat
      /\ next_commit_clid <= next_launch_clid
      /\ \A r, x \in pending_results : r.clid = x.clid => r = x
  BY DEF TypeOK, LaunchType, CommitType, ListInv, OnTheWay, OnceEach
<1>2. \A r \in pending_results :
        r.clid \in next_commit_clid..(next_launch_clid - 1)
  BY HeldAt, Places DEF ListInv, OnTheWay, Somewhere
<1>3. next_launch_clid # next_commit_clid =>
        next_commit_clid \in next_commit_clid..(next_launch_clid - 1)
  BY <1>1
<1> QED
  BY <1>1, <1>2, <1>3, ResultsFit DEF NextResults

LEMMA CountReceive == ASSUME TypeOK, ListInv, CountInv, Receive PROVE CountInv'
<1> DEFINE r == Head(done)
           P == pending_results \cup {r}
<1>1. /\ next_commit_clid \in Nat /\ next_launch_clid \in Nat
      /\ next_commit_clid <= next_launch_clid
      /\ \A x, y \in pending_results : x.clid = y.clid => x = y
  BY DEF TypeOK, LaunchType, CommitType, ListInv, OnTheWay, OnceEach
<1>2. /\ Running /\ done \in Seq(Result) /\ done # <<>>
      /\ pending_results' = P /\ in_flight' = Received(in_flight)
      /\ UNCHANGED <<next_launch_clid, next_commit_clid>>
  BY DEF Receive, Running, TypeOK, PipelineType
<1>3. r.clid \in Clids(done)
  BY <1>2, Removed
<1>4. /\ r.clid \in next_commit_clid..(next_launch_clid - 1)
      /\ \A x \in pending_results :
           /\ x.clid \in next_commit_clid..(next_launch_clid - 1)
           /\ x.clid # r.clid
  BY <1>3, HeldAt, Places DEF ListInv, OnTheWay, Somewhere, OnePlace, Apart
<1> HIDE DEF r
<1>5. /\ Cardinality(P) \in Nat
      /\ Cardinality(P) <= next_launch_clid - next_commit_clid
  BY <1>1, <1>4, ResultsFit
<1>6. Cardinality(P) = Cardinality(pending_results) + 1
  BY <1>4, PendingFits, FS_AddElement
<1> QED
  BY <1>1, <1>2, <1>5, <1>6, PendingFits DEF CountInv, Received

LEMMA CountCommit ==
  ASSUME TypeOK, ListInv, CountInv, Commit
  PROVE  CountInv'
<1>1. PICK r \in pending_results :
        Submit(r) \/ Finish(r) \/ CommitError(r) \/ Discard(r)
  BY DEF Commit
<1>2. /\ next_commit_clid \in Nat /\ next_launch_clid \in Nat /\ in_flight \in Nat
      /\ Running /\ UNCHANGED <<in_flight, next_launch_clid>>
  BY <1>1 DEF Submit, Finish, CommitError, Discard, Running, TypeOK,
     LaunchType, CommitType
<1>3. CASE ReleaseCommit(r)
  <2>1. Cardinality(pending_results') = Cardinality(pending_results) - 1
    BY <1>3, PendingFits, FS_RemoveElement DEF ReleaseCommit
  <2>2. next_commit_clid' = next_commit_clid + 1
    BY <1>3 DEF ReleaseCommit
  <2> QED
    BY <1>2, <2>1, <2>2, PendingFits DEF CountInv
<1>4. CASE ~ReleaseCommit(r)
  <2>1. UNCHANGED <<pending_results, next_commit_clid>>
    BY <1>1, <1>4 DEF Submit, Finish, CommitError, Discard
  <2> QED
    BY <1>2, <2>1 DEF CountInv
<1> QED
  BY <1>3, <1>4

LEMMA CountNext ==
  ASSUME TypeOK, ListInv, CountInv, [Next]_vars
  PROVE  CountInv'
<1>1. CASE \/ Reclaim \/ SkipLaunch \/ Leave \/ WaitReclaim \/ AskLimiter
           \/ WakeUp \/ StartWait \/ Timeout \/ CommitDone \/ Drain \/ Join
  <2>1. /\ UNCHANGED <<in_flight, next_launch_clid, next_commit_clid,
                       pending_results>>
        /\ Running' => Running
    <3> USE DEF EarlyReturn, Running
    <3>1. CASE Reclaim \/ WaitReclaim \/ Drain
      BY <3>1 DEF Reclaim, WaitReclaim, Drain
    <3>2. CASE Leave \/ Join
      BY <3>2 DEF Leave, Join
    <3>3. CASE SkipLaunch \/ AskLimiter \/ WakeUp
      BY <3>3 DEF SkipLaunch, AskLimiter, WakeUp
    <3>4. CASE StartWait \/ Timeout \/ CommitDone
      BY <3>4 DEF StartWait, Timeout, CommitDone
    <3> QED
      BY <1>1, <3>1, <3>2, <3>3, <3>4
  <2> QED
    BY <2>1 DEF CountInv
<1>2. CASE Launch
  <2>1. /\ in_flight' = in_flight + 1 /\ next_launch_clid' = next_launch_clid + 1
        /\ UNCHANGED <<next_commit_clid, pending_results>> /\ Running
        /\ in_flight \in Nat /\ next_launch_clid \in Nat /\ next_commit_clid \in Nat
    BY <1>2 DEF Launch, Running, TypeOK, LaunchType, CommitType
  <2> QED
    BY <2>1, PendingFits DEF CountInv
<1>3. CASE Serialize \/ CtrlC \/ Deadline \/ UNCHANGED vars
           \/ \E s \in Stage : Worker(s)
  <2>1. UNCHANGED <<in_flight, next_launch_clid, next_commit_clid,
                    pending_results, dpc>>
    BY <1>3 DEF Serialize, CtrlC, Deadline, vars, Worker, Recv, Run, Forward,
       Report, Disconnect
  <2> QED
    BY <2>1 DEF CountInv, Running
<1> QED
  BY <1>1, <1>2, <1>3, CountReceive, CountCommit DEF Next, Dispatcher, Terminated

LEMMA CountInit == Init => CountInv
BY FS_EmptySet DEF Init, CountInv

----------------------------------------------------------------------------
(* Boxes: only a panic loses one, and the run knows of it. *)

NoPanic ==
  "Panic" \notin Outcomes =>
    /\ poisoned = {}
    /\ \A s \in Stage : outcome[s] # "Panic"
    /\ \A i \in 1..Len(done) : done[i].outcome # "Panic"
    /\ \A r \in pending_results : r.outcome # "Panic"

BoxesKept == fatal_error = "none" \/ "Panic" \notin Outcomes

BoxInv ==
  Running => /\ free_copperlists + BoxesInUse <= NBCL
             /\ BoxesKept => free_copperlists + BoxesInUse = NBCL

\* A list has a box until it is written, so that no more lists are on their
\* way than there are boxes.
WindowInv == next_launch_clid - next_commit_clid <= NBCL

LEMMA NoPanicInit == Init => NoPanic
BY DEF Init, NoPanic

LEMMA NoPanicNext == ASSUME TypeOK, NoPanic, [Next]_vars PROVE NoPanic'
<1> SUFFICES ASSUME "Panic" \notin Outcomes
             PROVE  /\ poisoned' = {}
                    /\ \A s \in Stage : outcome'[s] # "Panic"
                    /\ \A i \in 1..Len(done') : done'[i].outcome # "Panic"
                    /\ \A r \in pending_results' : r.outcome # "Panic"
  BY DEF NoPanic
<1>1. /\ poisoned = {}
      /\ \A s \in Stage : outcome[s] # "Panic"
      /\ \A i \in 1..Len(done) : done[i].outcome # "Panic"
      /\ \A r \in pending_results : r.outcome # "Panic"
      /\ done \in Seq(Result)
      /\ outcome \in [Stage -> StepOutcome \cup
                                 {"none", "ShuttingDown", "HandOffFailed"}]
  BY DEF NoPanic, TypeOK, PipelineType, WorkerType
<1>2. CASE UNCHANGED <<poisoned, outcome, done, pending_results>>
  BY <1>1, <1>2
<1>3. CASE \/ Reclaim \/ Launch \/ SkipLaunch \/ Leave \/ WaitReclaim
           \/ AskLimiter \/ WakeUp \/ StartWait \/ Timeout \/ CommitDone
           \/ Drain \/ Join
  <2>1. UNCHANGED <<poisoned, outcome, done, pending_results>>
    BY <1>3 DEF Reclaim, Launch, SkipLaunch, Leave, WaitReclaim, AskLimiter,
       WakeUp, StartWait, Timeout, CommitDone, Drain, Join, EarlyReturn
  <2> QED
    BY <1>2, <2>1
<1>4. CASE Receive
  <2>1. /\ UNCHANGED <<poisoned, outcome>> /\ done # <<>> /\ done' = Tail(done)
        /\ pending_results' = pending_results \cup {Head(done)}
    BY <1>4 DEF Receive
  <2>2. /\ Len(done) > 0 /\ Head(done) = done[1] /\ Len(done') = Len(done) - 1
        /\ \A i \in 1..Len(done') : done'[i] = done[i + 1]
        /\ Len(done) \in Nat
    BY <1>1, <2>1, SeqElements, LenProperties
  <2>3. \A i \in 1..Len(done') : i + 1 \in 1..Len(done)
    BY <2>2
  <2> QED
    BY <1>1, <2>1, <2>2, <2>3
<1>5. CASE Commit
  <2>1. UNCHANGED <<poisoned, outcome>> /\ pending_results' \subseteq pending_results
    BY <1>5 DEF Commit, Submit, Finish, CommitError, Discard, ReleaseCommit
  <2>2. UNCHANGED done
    BY <1>5 DEF Commit, Submit, Finish, CommitError, Discard, EarlyReturn
  <2> QED
    BY <1>1, <2>1, <2>2
<1>6. ASSUME NEW s \in Stage, Recv(s) \/ Disconnect(s) \/ Forward(s)
      PROVE  /\ UNCHANGED <<poisoned, done, pending_results>>
             /\ \A t \in Stage : outcome'[t] # "Panic"
  BY <1>1, <1>6 DEF Recv, Disconnect, Forward
<1>7. ASSUME NEW s \in Stage, Report(s)
      PROVE  /\ UNCHANGED <<poisoned, outcome, pending_results>>
             /\ \A i \in 1..Len(done') : done'[i].outcome # "Panic"
  <2>1. UNCHANGED <<poisoned, outcome, pending_results>>
    BY <1>7 DEF Report
  <2>2. CASE done' = done
    BY <1>1, <2>1, <2>2
  <2>3. CASE done_open
    <3> DEFINE r == [clid |-> job[s], outcome |-> outcome[s]]
    <3>1. done' = Append(done, r) /\ r \in Result
      BY <1>7, <2>3 DEF Report, TypeOK, WorkerType, Result
    <3>2. r.outcome # "Panic"
      BY <1>1
    <3> HIDE DEF r
    <3>3. /\ Len(done') = Len(done) + 1 /\ done'[Len(done) + 1] = r
          /\ \A i \in 1..Len(done) : done'[i] = done[i]
          /\ Len(done) \in Nat
      BY <1>1, <3>1, SeqElements, LenProperties
    <3> QED
      BY <1>1, <2>1, <3>2, <3>3
  <2> QED
    BY <1>7, <2>1, <2>2, <2>3 DEF Report
<1>8. ASSUME NEW s \in Stage, Run(s)
      PROVE  /\ UNCHANGED <<done, pending_results>> /\ poisoned' = {}
             /\ \A t \in Stage : outcome'[t] # "Panic"
  <2>1. UNCHANGED <<done, pending_results>>
    BY <1>8 DEF Run
  <2>2. \A o \in Outcomes \cup {"Panic"} :
          (o = "Panic" => ComponentOf[s] \in poisoned \/ "Panic" \in Outcomes)
          => o # "Panic"
    BY <1>1
  <2>3. /\ outcome'[s] # "Panic" /\ poisoned' = poisoned
        /\ \A t \in Stage : t # s => outcome'[t] = outcome[t]
    BY <1>1, <1>8, <2>2 DEF Run
  <2> QED
    BY <1>1, <2>1, <2>3
<1>9. CASE Serialize \/ CtrlC \/ Deadline \/ UNCHANGED vars
  <2>1. UNCHANGED <<poisoned, outcome, done, pending_results>>
    BY <1>9 DEF Serialize, CtrlC, Deadline, vars
  <2> QED
    BY <1>2, <2>1
<1>10. ASSUME NEW s \in Stage, Worker(s)
       PROVE  /\ poisoned' = {}
              /\ \A t \in Stage : outcome'[t] # "Panic"
              /\ \A i \in 1..Len(done') : done'[i].outcome # "Panic"
              /\ \A r \in pending_results' : r.outcome # "Panic"
  BY <1>1, <1>6, <1>7, <1>8, <1>10 DEF Worker
<1> QED
  BY <1>3, <1>4, <1>5, <1>9, <1>10 DEF Next, Dispatcher, Terminated

LEMMA BoxTypes ==
  ASSUME TypeOK
  PROVE  /\ free_copperlists \in Nat /\ manager_pool \in Nat /\ NBCL \in Nat
         /\ next_launch_clid \in Nat /\ next_commit_clid \in Nat
         /\ Len(io_queue) \in Nat /\ Len(completions) \in Nat
BY LenProperties, ParallelAssumption
   DEF TypeOK, LaunchType, CommitType, IoType

LEMMA BoxInit == Init => BoxInv /\ WindowInv
<1> SUFFICES ASSUME Init PROVE BoxInv /\ WindowInv
  OBVIOUS
<1>1. /\ free_copperlists = NBCL /\ NBCL \in Nat /\ dpc = "top"
      /\ next_launch_clid = 0 /\ next_commit_clid = 0 /\ manager_pool = 0
      /\ io_queue = <<>> /\ completions = <<>>
  BY ParallelAssumption DEF Init
<1>2. Len(io_queue) = 0 /\ Len(completions) = 0
  BY <1>1
<1> QED
  BY <1>1, <1>2 DEF BoxInv, WindowInv, BoxesInUse

\* A step that keeps the sum keeps the invariant.
LEMMA BoxSum ==
  ASSUME BoxInv, Running' => Running, fatal_error' = "none" => fatal_error = "none",
         Running' => (free_copperlists + BoxesInUse)' = free_copperlists + BoxesInUse
  PROVE  BoxInv'
BY DEF BoxInv, BoxesKept

LEMMA BoxDispatch ==
  ASSUME TypeOK, BoxInv,
         \/ Reclaim \/ SkipLaunch \/ Leave \/ WaitReclaim \/ AskLimiter
         \/ WakeUp \/ StartWait \/ Timeout \/ Receive \/ CommitDone \/ Drain \/ Join
  PROVE  BoxInv' /\ UNCHANGED <<next_launch_clid, next_commit_clid>>
<1> DEFINE n == Len(completions)
<1>1. /\ free_copperlists \in Nat /\ n \in Nat /\ manager_pool \in Nat
      /\ Len(io_queue) \in Nat /\ next_launch_clid \in Nat /\ next_commit_clid \in Nat
  BY BoxTypes
<1>2. CASE Reclaim
  <2>1. /\ free_copperlists' = free_copperlists + n /\ completions' = <<>>
        /\ UNCHANGED <<next_launch_clid, next_commit_clid, io_queue, manager_pool>>
        /\ dpc = "top" /\ dpc' \in {"dispatch", "join"}
        /\ fatal_error' = "none" => fatal_error = "none"
    BY <1>2 DEF Reclaim, EarlyReturn
  <2>2. Len(completions') = 0
    BY <2>1
  <2>3. (free_copperlists + BoxesInUse)' = free_copperlists + BoxesInUse
    BY <1>1, <2>1, <2>2 DEF BoxesInUse
  <2> QED
    BY <2>1, <2>3, BoxSum DEF Running
<1>3. CASE WaitReclaim \/ (Drain /\ completions # <<>> /\ completions' = Tail(completions))
  <2>1. /\ free_copperlists' = free_copperlists + 1 /\ completions # <<>>
        /\ completions' = Tail(completions)
        /\ UNCHANGED <<next_launch_clid, next_commit_clid, io_queue, manager_pool>>
        /\ dpc # "submitted" /\ dpc' # "submitted" /\ (Running' => Running)
        /\ fatal_error' = "none" => fatal_error = "none"
    <3>1. CASE WaitReclaim
      BY <3>1 DEF WaitReclaim, EarlyReturn, Running
    <3>2. CASE Drain /\ completions # <<>> /\ completions' = Tail(completions)
      BY <3>2 DEF Drain, EarlyReturn, Running
    <3> QED
      BY <1>3, <3>1, <3>2
  <2>2. Len(completions') = n - 1
    BY <2>1, SeqElements DEF TypeOK, IoType
  <2>3. (free_copperlists + BoxesInUse)' = free_copperlists + BoxesInUse
    BY <1>1, <2>1, <2>2 DEF BoxesInUse
  <2> QED
    BY <2>1, <2>3, BoxSum
<1>4. CASE \/ SkipLaunch \/ Leave \/ AskLimiter \/ WakeUp \/ StartWait \/ Timeout
           \/ Receive \/ CommitDone \/ Join
           \/ (Drain /\ UNCHANGED <<completions, free_copperlists, fatal_error>>)
  <2>1. /\ UNCHANGED <<next_launch_clid, next_commit_clid, io_queue, manager_pool,
                       completions, free_copperlists, fatal_error>>
        /\ dpc # "submitted" /\ dpc' # "submitted" /\ (Running' => Running)
    <3>1. CASE SkipLaunch \/ Leave \/ AskLimiter
      BY <3>1 DEF SkipLaunch, Leave, AskLimiter, Running
    <3>2. CASE WakeUp \/ StartWait \/ Timeout
      BY <3>2 DEF WakeUp, StartWait, Timeout, Running
    <3>3. CASE Receive \/ CommitDone \/ Join
      BY <3>3 DEF Receive, CommitDone, Join, Running
    <3>4. CASE Drain /\ UNCHANGED <<completions, free_copperlists, fatal_error>>
      BY <3>4 DEF Drain, EarlyReturn, Running
    <3> QED
      BY <1>4, <3>1, <3>2, <3>3, <3>4
  <2>2. (free_copperlists + BoxesInUse)' = free_copperlists + BoxesInUse
    BY <2>1 DEF BoxesInUse
  <2> QED
    BY <2>1, <2>2, BoxSum
<1>5. Drain => \/ completions # <<>> /\ completions' = Tail(completions)
               \/ UNCHANGED <<completions, free_copperlists, fatal_error>>
  BY DEF Drain
<1> QED
  BY <1>2, <1>3, <1>4, <1>5

LEMMA BoxLaunch == ASSUME TypeOK, BoxInv, WindowInv, Launch PROVE BoxInv' /\ WindowInv'
<1>1. /\ free_copperlists > 0 /\ free_copperlists' = free_copperlists - 1
      /\ next_launch_clid' = next_launch_clid + 1
      /\ dpc = "dispatch" /\ dpc' = "top"
      /\ UNCHANGED <<next_commit_clid, fatal_error, io_queue, completions, manager_pool>>
  BY DEF Launch, LaunchReady
<1>2. (free_copperlists + BoxesInUse)' = free_copperlists + BoxesInUse
  <2>1. BoxesInUse' = BoxesInUse + 1
    <3>1. /\ next_launch_clid \in Nat /\ next_commit_clid \in Nat
          /\ Len(io_queue) \in Nat /\ Len(completions) \in Nat
          /\ manager_pool \in Nat
      BY BoxTypes
    <3> QED
      BY <1>1, <3>1 DEF BoxesInUse
  <2>2. BoxesInUse \in Int /\ free_copperlists \in Nat
    BY BoxTypes DEF BoxesInUse
  <2> QED
    BY <1>1, <2>1, <2>2
<1>3. free_copperlists + BoxesInUse <= NBCL
  BY <1>1 DEF BoxInv, Running
<1>4. WindowInv'
  BY <1>1, <1>3, BoxTypes DEF WindowInv, BoxesInUse
<1> QED
  BY <1>1, <1>2, <1>4, BoxSum DEF Running

LEMMA BoxCommit ==
  ASSUME TypeOK, NoPanic, BoxInv, WindowInv, Commit
  PROVE  BoxInv' /\ WindowInv'
<1>1. PICK r \in pending_results :
        Submit(r) \/ Finish(r) \/ CommitError(r) \/ Discard(r)
  BY DEF Commit
<1> DEFINE n == Len(completions)
<1>7. /\ free_copperlists \in Nat /\ manager_pool \in Nat /\ NBCL \in Nat
      /\ next_launch_clid \in Nat /\ next_commit_clid \in Nat
      /\ Len(io_queue) \in Nat /\ Len(completions) \in Nat
  BY BoxTypes
<1>2. /\ next_commit_clid' \in {next_commit_clid, next_commit_clid + 1}
      /\ UNCHANGED next_launch_clid
  BY <1>1 DEF Submit, Finish, CommitError, Discard, ReleaseCommit
<1>3. WindowInv'
  BY <1>2, BoxTypes DEF WindowInv
<1>4. CASE Submit(r)
  <2>1. CASE dpc' = "join"
    BY <1>3, <2>1 DEF BoxInv, Running
  <2>2. CASE dpc' # "join"
    <3>1. /\ dpc = "commit" /\ dpc' = "submitted"
          /\ UNCHANGED <<next_launch_clid, next_commit_clid, fatal_error>>
      BY <1>4, <2>2 DEF Submit, EarlyReturn
    <3>2. \/ /\ free_copperlists' = free_copperlists + 1
             /\ UNCHANGED <<io_queue, completions, manager_pool>>
          \/ /\ completions' = <<>> /\ manager_pool' = manager_pool + n
             /\ io_queue' = Append(io_queue, r.clid)
             /\ UNCHANGED free_copperlists
      BY <1>4, <2>2 DEF Submit, EarlyReturn
    <3>3. /\ completions' = <<>> => Len(completions') = 0
          /\ io_queue' = Append(io_queue, r.clid) => Len(io_queue') = Len(io_queue) + 1
      BY SeqElements DEF TypeOK, IoType, CommitType, Result
    <3>4. (free_copperlists + BoxesInUse)' = free_copperlists + BoxesInUse
      BY <3>1, <3>2, <3>3, <1>7 DEF BoxesInUse
    <3> QED
      BY <1>3, <3>1, <3>4, BoxSum DEF Running
  <2> QED
    BY <2>1, <2>2
<1>5. CASE Finish(r)
  <2>1. CASE dpc' = "join"
    BY <1>3, <2>1 DEF BoxInv, Running
  <2>2. CASE dpc' # "join"
    <3>1. /\ dpc = "submitted" /\ ReleaseCommit(r)
          /\ completions' = <<>> /\ manager_pool' = manager_pool + n
          /\ UNCHANGED <<next_launch_clid, fatal_error, io_queue, free_copperlists>>
      BY <1>5, <2>2 DEF Finish, EarlyReturn
    <3>2. dpc' = "commit" /\ next_commit_clid' = next_commit_clid + 1 /\ Len(completions') = 0
      BY <3>1 DEF ReleaseCommit
    <3>3. (free_copperlists + BoxesInUse)' = free_copperlists + BoxesInUse
      BY <3>1, <3>2, <1>7 DEF BoxesInUse
    <3> QED
      BY <1>3, <3>1, <3>2, <3>3, BoxSum DEF Running
  <2> QED
    BY <2>1, <2>2
<1>6. CASE CommitError(r) \/ Discard(r)
  <2>1. /\ dpc = "commit" /\ dpc' = "commit" /\ next_commit_clid' = next_commit_clid + 1
        /\ free_copperlists' = free_copperlists + BoxOf(r)
        /\ UNCHANGED <<next_launch_clid, io_queue, completions, manager_pool>>
    BY <1>6 DEF CommitError, Discard, ReleaseCommit
  <2>2. fatal_error' # "none"
    BY <1>6 DEF CommitError, Discard, TypeOK, CommitType, Result, StepOutcome
  <2>3. BoxOf(r) \in {0, 1} /\ ("Panic" \notin Outcomes => BoxOf(r) = 1)
    BY DEF BoxOf, NoPanic
  <2> DEFINE sum == free_copperlists + BoxesInUse
  <2>4. sum' = sum - 1 + BoxOf(r)
    BY <2>1, <2>3, <1>7 DEF BoxesInUse
  <2>5. free_copperlists + BoxesInUse \in Int
    BY BoxTypes DEF BoxesInUse
  <2>10. sum \in Int
    BY <2>5
  <2>7. sum <= NBCL /\ (BoxesKept => sum = NBCL)
    BY <2>1 DEF BoxInv, Running
  <2>8. BoxesKept' => "Panic" \notin Outcomes
    BY <2>2 DEF BoxesKept
  <2> HIDE DEF sum
  <2>9. sum' <= NBCL /\ (BoxesKept' => sum' = NBCL)
    BY <1>7, <2>3, <2>4, <2>7, <2>8, <2>10 DEF BoxesKept
  <2> QED
    BY <1>3, <2>9 DEF BoxInv, sum
<1> QED
  BY <1>1, <1>3, <1>4, <1>5, <1>6

LEMMA BoxSerialize == ASSUME TypeOK, BoxInv, Serialize PROVE BoxInv'
<1>1. /\ io_queue # <<>> /\ io_queue' = Tail(io_queue)
      /\ \E ok \in BOOLEAN : completions' = Append(completions, ok)
      /\ UNCHANGED <<free_copperlists, next_launch_clid, next_commit_clid,
                     manager_pool, fatal_error, dpc>>
  BY DEF Serialize
<1>2. Len(io_queue') = Len(io_queue) - 1 /\ Len(completions') = Len(completions) + 1
  BY <1>1, SeqElements DEF TypeOK, IoType
<1>4. /\ free_copperlists \in Nat /\ manager_pool \in Nat /\ NBCL \in Nat
      /\ next_launch_clid \in Nat /\ next_commit_clid \in Nat
      /\ Len(io_queue) \in Nat /\ Len(completions) \in Nat
  BY BoxTypes
<1>3. (free_copperlists + BoxesInUse)' = free_copperlists + BoxesInUse
  BY <1>1, <1>2, <1>4 DEF BoxesInUse
<1> QED
  BY <1>1, <1>3, BoxSum DEF Running

LEMMA BoxNext ==
  ASSUME TypeOK, NoPanic, BoxInv, WindowInv, [Next]_vars
  PROVE  BoxInv' /\ WindowInv'
<1>1. CASE \/ Reclaim \/ SkipLaunch \/ Leave \/ WaitReclaim \/ AskLimiter
           \/ WakeUp \/ StartWait \/ Timeout \/ Receive \/ CommitDone \/ Drain \/ Join
  BY <1>1, BoxDispatch DEF WindowInv
<1>2. CASE Serialize
  BY <1>2, BoxSerialize DEF WindowInv, Serialize
<1>3. CASE CtrlC \/ Deadline \/ UNCHANGED vars \/ \E s \in Stage : Worker(s)
  <2>1. UNCHANGED <<free_copperlists, next_launch_clid, next_commit_clid,
                    manager_pool, fatal_error, dpc, io_queue, completions>>
    BY <1>3 DEF CtrlC, Deadline, vars, Worker, Recv, Run, Forward, Report,
       Disconnect
  <2> QED
    BY <2>1 DEF BoxInv, WindowInv, BoxesInUse, BoxesKept, Running
<1> QED
  BY <1>1, <1>2, <1>3, BoxLaunch, BoxCommit DEF Next, Dispatcher, Terminated

\* What is known of every state of the runtime.
PlaceInv == ListInv /\ CountInv /\ NoPanic /\ BoxInv /\ WindowInv

LEMMA PlacesKept == Spec => [](TypeOK /\ PlaceInv)
<1>1. Init => PlaceInv
  BY ListInit, CountInit, NoPanicInit, BoxInit DEF PlaceInv
<1>2. TypeOK /\ PlaceInv /\ [Next]_vars => PlaceInv'
  BY ListNext, CountNext, NoPanicNext, BoxNext DEF PlaceInv
<1> QED
  BY <1>1, <1>2, TypeCorrect, PTL DEF Spec

(* No hand-off between dispatcher, workers and serializer loses or          *)
(* duplicates one of the NBCL boxes, whatever NBCL is.                      *)
THEOREM BoxesCorrect == Spec => []BoxesConserved
<1>1. PlaceInv => BoxesConserved
  BY DEF PlaceInv, BoxInv, BoxesKept, BoxesConserved
<1> QED
  BY <1>1, PlacesKept, PTL

----------------------------------------------------------------------------
(* What the places and the boxes say of the queues. *)

LEMMA QueueFits ==
  ASSUME TypeOK, PlaceInv, NEW s \in Stage
  PROVE  /\ Len(queue[s]) \in Nat /\ Len(queue[s]) <= next_launch_clid - next_commit_clid
         /\ job[s] # NoClid /\ s + 1 \in Stage =>
              Len(queue[s + 1]) < next_launch_clid - next_commit_clid
<1> DEFINE T == next_commit_clid..(next_launch_clid - 1)
<1>1. /\ next_commit_clid \in Nat /\ next_launch_clid \in Nat
      /\ next_commit_clid <= next_launch_clid
      /\ \A t \in Stage : queue[t] \in Seq(Nat) /\ Once(queue[t])
      /\ \A t \in Stage : job[t] \in Nat \cup {NoClid}
  BY DEF TypeOK, LaunchType, CommitType, PipelineType, WorkerType, PlaceInv,
     ListInv, OnTheWay, OnceEach
<1>2. \A t \in Stage : Elems(queue[t]) \subseteq T /\ {job[t]} \ {NoClid} \subseteq T
  BY HeldAt, Places DEF PlaceInv, ListInv, OnTheWay, Somewhere
<1>3. Len(queue[s]) <= next_launch_clid - next_commit_clid
  BY <1>1, <1>2, NotMore
<1>4. ASSUME job[s] # NoClid, s + 1 \in Stage
      PROVE  Len(queue[s + 1]) < next_launch_clid - next_commit_clid
  <2> DEFINE q == queue[s + 1]
             k == job[s]
             r == Append(q, k)
  <2>1. q \in Seq(Nat) /\ k \in Nat /\ k \in T /\ Elems(q) \subseteq T /\ Once(q)
    BY <1>1, <1>2, <1>4
  <2>2. k \notin Elems(q)
    BY <1>4, HeldAt, Places DEF PlaceInv, ListInv, OnePlace, Apart
  <2> HIDE DEF q, k
  <2>3. r \in Seq(Nat) /\ Once(r) /\ Elems(r) \subseteq T /\ Len(r) = Len(q) + 1
    BY <2>1, <2>2, Appended, AppendProperties
  <2> HIDE DEF r
  <2>4. Len(r) <= next_launch_clid - next_commit_clid
    BY <1>1, <2>3, NotMore
  <2>5. Len(q) \in Nat
    BY <2>1, LenProperties
  <2> QED
    BY <1>1, <2>3, <2>4, <2>5 DEF q
<1> QED
  BY <1>1, <1>3, <1>4, LenProperties

(* No launch and no hand-off meets a full queue: queues as long as there    *)
(* are boxes always have room, whatever the number of stages.               *)
THEOREM NeverBlockedCorrect == Spec => []NeverBlocked
<1>1. TypeOK /\ PlaceInv => NeverBlocked
  <2> SUFFICES ASSUME TypeOK, PlaceInv PROVE NeverBlocked
    OBVIOUS
  <2>1. ASSUME dpc = "dispatch", LaunchReady
        PROVE  Len(queue[1]) < queue_capacity
    <3>1. free_copperlists > 0 /\ free_copperlists + BoxesInUse <= NBCL
      BY <2>1 DEF LaunchReady, PlaceInv, BoxInv, Running
    <3>2. next_launch_clid - next_commit_clid < NBCL
      BY <2>1, <3>1, BoxTypes DEF BoxesInUse
    <3>3. /\ Len(queue[1]) \in Nat
          /\ Len(queue[1]) <= next_launch_clid - next_commit_clid
      BY StageNonEmpty, QueueFits
    <3> QED
      BY <3>2, <3>3, BoxTypes DEF queue_capacity
  <2>2. ASSUME NEW s \in Stage, wpc[s] = "forward"
        PROVE  Len(queue[s + 1]) < queue_capacity
    <3>1. s + 1 \in Stage /\ job[s] # NoClid
      BY <2>2 DEF PlaceInv, ListInv, Attentive, TypeOK, WorkerType
    <3>2. /\ Len(queue[s + 1]) < next_launch_clid - next_commit_clid
          /\ Len(queue[s + 1]) \in Nat
      BY <3>1, QueueFits
    <3> QED
      BY <3>2, BoxTypes DEF queue_capacity, PlaceInv, WindowInv
  <2> QED
    BY <2>1, <2>2 DEF NeverBlocked
<1> QED
  BY <1>1, PlacesKept, PTL

LEMMA PositionOf ==
  ASSUME TypeOK, PlaceInv, Running, NEW k \in 0..(next_launch_clid - 1)
  PROVE  /\ k < next_commit_clid => Positions(k) = {}
         /\ k >= next_commit_clid => \E x : Positions(k) = {x}
<1>1. /\ next_commit_clid \in Nat /\ next_launch_clid \in Nat /\ NBCL \in Nat
      /\ next_launch_clid - next_commit_clid <= NBCL
  BY BoxTypes DEF PlaceInv, WindowInv
<1>2. \A s \in Stage : Len(queue[s]) \in Nat /\ Len(queue[s]) <= NBCL
  BY <1>1, QueueFits
<1> DEFINE Q == {p \in {"queue"} \X Stage \X (1..NBCL) :
                   p[3] <= Len(queue[p[2]]) /\ queue[p[2]][p[3]] = k}
           W == {<<"worker", s, 0>> : s \in {t \in Stage : job[t] = k}}
           D == {<<"done", 0, i>> : i \in {j \in 1..Len(done) : done[j].clid = k}}
           P == {<<"pending", 0, 0>> : r \in {x \in pending_results : x.clid = k}}
<1>3. Positions(k) = Q \cup W \cup D \cup P
  BY DEF Positions
\* A position in a place is one of an id that the place holds.
<1>4. /\ \A x \in Q : \E s \in Stage : \E i \in 1..Len(queue[s]) :
           x = <<"queue", s, i>> /\ queue[s][i] = k
      /\ \A s \in Stage : \A i \in 1..Len(queue[s]) :
           queue[s][i] = k => <<"queue", s, i>> \in Q /\ k \in Held[InQueue(s)]
  <2>1. \A x \in Q : \E s \in Stage : \E i \in 1..Len(queue[s]) :
           x = <<"queue", s, i>> /\ queue[s][i] = k
    BY <1>2
  <2>2. \A s \in Stage : \A i \in 1..Len(queue[s]) :
          queue[s][i] = k => <<"queue", s, i>> \in Q
    BY <1>1, <1>2
  <2>3. \A s \in Stage : \A i \in 1..Len(queue[s]) :
          queue[s][i] = k => k \in Held[InQueue(s)]
    BY HeldAt DEF Elems
  <2> QED
    BY <2>1, <2>2, <2>3
<1>5. /\ \A x \in W : \E s \in Stage : x = <<"worker", s, 0>> /\ job[s] = k
      /\ \A s \in Stage : job[s] = k => <<"worker", s, 0>> \in W /\ k \in Held[AtWorker(s)]
  BY HeldAt
<1>6. /\ \A x \in D : \E i \in 1..Len(done) : x = <<"done", 0, i>> /\ done[i].clid = k
      /\ \A i \in 1..Len(done) : done[i].clid = k => <<"done", 0, i>> \in D /\ k \in Held[Answered]
  BY HeldAt DEF Clids
<1>7. /\ \A x \in P : x = <<"pending", 0, 0>> /\ k \in Held[Reordered]
      /\ k \in Held[Reordered] => <<"pending", 0, 0>> \in P
  BY HeldAt
<1> HIDE DEF Q, W, D, P
<1>8. ASSUME k < next_commit_clid PROVE Positions(k) = {}
  <2>1. k \notin next_commit_clid..(next_launch_clid - 1)
    BY <1>1, <1>8
  <2>2. k \notin Somewhere(Place, Held)
    BY <2>1 DEF PlaceInv, ListInv, OnTheWay
  <2>3. \A c \in Place : k \notin Held[c]
    BY <2>2 DEF Somewhere
  <2> QED
    BY <1>3, <1>4, <1>5, <1>6, <1>7, <2>3, Places
<1>9. ASSUME k >= next_commit_clid PROVE \E x : Positions(k) = {x}
  <2>1. k \in Somewhere(Place, Held)
    BY <1>1, <1>9 DEF PlaceInv, ListInv, OnTheWay, Attentive
  <2>2. PICK c \in Place : k \in Held[c]
    BY <2>1 DEF Somewhere
  <2>3. \A d \in Place : d # c => k \notin Held[d]
    BY <2>2 DEF PlaceInv, ListInv, OnePlace, Apart
  <2>4. \A s \in Stage : \A i \in 1..Len(queue[s]) : queue[s][i] = k => InQueue(s) = c
    BY <1>4, <2>3, Places
  <2>5. \A s \in Stage : job[s] = k => AtWorker(s) = c
    BY <1>5, <2>3, Places
  <2>6. \A i \in 1..Len(done) : done[i].clid = k => Answered = c
    BY <1>6, <2>3, Places
  <2>7. k \in Held[Reordered] => Reordered = c
    BY <2>3, Places
  <2>8. ASSUME NEW s \in Stage, c = InQueue(s) PROVE \E x : Positions(k) = {x}
    <3>1. PICK i \in 1..Len(queue[s]) : queue[s][i] = k
      BY <2>2, <2>8, HeldAt DEF Elems
    <3>2. \A t \in Stage : \A j \in 1..Len(queue[t]) :
            queue[t][j] = k => t = s /\ j = i
      BY <2>4, <2>8, <3>1, Places DEF PlaceInv, ListInv, OnceEach, Once
    <3>3. Q = {<<"queue", s, i>>}
      BY <1>4, <3>1, <3>2
    <3>4. W = {} /\ D = {} /\ P = {}
      BY <1>5, <1>6, <1>7, <2>5, <2>6, <2>7, <2>8, Places
    <3> QED
      BY <1>3, <3>3, <3>4
  <2>9. ASSUME NEW s \in Stage, c = AtWorker(s) PROVE \E x : Positions(k) = {x}
    <3>1. job[s] = k
      BY <2>2, <2>9, HeldAt
    <3>2. \A t \in Stage : job[t] = k => t = s
      BY <2>5, <2>9, Places
    <3>3. W = {<<"worker", s, 0>>}
      BY <1>5, <3>1, <3>2
    <3>4. Q = {} /\ D = {} /\ P = {}
      BY <1>4, <1>6, <1>7, <2>4, <2>6, <2>7, <2>9, Places
    <3> QED
      BY <1>3, <3>3, <3>4
  <2>10. CASE c = Answered
    <3>1. PICK i \in 1..Len(done) : done[i].clid = k
      BY <2>2, <2>10, HeldAt DEF Clids
    <3>2. \A j \in 1..Len(done) : done[j].clid = k => j = i
      BY <3>1 DEF PlaceInv, ListInv, OnceEach, ClidsOnce
    <3>3. D = {<<"done", 0, i>>}
      BY <1>6, <3>1, <3>2
    <3>4. Q = {} /\ W = {} /\ P = {}
      BY <1>4, <1>5, <1>7, <2>4, <2>5, <2>7, <2>10, Places
    <3> QED
      BY <1>3, <3>3, <3>4
  <2>11. CASE c = Reordered
    <3>1. P = {<<"pending", 0, 0>>}
      BY <1>7, <2>2, <2>11
    <3>2. Q = {} /\ W = {} /\ D = {}
      BY <1>4, <1>5, <1>6, <2>4, <2>5, <2>6, <2>11, Places
    <3> QED
      BY <1>3, <3>1, <3>2
  <2> QED
    BY <2>8, <2>9, <2>10, <2>11, Places
<1> QED
  BY <1>8, <1>9

(* Every launched list is answered exactly once: it is in one queue, at one *)
(* worker, in the result channel or in the reorder map, and in_flight       *)
(* counts those the dispatcher has yet to hear of.                          *)
THEOREM AnsweredOnceCorrect == Spec => []AnsweredOnce
<1>1. TypeOK /\ PlaceInv => AnsweredOnce
  <2> SUFFICES ASSUME TypeOK, PlaceInv, Running PROVE AnsweredOnce
    BY DEF AnsweredOnce
  <2>1. ASSUME NEW k \in 0..(next_launch_clid - 1)
        PROVE  Cardinality(Positions(k)) = IF k < next_commit_clid THEN 0 ELSE 1
    <3>1. CASE k < next_commit_clid
      BY <3>1, PositionOf, FS_EmptySet
    <3>2. CASE k >= next_commit_clid
      <4>1. PICK x : Positions(k) = {x}
        BY <3>2, PositionOf
      <4>2. Cardinality(Positions(k)) = 1
        BY <4>1, FS_Singleton
      <4>3. ~(k < next_commit_clid)
        BY <3>2, BoxTypes
      <4> QED
        BY <4>2, <4>3
    <3> QED
      BY <3>1, <3>2, BoxTypes
  <2> QED
    BY <2>1 DEF AnsweredOnce, PlaceInv, CountInv
<1> QED
  BY <1>1, PlacesKept, PTL

----------------------------------------------------------------------------
(* How far the log is ahead of the commit cursor. *)

\* By one list at most, which did not fail, while its commit is finished;
\* and once a failure is committed, the log stays behind.
CutInv ==
  LET written == Len(log) + Len(io_queue)
  IN /\ written > next_commit_clid =>
          /\ written = next_commit_clid + 1
          /\ dpc \in {"submitted", "join", "done"}
          /\ \E r \in pending_results : r.clid = next_commit_clid /\ ~Failed(r)
     /\ fatal_error \notin {"none", "Returned"} => written < next_commit_clid

LEMMA CutTypes ==
  ASSUME TypeOK
  PROVE  /\ log \in Seq(Nat) /\ io_queue \in Seq(Nat)
         /\ Len(log) \in Nat /\ Len(io_queue) \in Nat /\ next_commit_clid \in Nat
BY LenProperties DEF TypeOK, IoType, CommitType

LEMMA CutSame ==
  ASSUME CutInv, UNCHANGED <<log, io_queue, next_commit_clid>>,
         pending_results \subseteq pending_results',
         dpc \in {"submitted", "join", "done"} => dpc' \in {"submitted", "join", "done"},
         fatal_error' \in {fatal_error, "Returned"}
  PROVE  CutInv'
BY DEF CutInv, Failed

LEMMA CutCommit == ASSUME TypeOK, CutInv, Commit PROVE CutInv'
<1> DEFINE written == Len(log) + Len(io_queue)
<1>1. PICK r \in pending_results :
        Submit(r) \/ Finish(r) \/ CommitError(r) \/ Discard(r)
  BY DEF Commit
<1>2. /\ log \in Seq(Nat) /\ io_queue \in Seq(Nat) /\ Len(log) \in Nat
      /\ Len(io_queue) \in Nat /\ next_commit_clid \in Nat /\ r.clid \in Nat
  BY CutTypes DEF TypeOK, CommitType, Result
<1>3. CASE Submit(r)
  <2>1. /\ dpc = "commit" /\ fatal_error = "none" /\ r.clid = next_commit_clid
        /\ ~Failed(r) /\ UNCHANGED <<pending_results, next_commit_clid>>
        /\ dpc' \in {"submitted", "join"} /\ fatal_error' \in {"none", "Returned"}
    BY <1>3 DEF Submit, NextResults, Committable, Failed, EarlyReturn
  <2>2. \/ UNCHANGED <<log, io_queue>>
        \/ log' = Append(log, r.clid) /\ UNCHANGED io_queue
        \/ io_queue' = Append(io_queue, r.clid) /\ UNCHANGED log
    BY <1>3 DEF Submit
  <2>3. written' \in {written, written + 1}
    <3>1. /\ Len(Append(log, r.clid)) = Len(log) + 1
          /\ Len(Append(io_queue, r.clid)) = Len(io_queue) + 1
      BY <1>2, SeqElements
    <3>2. CASE UNCHANGED <<log, io_queue>>
      BY <3>2
    <3>3. CASE log' = Append(log, r.clid) /\ UNCHANGED io_queue
      BY <1>2, <3>1, <3>3
    <3>4. CASE io_queue' = Append(io_queue, r.clid) /\ UNCHANGED log
      BY <1>2, <3>1, <3>4
    <3> QED
      BY <2>2, <3>2, <3>3, <3>4
  <2>4. written <= next_commit_clid
    BY <1>2, <2>1 DEF CutInv
  <2> HIDE DEF written
  <2>5. written \in Nat
    BY <1>2 DEF written
  <2>6. written' > next_commit_clid => written' = next_commit_clid + 1
    BY <1>2, <2>3, <2>4, <2>5
  <2> QED
    BY <2>1, <2>6 DEF CutInv, written, Failed
<1>4. CASE Finish(r) /\ dpc' = "join"
  <2>1. /\ UNCHANGED <<log, io_queue, next_commit_clid, pending_results>>
        /\ fatal_error' \in {fatal_error, "Returned"}
    BY <1>4 DEF Finish, EarlyReturn, ReleaseCommit
  <2> QED
    BY <1>4, <2>1, CutSame
<1>5. CASE Finish(r) /\ dpc' # "join"
  <2>1. /\ UNCHANGED <<log, io_queue, fatal_error>>
        /\ next_commit_clid' = next_commit_clid + 1
    BY <1>5 DEF Finish, EarlyReturn, ReleaseCommit
  <2>2. written <= next_commit_clid + 1
    BY <1>2 DEF CutInv
  <2> QED
    BY <1>2, <2>1, <2>2 DEF CutInv
<1>6. CASE CommitError(r) \/ Discard(r)
  <2>1. /\ UNCHANGED <<log, io_queue>> /\ dpc = "commit"
        /\ next_commit_clid' = next_commit_clid + 1
    BY <1>6 DEF CommitError, Discard, ReleaseCommit
  <2>2. written <= next_commit_clid
    BY <1>2, <2>1 DEF CutInv
  <2> QED
    BY <1>2, <2>1, <2>2 DEF CutInv
<1> QED
  BY <1>1, <1>3, <1>4, <1>5, <1>6

LEMMA CutSerialize == ASSUME TypeOK, CutInv, Serialize PROVE CutInv'
<1> DEFINE written == Len(log) + Len(io_queue)
<1>1. /\ io_queue # <<>> /\ io_queue' = Tail(io_queue)
      /\ log' = log \/ log' = Append(log, Head(io_queue))
      /\ UNCHANGED <<next_commit_clid, pending_results, dpc, fatal_error>>
  BY DEF Serialize
<1>2. /\ Len(io_queue') = Len(io_queue) - 1
      /\ Len(log') \in {Len(log), Len(log) + 1}
  BY <1>1, CutTypes, SeqElements, HeadTailProperties
<1>3. written \in Nat /\ written' \in {written, written - 1}
  <2>1. Len(log) \in Nat /\ Len(io_queue) \in Nat
    BY CutTypes
  <2>2. CASE Len(log') = Len(log)
    BY <1>2, <2>1, <2>2
  <2>3. CASE Len(log') = Len(log) + 1
    BY <1>2, <2>1, <2>3
  <2> QED
    BY <1>2, <2>2, <2>3
<1> HIDE DEF written
<1>4. next_commit_clid \in Nat
  BY CutTypes
<1>5. /\ written' > next_commit_clid => written' = written
      /\ written < next_commit_clid => written' < next_commit_clid
  <2>1. written > next_commit_clid => written = next_commit_clid + 1
    BY DEF CutInv, written
  <2> QED
    BY <1>3, <1>4, <2>1
<1> QED
  BY <1>1, <1>5 DEF CutInv, Failed, written

LEMMA CutNext == ASSUME TypeOK, CutInv, [Next]_vars PROVE CutInv'
<1>1. CASE \/ Reclaim \/ Launch \/ SkipLaunch \/ Leave \/ WaitReclaim
           \/ AskLimiter \/ WakeUp \/ StartWait \/ Timeout \/ Receive
           \/ CommitDone \/ Drain \/ Join
  <2>1. /\ UNCHANGED <<log, io_queue, next_commit_clid>>
        /\ pending_results \subseteq pending_results'
        /\ fatal_error' \in {fatal_error, "Returned"}
        /\ dpc # "submitted" /\ dpc # "done" /\ (dpc = "join" => dpc' = "done")
    <3>1. CASE Reclaim \/ WaitReclaim \/ Drain
      BY <3>1 DEF Reclaim, WaitReclaim, Drain, EarlyReturn
    <3>2. CASE Launch \/ SkipLaunch \/ Leave \/ AskLimiter \/ WakeUp
      BY <3>2 DEF Launch, SkipLaunch, Leave, AskLimiter, WakeUp
    <3>3. CASE StartWait \/ Timeout \/ Receive \/ CommitDone \/ Join
      BY <3>3 DEF StartWait, Timeout, Receive, CommitDone, Join
    <3> QED
      BY <1>1, <3>1, <3>2, <3>3
  <2> QED
    BY <2>1, CutSame
<1>2. CASE CtrlC \/ Deadline \/ UNCHANGED vars \/ \E s \in Stage : Worker(s)
  <2>1. UNCHANGED <<log, io_queue, next_commit_clid, pending_results, dpc,
                    fatal_error>>
    BY <1>2 DEF CtrlC, Deadline, vars, Worker, Recv, Run, Forward, Report,
       Disconnect
  <2> QED
    BY <2>1, CutSame
<1> QED
  BY <1>1, <1>2, CutCommit, CutSerialize DEF Next, Dispatcher, Terminated

(* A failure cuts the log at its list: neither it nor any later list is     *)
(* written, however far the later ones have come through the pipeline.      *)
THEOREM FailureCutsLogCorrect == Spec => []FailureCutsLog
<1>1. Init => CutInv
  <2>1. Len(<<>>) = 0
    OBVIOUS
  <2> QED
    BY <2>1 DEF Init, CutInv
<1>2. TypeOK /\ CutInv /\ [Next]_vars => CutInv'
  BY CutNext
<1>3. TypeOK /\ PlaceInv /\ CutInv => FailureCutsLog
  <2> SUFFICES ASSUME TypeOK, PlaceInv, CutInv PROVE FailureCutsLog
    OBVIOUS
  <2> DEFINE written == Len(log) + Len(io_queue)
  <2>1. written \in Nat /\ next_commit_clid \in Nat /\ next_launch_clid \in Nat
    BY CutTypes, BoxTypes
  <2>2. /\ \A r \in pending_results : r.clid \in Nat /\ r.clid >= next_commit_clid
        /\ \A i \in 1..Len(done) : done[i].clid \in Nat /\ done[i].clid >= next_commit_clid
    <3>1. /\ {r.clid : r \in pending_results} \subseteq next_commit_clid..(next_launch_clid - 1)
          /\ Clids(done) \subseteq next_commit_clid..(next_launch_clid - 1)
      BY HeldAt, Places DEF PlaceInv, ListInv, OnTheWay, Somewhere
    <3>2. \A k \in next_commit_clid..(next_launch_clid - 1) :
            k \in Nat /\ k >= next_commit_clid
      BY <2>1
    <3>3. \A i \in 1..Len(done) : done[i].clid \in Clids(done)
      BY DEF Clids
    <3> QED
      BY <3>1, <3>2, <3>3
  <2>3. CASE written <= next_commit_clid
    BY <2>1, <2>2, <2>3 DEF FailureCutsLog, CutInv
  <2>4. CASE written > next_commit_clid
    <3>1. PICK x \in pending_results : x.clid = next_commit_clid /\ ~Failed(x)
      BY <2>4 DEF CutInv
    <3>2. written = next_commit_clid + 1
      BY <2>4 DEF CutInv
    <3>3. \A r \in pending_results : Failed(r) => r.clid # next_commit_clid
      BY <3>1 DEF PlaceInv, ListInv, OnceEach
    <3>4. next_commit_clid \notin Clids(done)
      BY <3>1, HeldAt, Places DEF PlaceInv, ListInv, OnePlace, Apart
    <3>5. \A i \in 1..Len(done) : done[i].clid # next_commit_clid
      BY <3>4 DEF Clids
    <3> QED
      BY <2>1, <2>2, <3>2, <3>3, <3>5 DEF FailureCutsLog, CutInv
  <2> QED
    BY <2>1, <2>3, <2>4
<1> QED
  BY <1>1, <1>2, <1>3, PlacesKept, PTL DEF Spec

----------------------------------------------------------------------------
(* What is left when nothing is in flight. *)

IdleInv ==
  /\ dpc \in {"top", "dispatch", "idle", "sleep", "wait", "recv", "recv_timeout"}
       => NextResults = {}
  /\ dpc = "idle" => in_flight = 0
  /\ active_keyframe_clid # NoClid =>
       active_keyframe_clid \in next_commit_clid..(next_launch_clid - 1)
  /\ ~AsyncIO => io_queue = <<>> /\ completions = <<>> /\ manager_pool = 0

LEMMA IdleNext == ASSUME TypeOK, ListInv, IdleInv, [Next]_vars PROVE IdleInv'
<1>0. /\ next_commit_clid \in Nat /\ next_launch_clid \in Nat
      /\ next_commit_clid <= next_launch_clid
  BY BoxTypes DEF ListInv, OnTheWay
<1>1. CASE \/ SkipLaunch \/ Leave \/ AskLimiter \/ WakeUp \/ StartWait
           \/ Timeout \/ Join
  <2>1. /\ UNCHANGED <<pending_results, next_commit_clid, next_launch_clid, in_flight,
                       active_keyframe_clid, io_queue, completions, manager_pool>>
        /\ dpc \in {"top", "dispatch", "idle", "sleep", "wait", "recv", "recv_timeout"}
           \/ dpc' \in {"drain", "done"}
        /\ dpc' = "idle" => in_flight = 0
    <3>1. CASE SkipLaunch \/ Leave \/ AskLimiter \/ WakeUp
      BY <3>1 DEF SkipLaunch, Leave, AskLimiter, WakeUp
    <3>2. CASE StartWait \/ Timeout \/ Join
      BY <3>2 DEF StartWait, Timeout, Join
    <3> QED
      BY <1>1, <3>1, <3>2
  <2> QED
    BY <2>1 DEF IdleInv, NextResults
<1>2. CASE Reclaim \/ WaitReclaim \/ Drain
  <2>1. /\ UNCHANGED <<pending_results, next_commit_clid, next_launch_clid, in_flight,
                       active_keyframe_clid, io_queue, manager_pool>>
        /\ dpc \in {"top", "idle"} \/ dpc' \in {"drain", "join"}
        /\ dpc' # "idle"
    BY <1>2 DEF Reclaim, WaitReclaim, Drain, EarlyReturn
  <2>2. ~AsyncIO => completions' = <<>>
    BY <1>2 DEF Reclaim, WaitReclaim, Drain, IdleInv
  <2> QED
    BY <2>1, <2>2 DEF IdleInv, NextResults
<1>3. CASE Launch
  <2>1. /\ UNCHANGED <<pending_results, next_commit_clid, io_queue, completions, manager_pool>>
        /\ dpc = "dispatch" /\ dpc' = "top"
        /\ next_launch_clid' = next_launch_clid + 1
        /\ active_keyframe_clid' \in {active_keyframe_clid, next_launch_clid}
    BY <1>3 DEF Launch
  <2> QED
    BY <1>0, <2>1 DEF IdleInv, NextResults
<1>4. CASE Receive
  <2>1. /\ UNCHANGED <<next_commit_clid, next_launch_clid, active_keyframe_clid,
                       io_queue, completions, manager_pool>>
        /\ dpc' = "commit"
    BY <1>4 DEF Receive
  <2> QED
    BY <2>1 DEF IdleInv
<1>5. CASE Commit
  <2>1. PICK r \in pending_results :
          Submit(r) \/ Finish(r) \/ CommitError(r) \/ Discard(r)
    BY <1>5 DEF Commit
  <2>2. dpc' \in {"submitted", "commit", "join"} /\ UNCHANGED next_launch_clid
    BY <2>1 DEF Submit, Finish, CommitError, Discard, ReleaseCommit, EarlyReturn
  <2>3. ~AsyncIO => io_queue' = <<>> /\ completions' = <<>> /\ manager_pool' = 0
    <3>1. ~AsyncIO => Len(completions) = 0 /\ completions = <<>> /\ io_queue = <<>>
                      /\ manager_pool = 0
      BY DEF IdleInv
    <3>2. CASE Submit(r)
      BY <3>1, <3>2 DEF Submit
    <3>3. CASE Finish(r)
      BY <3>1, <3>3 DEF Finish
    <3>4. CASE CommitError(r) \/ Discard(r)
      BY <3>1, <3>4 DEF CommitError, Discard
    <3> QED
      BY <2>1, <3>2, <3>3, <3>4
  <2>4. \/ UNCHANGED <<next_commit_clid, active_keyframe_clid>>
        \/ /\ r.clid = next_commit_clid /\ next_commit_clid' = next_commit_clid + 1
           /\ active_keyframe_clid' = IF active_keyframe_clid = r.clid
                                        THEN NoClid ELSE active_keyframe_clid
    BY <2>1 DEF Submit, Finish, CommitError, Discard, ReleaseCommit,
       ReleaseKeyframe, NextResults
  <2> QED
    BY <1>0, <2>2, <2>3, <2>4 DEF IdleInv
<1>6. CASE CommitDone
  BY <1>6 DEF CommitDone, IdleInv, NextResults
<1>7. CASE Serialize
  <2>1. UNCHANGED <<pending_results, next_commit_clid, next_launch_clid, in_flight,
                    active_keyframe_clid, manager_pool, dpc>> /\ io_queue # <<>>
    BY <1>7 DEF Serialize
  <2> QED
    BY <2>1 DEF IdleInv, NextResults
<1>8. CASE CtrlC \/ Deadline \/ UNCHANGED vars \/ \E s \in Stage : Worker(s)
  <2>1. UNCHANGED <<pending_results, next_commit_clid, next_launch_clid, in_flight,
                    active_keyframe_clid, io_queue, completions, manager_pool, dpc>>
    BY <1>8 DEF CtrlC, Deadline, vars, Worker, Recv, Run, Forward, Report,
       Disconnect
  <2> QED
    BY <2>1 DEF IdleInv, NextResults
<1> QED
  BY <1>1, <1>2, <1>3, <1>4, <1>5, <1>6, <1>7, <1>8 DEF Next, Dispatcher, Terminated

(* When the dispatcher writes the log itself, nothing but the clock ever    *)
(* holds a launch back while nothing is in flight.                          *)
THEOREM IdleCorrect == ASSUME ~AsyncIO PROVE Spec => []IdleOnlyForClock
<1>1. Init => IdleInv
  BY DEF Init, IdleInv, NextResults
<1>2. TypeOK /\ PlaceInv /\ IdleInv /\ [Next]_vars => IdleInv'
  BY IdleNext DEF PlaceInv
<1>3. TypeOK /\ PlaceInv /\ IdleInv => IdleOnlyForClock
  <2> SUFFICES ASSUME TypeOK, PlaceInv, IdleInv, dpc = "idle", fatal_error = "none"
               PROVE  pending_results = {} /\ keyframe_ready /\ free_copperlists > 0
    BY DEF IdleOnlyForClock
  <2>1. NextResults = {} /\ in_flight = 0
    BY DEF IdleInv
  <2>2. next_launch_clid = next_commit_clid /\ Cardinality(pending_results) = 0
    BY <2>1, PendingFits, BoxTypes DEF PlaceInv, CountInv, Running
  <2>3. pending_results = {}
    BY <2>2, PendingFits, FS_EmptySet DEF PlaceInv
  <2>4. active_keyframe_clid = NoClid
    BY <2>2, BoxTypes DEF IdleInv
  <2>5. Len(io_queue) = 0 /\ Len(completions) = 0 /\ manager_pool = 0
    BY DEF IdleInv
  <2>6. free_copperlists + BoxesInUse = NBCL
    BY DEF PlaceInv, BoxInv, BoxesKept, Running
  <2>7. free_copperlists = NBCL /\ NBCL > 0
    BY <2>2, <2>5, <2>6, BoxTypes, ParallelAssumption DEF BoxesInUse
  <2> QED
    BY <2>3, <2>4, <2>7, BoxTypes DEF keyframe_ready
<1> QED
  BY <1>1, <1>2, <1>3, PlacesKept, PTL DEF Spec

-----------------------------------------------------------------------------
(***************************************************************************)
(* The stages of ParallelRuntime take the lists in the order of their ids, *)
(* so that what a keyframe records of a component is what the lists before *)
(* it have made of the component, and a logged keyframe leaves no stage    *)
(* out: proved for every plan in which no component is executed at two     *)
(* stages.                                                                 *)
(***************************************************************************)

\* Of a bridge with several stages it does not hold: see the README.
OneStageEach == \A s, t \in Stage : ComponentOf[s] = ComponentOf[t] => s = t

Ascending(q) == \A i, j \in 1..Len(q) : i < j => q[i] < q[j]

LEMMA AscendingAppend ==
  ASSUME NEW q \in Seq(Nat), NEW x \in Nat, Ascending(q),
         \A k \in Elems(q) : k < x
  PROVE  Ascending(Append(q, x))
<1> DEFINE n == Len(q)
           r == Append(q, x)
<1>1. /\ n \in Nat /\ Len(r) = n + 1 /\ r[n + 1] = x
      /\ \A i \in 1..n : r[i] = q[i] /\ q[i] < x
  BY AppendProperties, LenProperties DEF Elems
<1>2. \A j \in 1..(n + 1) : j \in 1..n \/ j = n + 1
  BY <1>1
<1>3. \A i, j \in 1..(n + 1) : i < j => i \in 1..n
  BY <1>1
<1> HIDE DEF r
<1> QED
  BY <1>1, <1>2, <1>3 DEF Ascending, r

LEMMA AscendingTail ==
  ASSUME NEW q \in Seq(Nat), q # <<>>, Ascending(q)
  PROVE  /\ Ascending(Tail(q)) /\ Head(q) \in Elems(q) /\ Head(q) \in Nat
         /\ Elems(Tail(q)) \subseteq Elems(q)
         /\ \A k \in Elems(Tail(q)) : Head(q) < k
<1> DEFINE n == Len(q)
           r == Tail(q)
<1>1. /\ n \in Nat /\ n >= 1 /\ Len(r) = n - 1 /\ Head(q) = q[1] /\ q[1] \in Nat
      /\ \A i \in 1..Len(r) : r[i] = q[i + 1]
  BY HeadTailProperties, EmptySeq, LenProperties
<1>2. \A i \in 1..Len(r) : i + 1 \in 1..n /\ 1 < i + 1 /\ r[i] = q[i + 1]
  BY <1>1
<1>3. 1 \in 1..n
  BY <1>1
<1> HIDE DEF r
<1>4. Ascending(r)
  <2> SUFFICES ASSUME NEW i \in 1..Len(r), NEW j \in 1..Len(r), i < j
               PROVE  r[i] < r[j]
    BY DEF Ascending
  <2>1. i + 1 \in 1..n /\ j + 1 \in 1..n /\ i + 1 < j + 1
    BY <1>1, <1>2
  <2> QED
    BY <1>2, <2>1 DEF Ascending
<1>5. \A i \in 1..Len(r) : q[1] < r[i] /\ r[i] \in Elems(q)
  BY <1>2, <1>3 DEF Ascending, Elems
<1> QED
  BY <1>1, <1>3, <1>4, <1>5 DEF Elems, r

----------------------------------------------------------------------------
(* The order of the ids along the pipeline. *)

\* In a stage: those it ran, the one at its worker, those in its queue.
InStage(s) ==
  /\ Ascending(queue[s])
  /\ \A a \in Elems(queue[s]) : job[s] < a
  /\ \A b \in ran[s] : /\ \A a \in Elems(queue[s]) : b < a
                       /\ job[s] # NoClid => b <= job[s]
                       /\ wpc[s] = "run" => b < job[s]

Reached(s) == Elems(queue[s]) \cup {job[s]} \cup ran[s]

\* Between stages: whatever is, or was, at the later one comes first.
InOrder(t, s) ==
  \A b \in Reached(s) : /\ \A a \in Elems(queue[t]) : b < a
                        /\ job[t] # NoClid => b < job[t]

OrderInv ==
  /\ \A s \in Stage : InStage(s)
  /\ \A t, s \in Stage : t < s => InOrder(t, s)
  /\ \A s \in Stage : \A b \in Reached(s) : b < next_launch_clid

orderVars == <<queue, job, ran, next_launch_clid>>

LEMMA OrderTypes ==
  ASSUME TypeOK
  PROVE  /\ next_launch_clid \in Nat
         /\ \A s \in Stage : /\ queue[s] \in Seq(Nat) /\ Elems(queue[s]) \subseteq Nat
                             /\ job[s] \in Nat \cup {NoClid} /\ ran[s] \subseteq Nat
                             /\ Reached(s) \subseteq Nat \cup {NoClid}
BY DEF TypeOK, LaunchType, PipelineType, WorkerType, HistoryType, Elems, Reached

LEMMA Distinct == \A s, t \in Stage : s < t => s # t
BY DEF Stage

LEMMA OrderSame ==
  ASSUME OrderInv, UNCHANGED orderVars,
         \A s \in Stage : wpc'[s] = "run" => wpc[s] = "run"
  PROVE  OrderInv'
BY DEF OrderInv, InStage, InOrder, Reached, orderVars

\* Nothing changes at a stage but at s: what has to be shown of it.
LEMMA OrderAt ==
  ASSUME TypeOK, OrderInv, NEW s \in Stage, InStage(s)',
         \A t \in Stage : t # s => /\ queue'[t] = queue[t] /\ job'[t] = job[t]
                                   /\ ran'[t] = ran[t] /\ wpc'[t] = wpc[t],
         \A t \in Stage : t < s => InOrder(t, s)',
         \A t \in Stage : s < t => InOrder(s, t)',
         \A b \in Reached(s)' : b < next_launch_clid',
         next_launch_clid' \in {next_launch_clid, next_launch_clid + 1}
  PROVE  OrderInv'
<1>1. \A t \in Stage : InStage(t)'
  BY DEF OrderInv, InStage
<1>2. \A t, u \in Stage : t < u => InOrder(t, u)'
  <2> SUFFICES ASSUME NEW t \in Stage, NEW u \in Stage, t < u PROVE InOrder(t, u)'
    OBVIOUS
  <2>1. CASE t # s /\ u # s
    BY <2>1 DEF OrderInv, InOrder, Reached
  <2> QED
    BY <2>1
<1>3. ASSUME NEW t \in Stage, NEW b \in Reached(t)' PROVE b < next_launch_clid'
  <2>1. CASE t # s
    <3>1. b \in Reached(t) /\ b \in Nat \cup {NoClid} /\ b < next_launch_clid
      BY <2>1, <1>3, OrderTypes DEF OrderInv, Reached
    <3>2. next_launch_clid \in Nat
      BY OrderTypes
    <3> QED
      BY <3>1, <3>2
  <2> QED
    BY <1>3, <2>1
<1> QED
  BY <1>1, <1>2, <1>3 DEF OrderInv

LEMMA OrderLaunch == ASSUME TypeOK, OrderInv, Launch PROVE OrderInv'
<1> DEFINE k == next_launch_clid
<1>1. /\ queue' = [queue EXCEPT ![1] = Append(queue[1], k)] /\ next_launch_clid' = k + 1
      /\ UNCHANGED <<job, wpc, ran>>
  BY DEF Launch, Enqueue
<1>2. 1 \in Stage /\ k \in Nat
  BY StageNonEmpty, OrderTypes
<1>3. /\ queue'[1] = Append(queue[1], k)
      /\ \A t \in Stage : t # 1 => queue'[t] = queue[t]
  BY <1>1, <1>2 DEF TypeOK, PipelineType
<1>4. \A s \in Stage : \A b \in Reached(s) : b < k
  BY DEF OrderInv
<1>5. Elems(queue'[1]) = Elems(queue[1]) \cup {k} /\ Ascending(queue'[1])
  <2>1. queue[1] \in Seq(Nat) /\ Ascending(queue[1]) /\ \A a \in Elems(queue[1]) : a < k
    BY <1>2, <1>4, OrderTypes DEF OrderInv, InStage, Reached
  <2> QED
    BY <1>2, <1>3, <2>1, Appended, AscendingAppend
<1> HIDE DEF k
<1>6. InStage(1)'
  BY <1>1, <1>2, <1>4, <1>5 DEF OrderInv, InStage, Reached
<1>7. \A t \in Stage : ~(t < 1)
  BY DEF Stage
<1>8. ASSUME NEW t \in Stage, 1 < t PROVE InOrder(1, t)'
  <2>1. Reached(t)' = Reached(t)
    BY <1>1, <1>3, <1>8 DEF Reached
  <2> QED
    BY <1>1, <1>2, <1>4, <1>5, <1>8, <2>1 DEF OrderInv, InOrder
<1>9. \A b \in Reached(1)' : b < next_launch_clid'
  <2>1. Reached(1)' = Reached(1) \cup {k}
    BY <1>1, <1>5 DEF Reached
  <2>2. Reached(1) \subseteq Nat \cup {NoClid} /\ k + 1 \in Nat
    BY <1>2, OrderTypes
  <2> QED
    BY <1>1, <1>2, <1>4, <2>1, <2>2
<1>10. next_launch_clid' \in {next_launch_clid, next_launch_clid + 1}
  BY <1>1 DEF k
<1> QED
  BY <1>1, <1>2, <1>3, <1>6, <1>7, <1>8, <1>9, <1>10, OrderAt

LEMMA OrderRecv ==
  ASSUME TypeOK, OrderInv, NEW s \in Stage, Recv(s)
  PROVE  OrderInv'
<1> DEFINE k == Head(queue[s])
<1>1. /\ queue[s] \in Seq(Nat) /\ queue[s] # <<>> /\ queue'[s] = Tail(queue[s])
      /\ job'[s] = k /\ UNCHANGED <<ran, next_launch_clid>>
      /\ \A t \in Stage : t # s => /\ queue'[t] = queue[t] /\ job'[t] = job[t]
                                   /\ wpc'[t] = wpc[t]
  BY DEF Recv, TypeOK, PipelineType, WorkerType
<1>2. /\ Ascending(queue'[s]) /\ k \in Elems(queue[s]) /\ k \in Nat
      /\ Elems(queue'[s]) \subseteq Elems(queue[s])
      /\ \A a \in Elems(queue'[s]) : k < a
  BY <1>1, AscendingTail DEF OrderInv, InStage
<1> HIDE DEF k
<1>3. Reached(s)' \subseteq Reached(s)
  BY <1>1, <1>2 DEF Reached
<1>4. InStage(s)'
  <2>1. \A b \in ran[s] : \A a \in Elems(queue[s]) : b < a
    BY DEF OrderInv, InStage
  <2>2. \A b \in ran[s] : b \in Nat /\ b < k
    BY <1>2, <2>1, OrderTypes
  <2>3. \A b \in ran'[s] : /\ \A a \in Elems(queue'[s]) : b < a
                           /\ b <= job'[s] /\ b < job'[s]
    BY <1>1, <1>2, <2>1, <2>2
  <2> QED
    BY <1>1, <1>2, <2>3 DEF InStage
<1>5. \A t \in Stage : t < s => InOrder(t, s)'
  BY <1>1, <1>3, Distinct DEF OrderInv, InOrder
<1>6. ASSUME NEW t \in Stage, s < t PROVE InOrder(s, t)'
  <2>1. Reached(t)' = Reached(t)
    BY <1>1, <1>6, Distinct DEF Reached
  <2> QED
    BY <1>1, <1>2, <1>6, <2>1 DEF OrderInv, InOrder
<1>7. \A b \in Reached(s)' : b < next_launch_clid'
  BY <1>1, <1>3 DEF OrderInv
<1> QED
  BY <1>1, <1>4, <1>5, <1>6, <1>7, OrderAt

LEMMA OrderReport ==
  ASSUME TypeOK, OrderInv, NEW s \in Stage, Report(s)
  PROVE  OrderInv'
<1>1. /\ job'[s] = NoClid /\ wpc'[s] # "run"
      /\ UNCHANGED <<queue, ran, next_launch_clid>>
      /\ \A t \in Stage : t # s => job'[t] = job[t] /\ wpc'[t] = wpc[t]
  BY DEF Report, TypeOK, WorkerType
<1>2. Reached(s)' \subseteq Reached(s) \cup {NoClid}
  BY <1>1 DEF Reached
<1>3. /\ \A t \in Stage : Elems(queue[t]) \subseteq Nat /\ job[t] \in Nat \cup {NoClid}
      /\ next_launch_clid \in Nat
  BY OrderTypes
<1>4. InStage(s)'
  BY <1>1, <1>3 DEF OrderInv, InStage
<1>5. ASSUME NEW t \in Stage, t < s PROVE InOrder(t, s)'
  BY <1>1, <1>2, <1>3, <1>5 DEF OrderInv, InOrder
<1>6. ASSUME NEW t \in Stage, s < t PROVE InOrder(s, t)'
  <2>1. Reached(t)' = Reached(t)
    BY <1>1, <1>6, Distinct DEF Reached
  <2> QED
    BY <1>1, <1>6, <2>1 DEF OrderInv, InOrder
<1>7. \A b \in Reached(s)' : b < next_launch_clid'
  BY <1>1, <1>2, <1>3 DEF OrderInv
<1> QED
  BY <1>1, <1>4, <1>5, <1>6, <1>7, OrderAt

LEMMA OrderRun ==
  ASSUME TypeOK, OrderInv, NEW s \in Stage, Run(s)
  PROVE  OrderInv'
<1> DEFINE k == job[s]
<1>1. /\ k \in Nat /\ wpc[s] = "run"
      /\ UNCHANGED <<queue, job, next_launch_clid>>
      /\ ran' = ran \/ ran' = [ran EXCEPT ![s] = @ \cup {k}]
  BY DEF Run, TypeOK, WorkerType
<1>2. /\ ran'[s] \subseteq ran[s] \cup {k}
      /\ \A t \in Stage : t # s => ran'[t] = ran[t] /\ wpc'[t] = wpc[t]
  BY <1>1 DEF Run, TypeOK, HistoryType, WorkerType
<1>3. wpc'[s] # "run"
  <2>1. PICK w \in {"forward", "report"} : wpc' = [wpc EXCEPT ![s] = w]
    BY DEF Run
  <2> QED
    BY <2>1 DEF TypeOK, WorkerType
<1>4. Reached(s)' \subseteq Reached(s)
  BY <1>1, <1>2 DEF Reached
<1>5. InStage(s)'
  BY <1>1, <1>2, <1>3 DEF OrderInv, InStage
<1>6. \A t \in Stage : t < s => InOrder(t, s)'
  BY <1>1, <1>4 DEF OrderInv, InOrder
<1>7. ASSUME NEW t \in Stage, s < t PROVE InOrder(s, t)'
  <2>1. Reached(t)' = Reached(t)
    BY <1>1, <1>2, <1>7, Distinct DEF Reached
  <2> QED
    BY <1>1, <1>7, <2>1 DEF OrderInv, InOrder
<1>8. \A b \in Reached(s)' : b < next_launch_clid'
  BY <1>1, <1>4 DEF OrderInv
<1> QED
  BY <1>1, <1>2, <1>5, <1>6, <1>7, <1>8, OrderAt

\* A hand-off takes the earliest list of its stage behind all of the next.
LEMMA OrderForward ==
  ASSUME TypeOK, ListInv, OrderInv, NEW s \in Stage, Forward(s)
  PROVE  OrderInv'
<1> DEFINE k == job[s]
           n == s + 1
<1>1. /\ k \in Nat /\ n \in Stage /\ queue[n] \in Seq(Nat) /\ s < n
      /\ \A t \in Stage : (t < n => t = s \/ t < s) /\ (s < t => t = n \/ n < t)
  BY DEF Forward, TypeOK, WorkerType, PipelineType, ListInv, Attentive, Stage
<1>2. CASE wpc[n] = "dead"
  <2>1. UNCHANGED orderVars /\ wpc' = [wpc EXCEPT ![s] = "report"]
    BY <1>2 DEF Forward, orderVars
  <2> QED
    BY <2>1, OrderSame DEF TypeOK, WorkerType
<1>3. CASE wpc[n] # "dead"
  <2>1. /\ queue'[n] = Append(queue[n], k) /\ job'[s] = NoClid
        /\ \A t \in Stage : /\ t # n => queue'[t] = queue[t]
                            /\ t # s => job'[t] = job[t] /\ wpc'[t] = wpc[t]
        /\ wpc'[s] = "recv" /\ UNCHANGED <<ran, next_launch_clid>>
    BY <1>1, <1>3 DEF Forward, Enqueue, TypeOK, PipelineType, WorkerType
  <2>2. \A b \in Reached(n) : b < k
    BY <1>1 DEF OrderInv, InOrder
  <2>3. Elems(queue'[n]) = Elems(queue[n]) \cup {k} /\ Ascending(queue'[n])
    <3>1. Ascending(queue[n]) /\ \A a \in Elems(queue[n]) : a < k
      BY <1>1, <2>2 DEF OrderInv, InStage, Reached
    <3> QED
      BY <1>1, <2>1, <3>1, Appended, AscendingAppend
  <2>4. \A t \in Stage : /\ Elems(queue[t]) \subseteq Nat /\ job[t] \in Nat \cup {NoClid}
                         /\ Reached(t) \subseteq Nat \cup {NoClid}
    BY OrderTypes
  <2>5. \A t \in Stage : /\ t # n => Reached(t)' \subseteq Reached(t) \cup {NoClid}
                         /\ Reached(n)' = Reached(n) \cup {k}
    BY <1>1, <2>1, <2>3, Distinct DEF Reached
  <2> HIDE DEF k, n
  <2>6. ASSUME NEW t \in Stage PROVE InStage(t)'
    <3>1. CASE t = s
      BY <1>1, <2>1, <2>4, <3>1, Distinct DEF OrderInv, InStage
    <3>2. CASE t = n
      <4>1. /\ InStage(n) /\ ran'[n] = ran[n] /\ job'[n] = job[n] /\ wpc'[n] = wpc[n]
        BY <1>1, <2>1, Distinct DEF OrderInv
      <4>2. job[n] < k /\ \A b \in ran[n] : b < k
        BY <2>2 DEF Reached
      <4> QED
        BY <2>3, <3>2, <4>1, <4>2 DEF InStage
    <3>3. CASE t # s /\ t # n
      BY <2>1, <3>3 DEF OrderInv, InStage
    <3> QED
      BY <3>1, <3>2, <3>3
  <2>7. ASSUME NEW t \in Stage, NEW u \in Stage, t < u PROVE InOrder(t, u)'
    <3>1. CASE u # n /\ t # n
      <4>1. InOrder(t, u) /\ Elems(queue'[t]) = Elems(queue[t]) /\ job'[t] \in {job[t], NoClid}
        BY <1>1, <2>1, <2>7, <3>1 DEF OrderInv
      <4>2. \A a \in Elems(queue[t]) : NoClid < a
        BY <2>4
      <4>3. job[t] # NoClid => NoClid < job[t]
        BY <2>4
      <4> QED
        BY <2>5, <3>1, <4>1, <4>2, <4>3 DEF InOrder
    <3>2. CASE u = n
      <4>1. CASE t = s
        <5>1. InOrder(s, n) /\ Elems(queue'[s]) = Elems(queue[s]) /\ job'[s] = NoClid
          BY <1>1, <2>1, Distinct DEF OrderInv
        <5>2. \A a \in Elems(queue[s]) : k < a
          BY DEF OrderInv, InStage, k
        <5> QED
          BY <1>1, <2>5, <3>2, <4>1, <5>1, <5>2 DEF InOrder
      <4>2. CASE t < s
        <5>1. /\ \A a \in Elems(queue[t]) : k < a
              /\ job[t] # NoClid => k < job[t]
          BY <4>2 DEF OrderInv, InOrder, Reached, k
        <5>2. InOrder(t, n) /\ Elems(queue'[t]) = Elems(queue[t]) /\ job'[t] = job[t]
          BY <1>1, <2>1, <2>7, <3>2, <4>2, Distinct DEF OrderInv
        <5> QED
          BY <1>1, <2>5, <3>2, <5>1, <5>2 DEF InOrder
      <4> QED
        BY <1>1, <2>7, <3>2, <4>1, <4>2
    <3>3. CASE t = n
      <4>1. s < u /\ u # n /\ u # s
        BY <1>1, <2>7, <3>3, Distinct DEF Stage
      <4>2. \A b \in Reached(u) : b < k
        BY <1>1, <4>1 DEF OrderInv, InOrder, k
      <4>3. Reached(u)' = Reached(u)
        BY <2>1, <4>1 DEF Reached
      <4>4. InOrder(n, u) /\ job'[n] = job[n]
        BY <1>1, <2>1, <2>7, <3>3, Distinct DEF OrderInv
      <4> QED
        BY <2>3, <3>3, <4>2, <4>3, <4>4 DEF InOrder
    <3> QED
      BY <3>1, <3>2, <3>3
  <2>8. ASSUME NEW t \in Stage, NEW b \in Reached(t)' PROVE b < next_launch_clid'
    <3>1. next_launch_clid \in Nat /\ k < next_launch_clid
      BY OrderTypes DEF OrderInv, Reached, k
    <3> QED
      BY <2>1, <2>5, <2>8, <3>1 DEF OrderInv
  <2> QED
    BY <2>6, <2>7, <2>8 DEF OrderInv
<1> QED
  BY <1>2, <1>3

LEMMA OrderInit == Init => OrderInv
<1> SUFFICES ASSUME Init PROVE OrderInv
  OBVIOUS
<1>1. \A s \in Stage : queue[s] = <<>> /\ job[s] = NoClid /\ ran[s] = {} /\ wpc[s] = "recv"
  BY DEF Init
<1>2. Elems(<<>>) = {} /\ Ascending(<<>>)
  BY DEF Elems, Ascending
<1>3. next_launch_clid = 0
  BY DEF Init
<1> QED
  BY <1>1, <1>2, <1>3 DEF OrderInv, InStage, InOrder, Reached

LEMMA OrderNext == ASSUME TypeOK, ListInv, OrderInv, [Next]_vars PROVE OrderInv'
<1>1. CASE \/ Reclaim \/ SkipLaunch \/ Leave \/ WaitReclaim \/ AskLimiter
           \/ WakeUp \/ StartWait \/ Timeout \/ Receive \/ Commit \/ CommitDone
           \/ Drain \/ Join
  <2>1. UNCHANGED <<orderVars, wpc>>
    <3>1. CASE Reclaim \/ WaitReclaim \/ Drain
      BY <3>1 DEF Reclaim, WaitReclaim, Drain, EarlyReturn, orderVars
    <3>2. CASE SkipLaunch \/ Leave \/ AskLimiter \/ WakeUp \/ StartWait
      BY <3>2 DEF SkipLaunch, Leave, AskLimiter, WakeUp, StartWait, orderVars
    <3>3. CASE Timeout \/ Receive \/ CommitDone \/ Join
      BY <3>3 DEF Timeout, Receive, CommitDone, Join, orderVars
    <3>4. CASE Commit
      BY <3>4 DEF Commit, Submit, Finish, CommitError, Discard, EarlyReturn, orderVars
    <3> QED
      BY <1>1, <3>1, <3>2, <3>3, <3>4
  <2> QED
    BY <2>1, OrderSame
<1>2. ASSUME NEW s \in Stage, Disconnect(s) PROVE OrderInv'
  <2>1. UNCHANGED orderVars /\ wpc' = [wpc EXCEPT ![s] = "dead"]
    BY <1>2 DEF Disconnect, orderVars
  <2> QED
    BY <2>1, OrderSame DEF TypeOK, WorkerType
<1>3. ASSUME NEW s \in Stage, Worker(s) PROVE OrderInv'
  BY <1>2, <1>3, OrderRecv, OrderRun, OrderForward, OrderReport DEF Worker
<1>4. CASE Serialize \/ CtrlC \/ Deadline \/ UNCHANGED vars
  <2>1. UNCHANGED <<orderVars, wpc>>
    BY <1>4 DEF Serialize, CtrlC, Deadline, vars, orderVars
  <2> QED
    BY <2>1, OrderSame
<1> QED
  BY <1>1, <1>3, <1>4, OrderLaunch DEF Next, Dispatcher, Terminated

----------------------------------------------------------------------------
(* What a keyframe holds. *)

\* The lists that stage s ran before list k, and k itself for a bridge.
Prefix(s, k) ==
  {s} \X {b \in ran[s] : b < k \/ (ComponentOf[s] \in Bridges /\ b = k)}

IsPrefix(k, x) ==
  \E s \in Stage : /\ x.component = ComponentOf[s] /\ k \in ran[s]
                   /\ x.state = Prefix(s, k)

FrozenInv ==
  \A f \in kf_log \cup {kf} :
    \A i \in 1..Len(f.frozen) : IsPrefix(f.culistid, f.frozen[i])

LEMMA StateOfStage ==
  ASSUME OneStageEach, NEW s \in Stage, NEW h
  PROVE  StateOf(ComponentOf[s], h) = {s} \X h[s]
BY DEF OneStageEach, StateOf

\* Later lists do not change the prefix of one that the stage has run.
LEMMA PrefixKept ==
  ASSUME TypeOK, OrderInv, [Next]_vars, NEW k, NEW x, IsPrefix(k, x)
  PROVE  IsPrefix(k, x)'
<1>1. PICK s \in Stage : /\ x.component = ComponentOf[s] /\ k \in ran[s]
                         /\ x.state = Prefix(s, k)
  BY DEF IsPrefix
<1>2. CASE ran'[s] = ran[s]
  BY <1>1, <1>2 DEF IsPrefix, Prefix
<1>3. CASE Run(s)
  <2>1. /\ ran' = ran \/ ran' = [ran EXCEPT ![s] = @ \cup {job[s]}]
        /\ wpc[s] = "run" /\ job[s] \in Nat
    BY <1>3 DEF Run, TypeOK, WorkerType
  <2>2. ran'[s] = ran[s] \/ ran'[s] = ran[s] \cup {job[s]}
    BY <2>1 DEF TypeOK, HistoryType
  <2>3. k \in Nat /\ k < job[s]
    BY <1>1, <2>1, OrderTypes DEF OrderInv, InStage
  <2>4. Prefix(s, k)' = Prefix(s, k) /\ k \in ran'[s]
    BY <1>1, <2>1, <2>2, <2>3 DEF Prefix
  <2> QED
    BY <1>1, <2>4 DEF IsPrefix
<1>4. CASE ~Run(s)
  <2>1. ran'[s] = ran[s]
    <3>1. ASSUME NEW t \in Stage, Worker(t) PROVE ran'[s] = ran[s]
      <4>1. CASE t # s /\ Run(t)
        BY <4>1 DEF Run, TypeOK, HistoryType
      <4>2. CASE ~Run(t)
        BY <3>1, <4>2 DEF Worker, Recv, Forward, Report, Disconnect
      <4> QED
        BY <1>4, <4>1, <4>2
    <3>2. ASSUME Dispatcher PROVE ran' = ran
      BY <3>2 DEF Dispatcher, Reclaim, Launch, SkipLaunch, Leave, WaitReclaim,
         AskLimiter, WakeUp, StartWait, Timeout, Receive, Commit, Submit,
         Finish, CommitError, Discard, CommitDone, Drain, Join
    <3>3. Serialize \/ CtrlC \/ Deadline \/ UNCHANGED vars => ran' = ran
      BY DEF Serialize, CtrlC, Deadline, vars
    <3> QED
      BY <3>1, <3>2, <3>3 DEF Next, Terminated
  <2> QED
    BY <1>2, <2>1
<1> QED
  BY <1>3, <1>4

\* A step that freezes a component adds its prefix to the keyframe.
LEMMA FrozenRun ==
  ASSUME OneStageEach, TypeOK, OrderInv, FrozenInv, NEW s \in Stage, Run(s)
  PROVE  FrozenInv'
<1> DEFINE c == ComponentOf[s]
<1>5. PICK k : k = job[s]
  OBVIOUS
<1>6. PICK x : x = [component |-> c, state |-> FrozenState(s, ran, ran')]
  OBVIOUS
<1>1. /\ kf_log' = kf_log
      /\ \/ kf' = kf
         \/ /\ kf' = [kf EXCEPT !.frozen = Append(@, x)]
            /\ kf.culistid = k
            /\ ran' = [ran EXCEPT ![s] = @ \cup {k}]
            /\ FreezesTask(s) \/ FreezesBridge(s)
  BY <1>5, <1>6 DEF Run, FreezeFails
<1>2. \A f \in kf_log \cup {kf} : \A i \in 1..Len(f.frozen) :
        IsPrefix(f.culistid, f.frozen[i])'
  BY PrefixKept DEF FrozenInv, Next, Worker
<1>3. CASE kf' = kf
  BY <1>1, <1>2, <1>3 DEF FrozenInv
<1>4. CASE /\ kf' = [kf EXCEPT !.frozen = Append(@, x)]
           /\ kf.culistid = k
           /\ ran' = [ran EXCEPT ![s] = @ \cup {k}]
           /\ FreezesTask(s) \/ FreezesBridge(s)
  <2>1. /\ k \in Nat /\ ran[s] \subseteq Nat /\ ran'[s] = ran[s] \cup {k}
        /\ wpc[s] = "run"
    BY <1>4, <1>5 DEF Run, TypeOK, WorkerType, HistoryType
  <2>2. \A b \in ran[s] : b < k
    BY <1>5, <2>1 DEF OrderInv, InStage
  <2>3. FrozenState(s, ran, ran') = IF c \in Bridges THEN {s} \X ran'[s] ELSE {s} \X ran[s]
    BY <1>4, StateOfStage DEF FrozenState, FreezesTask, FreezesBridge
  <2>4. FrozenState(s, ran, ran') = Prefix(s, k)'
    BY <2>1, <2>2, <2>3 DEF Prefix
  <2>5. IsPrefix(k, x)'
    BY <1>6, <2>1, <2>4 DEF IsPrefix
  <2>6. /\ kf'.culistid = k /\ kf'.frozen = Append(kf.frozen, x)
        /\ kf.frozen \in Seq([component : Component, state : SUBSET (Stage \X Nat)])
    BY <1>4 DEF TypeOK, KeyframeType, Keyframe
  <2>7. /\ Len(kf.frozen) \in Nat /\ Len(kf'.frozen) = Len(kf.frozen) + 1
        /\ kf'.frozen[Len(kf.frozen) + 1] = x
        /\ \A i \in 1..Len(kf.frozen) : kf'.frozen[i] = kf.frozen[i]
    <3>1. x \in [component : Component, state : SUBSET (Stage \X Nat)]
      <4>1. ran' \in [Stage -> SUBSET Nat] /\ ran \in [Stage -> SUBSET Nat]
        BY <1>4, <2>1 DEF TypeOK, HistoryType
      <4>2. FrozenState(s, ran, ran') \in SUBSET (Stage \X Nat)
        BY <4>1, StateOfType DEF FrozenState
      <4> QED
        BY <1>6, <4>2, StageNonEmpty
    <3> QED
      BY <2>6, <3>1, AppendProperties, LenProperties
  <2>8. PICK f : f = kf
    OBVIOUS
  <2>9. PICK g : g = kf'
    OBVIOUS
  <2>10. \A i \in 1..Len(g.frozen) : IsPrefix(k, g.frozen[i])'
    <3>1. \A i \in 1..Len(g.frozen) :
            i = Len(f.frozen) + 1 \/ (i \in 1..Len(f.frozen) /\ g.frozen[i] = f.frozen[i])
      BY <2>7, <2>8, <2>9
    <3>2. \A i \in 1..Len(f.frozen) : IsPrefix(k, f.frozen[i])'
      BY <1>2, <1>4, <2>8
    <3>3. g.frozen[Len(f.frozen) + 1] = x
      BY <2>7, <2>8, <2>9
    <3> QED
      BY <2>5, <3>1, <3>2, <3>3
  <2>11. g.culistid = k /\ kf_log' \cup {kf'} \subseteq kf_log \cup {kf, g}
    BY <1>1, <2>6, <2>9
  <2> QED
    BY <1>2, <2>10, <2>11 DEF FrozenInv
<1> QED
  BY <1>1, <1>3, <1>4

LEMMA FrozenNext ==
  ASSUME OneStageEach, TypeOK, OrderInv, FrozenInv, [Next]_vars
  PROVE  FrozenInv'
<1>1. \A f \in kf_log \cup {kf} : \A i \in 1..Len(f.frozen) :
        IsPrefix(f.culistid, f.frozen[i])'
  BY PrefixKept DEF FrozenInv
<1>2. CASE kf_log' \subseteq kf_log \cup {kf} /\ (kf' = kf \/ kf'.frozen = <<>>)
  <2>1. Len(<<>>) = 0
    OBVIOUS
  <2> QED
    BY <1>1, <1>2, <2>1 DEF FrozenInv
<1>3. CASE Dispatcher
  <2>1. CASE Launch
    BY <1>2, <2>1 DEF Launch
  <2>2. CASE Commit
    <3>1. UNCHANGED kf /\ kf_log' \subseteq kf_log \cup {kf}
      BY <2>2 DEF Commit, Submit, Finish, CommitError, Discard
    <3> QED
      BY <1>2, <3>1
  <2>3. CASE ~Launch /\ ~Commit
    <3>1. UNCHANGED <<kf, kf_log>>
      BY <1>3, <2>3 DEF Dispatcher, Reclaim, SkipLaunch, Leave, WaitReclaim,
         AskLimiter, WakeUp, StartWait, Timeout, Receive, CommitDone, Drain, Join
    <3> QED
      BY <1>2, <3>1
  <2> QED
    BY <2>1, <2>2, <2>3
<1>4. ASSUME NEW s \in Stage, Worker(s) PROVE FrozenInv'
  <2>1. CASE Run(s)
    BY <2>1, FrozenRun
  <2>2. CASE ~Run(s)
    <3>1. UNCHANGED <<kf, kf_log>>
      BY <1>4, <2>2 DEF Worker, Recv, Forward, Report, Disconnect
    <3> QED
      BY <1>2, <3>1
  <2> QED
    BY <2>1, <2>2
<1>5. CASE Serialize \/ CtrlC \/ Deadline \/ UNCHANGED vars
  <2>1. UNCHANGED <<kf, kf_log>>
    BY <1>5 DEF Serialize, CtrlC, Deadline, vars
  <2> QED
    BY <1>2, <2>1
<1> QED
  BY <1>3, <1>4, <1>5 DEF Next, Terminated

(* In a plan that executes every component at one stage, a keyframe holds   *)
(* of each what the lists before the keyframe's made of it (a bridge: that  *)
(* list too), however far ahead or behind the stages run.                   *)
THEOREM KeyframesArePrefixes ==
  ASSUME OneStageEach
  PROVE  Spec => []KeyframeIsPrefix
<1>1. Init => OrderInv /\ FrozenInv
  <2>1. Len(<<>>) = 0
    OBVIOUS
  <2>2. Init => FrozenInv
    BY <2>1 DEF Init, FrozenInv
  <2> QED
    BY <2>2, OrderInit
<1>2. TypeOK /\ PlaceInv /\ OrderInv /\ FrozenInv /\ [Next]_vars
        => OrderInv' /\ FrozenInv'
  BY OrderNext, FrozenNext DEF PlaceInv
<1>3. TypeOK /\ FrozenInv => KeyframeIsPrefix
  <2> SUFFICES ASSUME TypeOK, FrozenInv, NEW f \in kf_log, NEW i \in 1..Len(f.frozen)
               PROVE  f.frozen[i].state =
                        {x \in StateOf(f.frozen[i].component, ran) :
                           \/ x[2] < f.culistid
                           \/ f.frozen[i].component \in Bridges /\ x[2] = f.culistid}
    BY DEF KeyframeIsPrefix
  <2>1. PICK s \in Stage : /\ f.frozen[i].component = ComponentOf[s]
                           /\ f.frozen[i].state = Prefix(s, f.culistid)
    BY DEF FrozenInv, IsPrefix
  <2>2. StateOf(ComponentOf[s], ran) = {s} \X ran[s]
    BY StateOfStage
  <2> QED
    BY <2>1, <2>2 DEF Prefix
<1> QED
  BY <1>1, <1>2, <1>3, PlacesKept, PTL DEF Spec

----------------------------------------------------------------------------
(* Whose keyframe is under construction, and how far it is. *)

\* One list on its way captures a keyframe, and it is the one at hand.
OneKeyframe ==
  /\ \A k \in next_commit_clid..(next_launch_clid - 1) :
       captures_keyframe(k) => active_keyframe_clid = k
  /\ active_keyframe_clid # NoClid => kf.culistid = active_keyframe_clid

\* n stages have been frozen for list k.
FrozenSoFar(k, n) ==
  /\ \A s \in Stage :
       /\ k \in Elems(queue[s]) => n = s - 1
       /\ job[s] = k /\ wpc[s] = "run" => n = s - 1
       /\ job[s] = k /\ wpc[s] = "forward" => n = s
       /\ job[s] = k /\ wpc[s] = "report" /\ outcome[s] = "Continue" => n = StageCount
  /\ \A i \in 1..Len(done) :
       done[i].clid = k /\ done[i].outcome = "Continue" => n = StageCount
  /\ \A r \in pending_results :
       r.clid = k /\ r.outcome = "Continue" => n = StageCount

ByStage(f) == \A i \in 1..Len(f.frozen) : f.frozen[i].component = ComponentOf[i]

Complete(f) == Len(f.frozen) = StageCount /\ ByStage(f)

CompleteInv ==
  /\ OneKeyframe /\ ByStage(kf)
  /\ captures_keyframe(kf.culistid) => FrozenSoFar(kf.culistid, Len(kf.frozen))
  /\ \A f \in kf_log : Complete(f)

placeVars == <<queue, job, done, pending_results, wpc, outcome>>

LEMMA CompleteInit == Init => CompleteInv
<1> SUFFICES ASSUME Init PROVE CompleteInv
  OBVIOUS
<1>1. /\ \A s \in Stage : queue[s] = <<>> /\ job[s] = NoClid
      /\ done = <<>> /\ pending_results = {} /\ kf = [culistid |-> 0, frozen |-> <<>>]
      /\ next_commit_clid = 0 /\ next_launch_clid = 0 /\ active_keyframe_clid = NoClid
      /\ kf_log = {}
  BY DEF Init
<1>2. Elems(<<>>) = {} /\ Len(<<>>) = 0
  BY DEF Elems
<1>3. OneKeyframe
  BY <1>1 DEF OneKeyframe
<1>4. ByStage(kf)
  BY <1>1, <1>2 DEF ByStage
<1>5. FrozenSoFar(kf.culistid, Len(kf.frozen))
  BY <1>1, <1>2 DEF FrozenSoFar
<1> QED
  BY <1>1, <1>3, <1>4, <1>5 DEF CompleteInv

LEMMA CompleteSame ==
  ASSUME CompleteInv, UNCHANGED <<placeVars, kf, kf_log>>, OneKeyframe'
  PROVE  CompleteInv'
BY DEF CompleteInv, ByStage, FrozenSoFar, Complete, placeVars

LEMMA OneKeyframeSame ==
  ASSUME OneKeyframe, UNCHANGED <<next_commit_clid, next_launch_clid,
                                  active_keyframe_clid>>,
         kf'.culistid = kf.culistid
  PROVE  OneKeyframe'
BY DEF OneKeyframe, captures_keyframe

\* A list that is on its way is in one place only.
LEMMA OnlyThere ==
  ASSUME ListInv, NEW s \in Stage, NEW k
  PROVE  /\ k # NoClid /\ job[s] = k =>
              /\ \A t \in Stage : k \notin Elems(queue[t]) /\ (job[t] = k => t = s)
              /\ k \notin Clids(done) /\ \A r \in pending_results : r.clid # k
         /\ k # NoClid /\ k \in Elems(queue[s]) =>
              /\ \A t \in Stage : job[t] # k /\ (k \in Elems(queue[t]) => t = s)
              /\ k \notin Clids(done) /\ \A r \in pending_results : r.clid # k
<1>1. ASSUME NEW p \in Place, k \in Held[p]
      PROVE  \A q \in Place : q # p => k \notin Held[q]
  BY <1>1 DEF ListInv, OnePlace, Apart
<1>2. ASSUME NEW p \in Place, \A q \in Place : q # p => k \notin Held[q], k # NoClid
      PROVE  /\ \A t \in Stage : InQueue(t) # p => k \notin Elems(queue[t])
             /\ \A t \in Stage : AtWorker(t) # p => job[t] # k
             /\ Answered # p => k \notin Clids(done)
             /\ Reordered # p => \A r \in pending_results : r.clid # k
  BY <1>2, HeldAt, Places
<1>3. ASSUME k # NoClid, job[s] = k
      PROVE  /\ \A t \in Stage : k \notin Elems(queue[t]) /\ (job[t] = k => t = s)
             /\ k \notin Clids(done) /\ \A r \in pending_results : r.clid # k
  <2>1. k \in Held[AtWorker(s)] /\ AtWorker(s) \in Place
    BY <1>3, HeldAt, Places
  <2>2. \A q \in Place : q # AtWorker(s) => k \notin Held[q]
    BY <1>1, <2>1
  <2> QED
    BY <1>2, <1>3, <2>1, <2>2, Places
<1>4. ASSUME k # NoClid, k \in Elems(queue[s])
      PROVE  /\ \A t \in Stage : job[t] # k /\ (k \in Elems(queue[t]) => t = s)
             /\ k \notin Clids(done) /\ \A r \in pending_results : r.clid # k
  <2>1. k \in Held[InQueue(s)] /\ InQueue(s) \in Place
    BY <1>4, HeldAt, Places
  <2>2. \A q \in Place : q # InQueue(s) => k \notin Held[q]
    BY <1>1, <2>1
  <2> QED
    BY <1>2, <1>4, <2>1, <2>2, Places
<1> QED
  BY <1>3, <1>4

LEMMA CompleteLaunch == ASSUME TypeOK, ListInv, CompleteInv, Launch PROVE CompleteInv'
<1>0. PICK k : k = next_launch_clid
  OBVIOUS
<1>1. /\ queue[1] \in Seq(Nat) /\ k \in Nat /\ 1 \in Stage
      /\ next_commit_clid \in Nat
      /\ \A t \in Stage : t # 1 => queue'[t] = queue[t]
      /\ queue'[1] = Append(queue[1], k) /\ next_launch_clid' = k + 1
      /\ UNCHANGED <<job, done, pending_results, next_commit_clid, wpc, outcome, kf_log>>
  BY <1>0, StageNonEmpty DEF Launch, Enqueue, TypeOK, PipelineType, LaunchType, CommitType
<1>2. IF captures_keyframe(k)
        THEN /\ kf' = [culistid |-> k, frozen |-> <<>>] /\ active_keyframe_clid' = k
             /\ active_keyframe_clid = NoClid
        ELSE UNCHANGED <<kf, active_keyframe_clid>>
  BY <1>0 DEF Launch, LaunchReady, keyframe_ready
<1>3. /\ \A t \in Stage : k \notin Elems(queue[t]) /\ job[t] # k
      /\ k \notin Clids(done) /\ \A r \in pending_results : r.clid # k
  <2>1. \A p \in Place : k \notin Held[p]
    BY <1>0, <1>1 DEF ListInv, OnTheWay, Somewhere
  <2> QED
    BY <1>1, <2>1, HeldAt, Places
<1>4. Elems(queue'[1]) = Elems(queue[1]) \cup {k}
  BY <1>1, Appended
<1>5. CASE captures_keyframe(k)
  <2>1. OneKeyframe'
    <3>1. \A x \in next_commit_clid..(k - 1) : ~captures_keyframe(x)
      BY <1>0, <1>1, <1>2, <1>5 DEF CompleteInv, OneKeyframe
    <3>2. \A x \in next_commit_clid..k : x = k \/ x \in next_commit_clid..(k - 1)
      BY <1>1
    <3>3. next_commit_clid'..(next_launch_clid' - 1) = next_commit_clid..k
      BY <1>1
    <3>4. active_keyframe_clid' = k /\ kf'.culistid = k
      BY <1>2, <1>5
    <3>5. \A x \in next_commit_clid..k : captures_keyframe(x) => x = k
      BY <3>1, <3>2
    <3> QED
      BY <3>3, <3>4, <3>5 DEF OneKeyframe, captures_keyframe
  <2>2. kf'.culistid = k /\ kf'.frozen = <<>> /\ Len(<<>>) = 0
    BY <1>2, <1>5
  <2>3. ByStage(kf')
    BY <2>2 DEF ByStage
  <2>4. FrozenSoFar(k, 0)'
    <3>1. \A i \in 1..Len(done) : done[i].clid # k
      BY <1>3 DEF Clids
    <3>2. \A t \in Stage : k \in Elems(queue'[t]) => t = 1
      BY <1>1, <1>3
    <3> QED
      BY <1>1, <1>3, <3>1, <3>2 DEF FrozenSoFar
  <2> QED
    BY <1>1, <2>1, <2>2, <2>3, <2>4 DEF CompleteInv, Complete, ByStage
<1>6. CASE ~captures_keyframe(k)
  <2>1. UNCHANGED <<kf, active_keyframe_clid>>
    BY <1>2, <1>6
  <2>2. OneKeyframe'
    <3>1. \A x \in next_commit_clid..k : x = k \/ x \in next_commit_clid..(k - 1)
      BY <1>1
    <3>2. next_commit_clid'..(next_launch_clid' - 1) = next_commit_clid..k
      BY <1>1
    <3> QED
      BY <1>0, <1>6, <2>1, <3>1, <3>2 DEF CompleteInv, OneKeyframe
  <2>3. ASSUME captures_keyframe(kf.culistid)
        PROVE  FrozenSoFar(kf.culistid, Len(kf.frozen))'
    <3>1. kf.culistid # k
      BY <1>6, <2>3
    <3>2. FrozenSoFar(kf.culistid, Len(kf.frozen))
      BY <2>3 DEF CompleteInv
    <3>3. \A t \in Stage : kf.culistid \in Elems(queue'[t]) => kf.culistid \in Elems(queue[t])
      BY <1>1, <1>4, <3>1
    <3> QED
      BY <1>1, <2>1, <3>2, <3>3 DEF FrozenSoFar
  <2> QED
    BY <1>1, <2>1, <2>2, <2>3 DEF CompleteInv, Complete, ByStage
<1> QED
  BY <1>5, <1>6

LEMMA CompleteRecv ==
  ASSUME TypeOK, CompleteInv, NEW s \in Stage, Recv(s)
  PROVE  CompleteInv'
<1>1. /\ queue[s] \in Seq(Nat) /\ queue[s] # <<>> /\ queue'[s] = Tail(queue[s])
      /\ job'[s] = Head(queue[s]) /\ wpc'[s] \in {"run", "report"}
      /\ wpc'[s] = "report" => outcome'[s] # "Continue"
      /\ \A t \in Stage : t # s => /\ queue'[t] = queue[t] /\ job'[t] = job[t]
                                 /\ wpc'[t] = wpc[t] /\ outcome'[t] = outcome[t]
      /\ UNCHANGED <<done, pending_results, kf, kf_log, next_commit_clid,
                     next_launch_clid, active_keyframe_clid>>
  BY DEF Recv, TypeOK, PipelineType, WorkerType
<1>2. /\ Head(queue[s]) \in Elems(queue[s])
      /\ \A x \in Elems(queue'[s]) : x \in Elems(queue[s])
  <2> DEFINE q == queue[s]
  <2>1. /\ Len(q) > 0 /\ Len(q) \in Nat /\ Head(q) = q[1] /\ Len(Tail(q)) = Len(q) - 1
        /\ \A i \in 1..Len(Tail(q)) : Tail(q)[i] = q[i + 1]
    BY <1>1, SeqElements, LenProperties
  <2> HIDE DEF q
  <2>2. 1 \in 1..Len(q) /\ \A i \in 1..Len(Tail(q)) : i + 1 \in 1..Len(q)
    BY <2>1
  <2> QED
    BY <1>1, <2>1, <2>2 DEF Elems, q
<1>3. ASSUME captures_keyframe(kf.culistid)
      PROVE  FrozenSoFar(kf.culistid, Len(kf.frozen))'
  <2>1. FrozenSoFar(kf.culistid, Len(kf.frozen))
    BY <1>3 DEF CompleteInv
  <2> QED
    BY <1>1, <1>2, <2>1 DEF FrozenSoFar
<1>4. OneKeyframe'
  BY <1>1, OneKeyframeSame DEF CompleteInv
<1> QED
  BY <1>1, <1>3, <1>4 DEF CompleteInv, ByStage, Complete

LEMMA CompleteForward ==
  ASSUME TypeOK, ListInv, CompleteInv, NEW s \in Stage, Forward(s)
  PROVE  CompleteInv'
<1> DEFINE n == s + 1
<1>1. /\ job[s] \in Nat /\ n \in Stage /\ queue[n] \in Seq(Nat) /\ n # s /\ n - 1 = s
      /\ kf.culistid \in Nat
  BY DEF Forward, TypeOK, WorkerType, PipelineType, ListInv, Attentive, Stage,
     KeyframeType, Keyframe
<1>2. UNCHANGED <<done, pending_results, kf, kf_log, next_commit_clid,
                  next_launch_clid, active_keyframe_clid>>
  BY DEF Forward
<1>3. CASE wpc[n] = "dead"
  <2>1. /\ UNCHANGED <<queue, job>>
        /\ wpc'[s] = "report" /\ outcome'[s] = "HandOffFailed"
        /\ \A t \in Stage : t # s => wpc'[t] = wpc[t] /\ outcome'[t] = outcome[t]
    BY <1>3 DEF Forward, TypeOK, WorkerType
  <2>2. captures_keyframe(kf.culistid) => FrozenSoFar(kf.culistid, Len(kf.frozen))'
    BY <1>2, <2>1 DEF CompleteInv, FrozenSoFar
  <2> QED
    BY <1>2, <2>2, OneKeyframeSame DEF CompleteInv, ByStage, Complete
<1>4. CASE wpc[n] # "dead"
  <2>1. /\ queue'[n] = Append(queue[n], job[s]) /\ job'[s] = NoClid
        /\ \A t \in Stage : /\ t # n => queue'[t] = queue[t]
                            /\ t # s => job'[t] = job[t] /\ wpc'[t] = wpc[t]
        /\ UNCHANGED outcome /\ wpc[s] = "forward"
    BY <1>1, <1>4 DEF Forward, Enqueue, TypeOK, PipelineType, WorkerType
  <2>2. Elems(queue'[n]) = Elems(queue[n]) \cup {job[s]}
    BY <1>1, <2>1, Appended
  <2> HIDE DEF n
  <2>3. ASSUME captures_keyframe(kf.culistid)
        PROVE  FrozenSoFar(kf.culistid, Len(kf.frozen))'
    <3>1. FrozenSoFar(kf.culistid, Len(kf.frozen))
      BY <2>3 DEF CompleteInv
    <3>2. ASSUME NEW t \in Stage, kf.culistid \in Elems(queue'[t])
          PROVE  Len(kf.frozen) = t - 1
      BY <1>1, <2>1, <2>2, <3>1, <3>2 DEF FrozenSoFar
    <3> QED
      BY <1>1, <1>2, <2>1, <3>1, <3>2 DEF FrozenSoFar
  <2> QED
    BY <1>2, <2>3, OneKeyframeSame DEF CompleteInv, ByStage, Complete
<1> QED
  BY <1>3, <1>4

LEMMA CompleteReport ==
  ASSUME TypeOK, CompleteInv, NEW s \in Stage, Report(s)
  PROVE  CompleteInv'
<1> DEFINE r == [clid |-> job[s], outcome |-> outcome[s]]
<1>1. /\ job[s] \in Nat /\ done \in Seq(Result) /\ r \in Result /\ wpc[s] = "report"
      /\ kf.culistid \in Nat /\ r.clid = job[s] /\ r.outcome = outcome[s]
  BY DEF Report, TypeOK, WorkerType, PipelineType, Result, KeyframeType, Keyframe
<1>2. /\ job'[s] = NoClid /\ (done' = done \/ done' = Append(done, r))
      /\ \A t \in Stage : t # s => job'[t] = job[t] /\ wpc'[t] = wpc[t]
      /\ UNCHANGED <<queue, outcome, pending_results, kf, kf_log, next_commit_clid,
                     next_launch_clid, active_keyframe_clid>>
  BY DEF Report, TypeOK, WorkerType
<1> HIDE DEF r
<1>3. ASSUME captures_keyframe(kf.culistid)
      PROVE  FrozenSoFar(kf.culistid, Len(kf.frozen))'
  <2>1. FrozenSoFar(kf.culistid, Len(kf.frozen))
    BY <1>3 DEF CompleteInv
  <2>2. r.clid = kf.culistid /\ r.outcome = "Continue" => Len(kf.frozen) = StageCount
    BY <1>1, <2>1 DEF FrozenSoFar
  <2>3. \A i \in 1..Len(done') : (i \in 1..Len(done) /\ done'[i] = done[i]) \/ done'[i] = r
    BY <1>1, <1>2, SeqElements, LenProperties
  <2>4. \A i \in 1..Len(done') :
          done'[i].clid = kf.culistid /\ done'[i].outcome = "Continue"
            => Len(kf.frozen) = StageCount
    BY <2>1, <2>2, <2>3 DEF FrozenSoFar
  <2> QED
    BY <1>1, <1>2, <2>1, <2>4 DEF FrozenSoFar
<1> QED
  BY <1>2, <1>3, OneKeyframeSame DEF CompleteInv, ByStage, Complete

LEMMA CompleteReceive == ASSUME TypeOK, CompleteInv, Receive PROVE CompleteInv'
<1>1. /\ done \in Seq(Result) /\ done # <<>> /\ done' = Tail(done)
      /\ pending_results' = pending_results \cup {Head(done)}
      /\ UNCHANGED <<queue, job, wpc, outcome, kf, kf_log, next_commit_clid,
                     next_launch_clid, active_keyframe_clid>>
  BY DEF Receive, TypeOK, PipelineType
<1>2. /\ Len(done) > 0 /\ Len(done) \in Nat /\ Head(done) = done[1]
      /\ Len(done') = Len(done) - 1
      /\ \A i \in 1..Len(done') : done'[i] = done[i + 1]
  BY <1>1, SeqElements, LenProperties
<1>3. 1 \in 1..Len(done) /\ \A i \in 1..Len(done') : i + 1 \in 1..Len(done)
  BY <1>2
<1>4. ASSUME captures_keyframe(kf.culistid)
      PROVE  FrozenSoFar(kf.culistid, Len(kf.frozen))'
  <2>1. FrozenSoFar(kf.culistid, Len(kf.frozen))
    BY <1>4 DEF CompleteInv
  <2> QED
    BY <1>1, <1>2, <1>3, <2>1 DEF FrozenSoFar
<1> QED
  BY <1>1, <1>4, OneKeyframeSame DEF CompleteInv, ByStage, Complete

LEMMA LongerByOne ==
  ASSUME NEW S, NEW q \in Seq(S), NEW e
  PROVE  /\ Len(q) \in Nat /\ Len(Append(q, e)) = Len(q) + 1
         /\ Append(q, e)[Len(q) + 1] = e
         /\ \A i \in 1..Len(q) : Append(q, e)[i] = q[i]
<1>1. Len(q) \in Nat /\ q \in [1..Len(q) -> S]
  BY LenProperties
<1>2. q \in [1..Len(q) -> S \cup {e}]
  BY <1>1
<1>3. q \in Seq(S \cup {e})
  BY <1>1, <1>2, SeqDef
<1> QED
  BY <1>1, <1>3, AppendProperties

LEMMA CompleteRun ==
  ASSUME OneStageEach, TypeOK, ListInv, CompleteInv, NEW s \in Stage, Run(s)
  PROVE  CompleteInv'
<1>0. PICK k : k = job[s]
  OBVIOUS
<1>1. /\ k \in Nat /\ k # NoClid /\ wpc[s] = "run"
      /\ s \in 1..StageCount /\ StageCount \in Nat
  BY <1>0, ParallelAssumption DEF Run, TypeOK, WorkerType, Stage
<1>2. /\ UNCHANGED <<queue, job, done, pending_results, kf_log, next_commit_clid,
                     next_launch_clid, active_keyframe_clid>>
      /\ \A t \in Stage : t # s => wpc'[t] = wpc[t] /\ outcome'[t] = outcome[t]
  BY DEF Run, TypeOK, WorkerType
<1>3. /\ wpc'[s] = "forward" => outcome'[s] = "Continue" /\ s < StageCount
      /\ wpc'[s] = "report" /\ outcome'[s] = "Continue" => s = StageCount
      /\ wpc'[s] \in {"forward", "report"}
  BY <1>1 DEF Run, TypeOK, WorkerType
<1>4. /\ \/ kf' = kf
         \/ /\ kf.culistid = k /\ captures_keyframe(k)
            /\ \E h : kf' = [kf EXCEPT !.frozen = Append(@,
                               [component |-> ComponentOf[s], state |-> h])]
      /\ outcome'[s] = "Continue" /\ captures_keyframe(k) =>
           /\ kf.culistid = k
           /\ \E h : kf' = [kf EXCEPT !.frozen = Append(@,
                              [component |-> ComponentOf[s], state |-> h])]
  <2>1. FreezesTask(s) \/ FreezesBridge(s)
    BY DEF OneStageEach, FreezesTask, FreezesBridge, Stage
  <2> QED
    BY <1>0, <2>1 DEF Run, FreezeFails, TypeOK, WorkerType
<1>5. OneKeyframe'
  <2>1. kf'.culistid = kf.culistid
    BY <1>4 DEF TypeOK, KeyframeType, Keyframe
  <2> QED
    BY <1>2, <2>1, OneKeyframeSame DEF CompleteInv
<1>6. /\ \A t \in Stage : k \notin Elems(queue[t]) /\ (job[t] = k => t = s)
      /\ \A i \in 1..Len(done) : done[i].clid # k
      /\ \A r \in pending_results : r.clid # k
  BY <1>0, <1>1, OnlyThere DEF Clids
<1>7. CASE kf' = kf
  <2>1. ASSUME captures_keyframe(kf.culistid)
        PROVE  FrozenSoFar(kf.culistid, Len(kf.frozen))'
    <3>1. FrozenSoFar(kf.culistid, Len(kf.frozen))
      BY <2>1 DEF CompleteInv
    <3>2. CASE kf.culistid # k
      BY <1>0, <1>2, <1>7, <3>1, <3>2 DEF FrozenSoFar
    <3>3. CASE kf.culistid = k
      <4>1. outcome'[s] # "Continue"
        <5>1. ASSUME NEW h, kf' = [kf EXCEPT !.frozen = Append(@,
                                     [component |-> ComponentOf[s], state |-> h])]
              PROVE  FALSE
          <6>1. /\ kf.frozen \in Seq([component : Component,
                                      state : SUBSET (Stage \X Nat)])
                /\ kf'.frozen = Append(kf.frozen,
                                  [component |-> ComponentOf[s], state |-> h])
            BY <5>1 DEF TypeOK, KeyframeType, Keyframe
          <6> HIDE DEF Stage
          <6>2. Len(kf'.frozen) = Len(kf.frozen) + 1 /\ Len(kf.frozen) \in Nat
            BY <6>1, LongerByOne
          <6> QED
            BY <1>7, <6>2
        <5> QED
          BY <1>4, <2>1, <3>3, <5>1
      <4> QED
        BY <1>2, <1>3, <1>6, <1>7, <3>3, <4>1 DEF FrozenSoFar
    <3> QED
      BY <3>2, <3>3
  <2> QED
    BY <1>2, <1>5, <1>7, <2>1 DEF CompleteInv, ByStage, Complete
<1>8. ASSUME kf.culistid = k, captures_keyframe(k),
             NEW h, kf' = [kf EXCEPT !.frozen = Append(@,
                             [component |-> ComponentOf[s], state |-> h])]
      PROVE  CompleteInv'
  <2>1. Len(kf.frozen) = s - 1
    BY <1>0, <1>1, <1>8 DEF CompleteInv, FrozenSoFar
  <2>2. /\ kf'.culistid = k /\ kf.frozen \in Seq([component : Component,
                                                 state : SUBSET (Stage \X Nat)])
        /\ kf'.frozen = Append(kf.frozen, [component |-> ComponentOf[s], state |-> h])
    BY <1>8 DEF TypeOK, KeyframeType, Keyframe
  <2>3. /\ Len(kf'.frozen) = s /\ kf'.frozen[s].component = ComponentOf[s]
        /\ \A i \in 1..(s - 1) : kf'.frozen[i] = kf.frozen[i]
    BY <1>1, <2>1, <2>2, LongerByOne
  <2>4. ByStage(kf')
    <3>1. \A i \in 1..s : i = s \/ i \in 1..(s - 1)
      BY <1>1
    <3>2. \A i \in 1..(s - 1) : kf.frozen[i].component = ComponentOf[i]
      BY <2>1 DEF CompleteInv, ByStage
    <3> QED
      BY <2>3, <3>1, <3>2 DEF ByStage
  <2>5. FrozenSoFar(k, s)'
    BY <1>1, <1>2, <1>3, <1>6 DEF FrozenSoFar
  <2> QED
    BY <1>2, <1>5, <2>2, <2>3, <2>4, <2>5 DEF CompleteInv, Complete, ByStage
<1> QED
  BY <1>4, <1>7, <1>8

\* A result is released: its list captures no keyframe any more.
LEMMA CompleteRelease ==
  ASSUME TypeOK, CompleteInv, NEW r \in NextResults, ReleaseCommit(r),
         UNCHANGED <<queue, job, done, wpc, outcome, kf, next_launch_clid>>,
         \A f \in kf_log' : f \in kf_log \/ Complete(f)
  PROVE  CompleteInv'
<1>1. /\ next_commit_clid \in Nat /\ next_launch_clid \in Nat
      /\ next_commit_clid' = next_commit_clid + 1
      /\ pending_results' \subseteq pending_results
      /\ active_keyframe_clid' = IF active_keyframe_clid = next_commit_clid
                                   THEN NoClid ELSE active_keyframe_clid
  BY DEF NextResults, ReleaseCommit, ReleaseKeyframe, TypeOK, CommitType, LaunchType
<1>2. OneKeyframe'
  <2>1. ASSUME NEW k \in next_commit_clid'..(next_launch_clid' - 1), captures_keyframe(k)
        PROVE  active_keyframe_clid' = k
    <3>1. k \in next_commit_clid..(next_launch_clid - 1) /\ k # next_commit_clid
      BY <1>1
    <3>2. active_keyframe_clid = k
      BY <2>1, <3>1 DEF CompleteInv, OneKeyframe
    <3> QED
      BY <1>1, <3>1, <3>2
  <2> QED
    BY <1>1, <2>1 DEF CompleteInv, OneKeyframe
<1>3. ASSUME captures_keyframe(kf.culistid)
      PROVE  FrozenSoFar(kf.culistid, Len(kf.frozen))'
  <2>1. FrozenSoFar(kf.culistid, Len(kf.frozen))
    BY <1>3 DEF CompleteInv
  <2> QED
    BY <1>1, <2>1 DEF FrozenSoFar
<1> QED
  BY <1>2, <1>3 DEF CompleteInv, ByStage, Complete

\* The keyframe that is logged is that of the list, and every stage is in it.
LEMMA LoggedComplete ==
  ASSUME TypeOK, CommitCursorInv, CompleteInv, NEW r \in NextResults,
         r.outcome = "Continue", captures_keyframe(r.clid)
  PROVE  Complete(kf)
<1>1. /\ r \in pending_results /\ r.clid = next_commit_clid
      /\ next_commit_clid \in Nat /\ next_launch_clid \in Nat
      /\ r.clid < next_launch_clid
  BY DEF NextResults, TypeOK, CommitType, LaunchType, CommitCursorInv, IdsLaunched
<1>2. next_commit_clid \in next_commit_clid..(next_launch_clid - 1)
  BY <1>1
<1>3. active_keyframe_clid = r.clid /\ kf.culistid = r.clid
  BY <1>1, <1>2 DEF CompleteInv, OneKeyframe
<1> QED
  BY <1>1, <1>3 DEF CompleteInv, FrozenSoFar, Complete

LEMMA CompleteCommit ==
  ASSUME TypeOK, CommitCursorInv, CompleteInv, Commit
  PROVE  CompleteInv'
<1>1. PICK r \in pending_results : Submit(r) \/ Finish(r) \/ CommitError(r) \/ Discard(r)
  BY DEF Commit
<1>2. r \in NextResults
  BY <1>1 DEF Submit, Finish, CommitError, Discard
<1>3. UNCHANGED <<queue, job, done, wpc, outcome, kf, next_launch_clid>>
  BY <1>1 DEF Submit, Finish, CommitError, Discard, EarlyReturn
<1>4. \A f \in kf_log' : f \in kf_log \/ Complete(f)
  <2>1. CASE Finish(r)
    <3>1. kf_log' = kf_log \/ (/\ r.outcome = "Continue" /\ captures_keyframe(r.clid)
                              /\ kf_log' = kf_log \cup {kf})
      BY <2>1 DEF Finish
    <3> QED
      BY <1>2, <3>1, LoggedComplete
  <2>2. CASE ~Finish(r)
    BY <1>1, <2>2 DEF Submit, CommitError, Discard
  <2> QED
    BY <2>1, <2>2
<1>5. \/ ReleaseCommit(r)
      \/ UNCHANGED <<next_commit_clid, active_keyframe_clid, pending_results>>
  BY <1>1 DEF Submit, Finish, CommitError, Discard
<1>6. ASSUME UNCHANGED <<next_commit_clid, active_keyframe_clid, pending_results>>
      PROVE  CompleteInv'
  <2>1. OneKeyframe'
    BY <1>3, <1>6, OneKeyframeSame DEF CompleteInv
  <2>2. captures_keyframe(kf.culistid) => FrozenSoFar(kf.culistid, Len(kf.frozen))'
    BY <1>3, <1>6 DEF CompleteInv, FrozenSoFar
  <2> QED
    BY <1>3, <1>4, <2>1, <2>2 DEF CompleteInv, ByStage, Complete
<1> QED
  BY <1>2, <1>3, <1>4, <1>5, <1>6, CompleteRelease

LEMMA CompleteNext ==
  ASSUME OneStageEach, TypeOK, CommitCursorInv, ListInv, CompleteInv, [Next]_vars
  PROVE  CompleteInv'
<1>1. ASSUME UNCHANGED <<queue, job, done, pending_results, wpc, outcome, kf, kf_log,
                         next_commit_clid, next_launch_clid, active_keyframe_clid>>
      PROVE  CompleteInv'
  BY <1>1, OneKeyframeSame, CompleteSame DEF CompleteInv, placeVars
<1>2. CASE Dispatcher
  <2>1. CASE Reclaim \/ WaitReclaim \/ Drain
    BY <1>1, <2>1 DEF Reclaim, WaitReclaim, Drain, EarlyReturn
  <2>2. CASE SkipLaunch \/ Leave \/ AskLimiter \/ WakeUp \/ StartWait
    BY <1>1, <2>2 DEF SkipLaunch, Leave, AskLimiter, WakeUp, StartWait
  <2>3. CASE Timeout \/ CommitDone \/ Join
    BY <1>1, <2>3 DEF Timeout, CommitDone, Join
  <2> QED
    BY <1>2, <2>1, <2>2, <2>3, CompleteLaunch, CompleteReceive, CompleteCommit
       DEF Dispatcher
<1>3. ASSUME NEW s \in Stage, Disconnect(s) PROVE CompleteInv'
  <2>1. /\ UNCHANGED <<queue, job, done, pending_results, outcome, kf, kf_log,
                       next_commit_clid, next_launch_clid, active_keyframe_clid>>
        /\ \A t \in Stage : wpc'[t] = wpc[t] \/ wpc'[t] = "dead"
    BY <1>3 DEF Disconnect, TypeOK, WorkerType
  <2>2. OneKeyframe'
    BY <2>1, OneKeyframeSame DEF CompleteInv
  <2>3. captures_keyframe(kf.culistid) => FrozenSoFar(kf.culistid, Len(kf.frozen))'
    BY <2>1 DEF CompleteInv, FrozenSoFar
  <2> QED
    BY <2>1, <2>2, <2>3 DEF CompleteInv, ByStage, Complete
<1>4. ASSUME NEW s \in Stage, Worker(s) PROVE CompleteInv'
  BY <1>3, <1>4, CompleteRecv, CompleteRun, CompleteForward, CompleteReport DEF Worker
<1>5. CASE Serialize \/ CtrlC \/ Deadline \/ UNCHANGED vars
  BY <1>1, <1>5 DEF Serialize, CtrlC, Deadline, vars
<1> QED
  BY <1>2, <1>4, <1>5 DEF Next, Terminated

KeyframesAreComplete == \A f \in kf_log : Complete(f)

(* In such a plan every keyframe of the log is complete: stage after stage, *)
(* the component it executes, whatever failed while it was taken.           *)
THEOREM KeyframesComplete ==
  ASSUME OneStageEach
  PROVE  Spec => []KeyframesAreComplete
<1>1. TypeOK /\ CommitCursorInv /\ PlaceInv /\ CompleteInv /\ [Next]_vars => CompleteInv'
  BY CompleteNext DEF PlaceInv
<1>2. CompleteInv => KeyframesAreComplete
  BY DEF CompleteInv, KeyframesAreComplete
<1> QED
  BY <1>1, <1>2, CompleteInit, PlacesKept, CursorCorrect, PTL DEF Spec

\* At most the last stage executes a bridge.
BridgeLast == \A s, t \in Stage : s < t => ComponentOf[s] \notin Bridges

(* If moreover only the last stage may be a bridge, the keyframes of the    *)
(* log hold every component in the order restore_keyframe decodes them.     *)
THEOREM KeyframesRestorable ==
  ASSUME OneStageEach, BridgeLast
  PROVE  Spec => []KeyframeRestorable
<1>1. KeyframesAreComplete => KeyframeRestorable
  <2> SUFFICES ASSUME NEW f \in kf_log, Complete(f)
               PROVE  /\ {f.frozen[i].component : i \in 1..Len(f.frozen)} = Component
                      /\ \A i, j \in 1..Len(f.frozen) : i < j =>
                           RestoreBefore(f.frozen[i].component, f.frozen[j].component)
    BY DEF KeyframesAreComplete, KeyframeRestorable
  <2>1. /\ 1..Len(f.frozen) = Stage
        /\ \A i \in Stage : f.frozen[i].component = ComponentOf[i]
    BY DEF Complete, ByStage, Stage
  <2>2. {f.frozen[i].component : i \in 1..Len(f.frozen)} = Component
    BY <2>1 DEF Component
  <2>3. ASSUME NEW i \in Stage, NEW j \in Stage, i < j
        PROVE  RestoreBefore(ComponentOf[i], ComponentOf[j])
    BY <2>3 DEF BridgeLast, RestoreBefore
  <2> QED
    BY <2>1, <2>2, <2>3
<1> QED
  BY <1>1, KeyframesComplete, PTL

=============================================================================
