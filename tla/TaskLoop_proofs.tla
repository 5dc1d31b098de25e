--------------------------- MODULE TaskLoop_proofs ---------------------------
(***************************************************************************)
(* Proofs about TaskLoop, for every number of tasks and threads, period    *)
(* and bound: types, one run at a time, that a poll never waits for a run, *)
(* and that background tasks are one-slot tasks.                           *)
(***************************************************************************)
EXTENDS TaskLoop, SequenceTheorems, TLAPS

LEMMA NumberTypes ==
  /\ TaskCount \in Nat \ {0} /\ PoolThreads \in Nat \ {0}
  /\ MaxRuns \in Nat /\ Lead \in Nat /\ Period \in Nat \ {0}
  /\ 1 \in Task /\ None \notin Nat
BY AsyncTaskAssumption, LimiterAssumption DEF Task, None

LEMMA NextTaskType ==
  ASSUME NEW during, NEW after, at \in Task, NextTask(during, after)
  PROVE  at' \in Task /\ lpc' \in {during, after}
BY NumberTypes DEF NextTask, Task

----------------------------------------------------------------------------
(* What a step does to the state of the tasks. *)

NotPolling ==
  /\ UNCHANGED async_vars
  /\ lpc' = "publish" <=> lpc = "publish"
  /\ lpc = "publish" => at' = at

Unqueued == UNCHANGED <<output, out_lock, task_lock, pool, worker, runs,
                        failed, published>>

ReportsError ==
  PollError(at) /\ lpc = "poll" /\ lpc' # "publish" /\ Unqueued

Marks ==
  PollReady(at) /\ lpc = "poll" /\ lpc' = "publish" /\ at' = at /\ Unqueued

Publishes == Publish(at) /\ lpc = "publish" /\ lpc' # "publish"

Works(i) == BackgroundRun(i) /\ UNCHANGED <<lpc, at>>

LEMMA StepKinds ==
  ASSUME at \in Task, [Next]_vars
  PROVE  NotPolling \/ ReportsError \/ Marks \/ Publishes
           \/ \E i \in Thread : Works(i)
<1>1. CASE CallRun \/ CtrlC \/ Clock \/ UNCHANGED vars
  BY <1>1 DEF CallRun, CtrlC, Clock, vars, loop_vars, async_vars, NotPolling
<1>2. CASE Pool
  BY <1>2 DEF Pool, Works, loop_vars
<1>3. CASE Start \/ MakeLimiter \/ LimitRate \/ Stop
  <2>1. lpc # "publish" /\ UNCHANGED async_vars
    BY <1>3 DEF Start, MakeLimiter, LimitRate, Stop
  <2>2. lpc' # "publish"
    BY <1>3, NextTaskType DEF Start, MakeLimiter, LimitRate, Stop
  <2> QED
    BY <2>1, <2>2 DEF NotPolling
<1>4. CASE PollPublish
  BY <1>4, NextTaskType DEF PollPublish, Publishes
<1>5. CASE Poll
  <2>1. CASE PollError(at) /\ \/ NextTask("poll", "limit") /\ UNCHANGED failing
                              \/ lpc' = "limit" /\ at' = 1 /\ failing' \in BOOLEAN
    BY <1>5, <2>1, NextTaskType DEF Poll, ReportsError, Unqueued
  <2>2. CASE PollEmpty(at) /\ NextTask("poll", "limit")
    BY <1>5, <2>2, NextTaskType DEF Poll, PollEmpty, NotPolling, async_vars
  <2>3. CASE PollReady(at) /\ lpc' = "publish" /\ UNCHANGED <<at, failing>>
    BY <1>5, <2>3 DEF Poll, Marks, Unqueued
  <2> QED
    BY <1>5, <2>1, <2>2, <2>3 DEF Poll
<1> QED
  BY <1>1, <1>2, <1>3, <1>4, <1>5 DEF Next, Loop

----------------------------------------------------------------------------
(* Type correctness. *)

LimiterTypes ==
  now \in Nat /\ next_deadline \in Nat /\ phase \in Nat /\ last_tick \in Nat

StateTypes ==
  /\ state \in [Task -> [processing : BOOLEAN, ready_at : Nat \cup {None},
                         last_error : Nat]]
  /\ \A t \in Task : state[t].processing =>
       state[t].ready_at = None /\ state[t].last_error = 0

RunTypes ==
  /\ output \in [Task -> [payload : Nat, end : Nat \cup {None}]]
  /\ out_lock \in [Task -> 0..PoolThreads]
  /\ task_lock \in [Task -> 0..PoolThreads]
  /\ pool \in Seq(Job)
  /\ worker \in [Thread -> [pc : PoolLabel, task : Task, run : Nat]]
  /\ runs \in [Task -> Nat] /\ failed \in [Task -> SUBSET Nat]
  /\ published \in [Task -> Seq(Nat)]

LoopTypes ==
  /\ lpc \in {"done", "start", "limiter", "poll", "publish", "limit", "stop"}
  /\ at \in Task /\ failing \in BOOLEAN /\ STOP_FLAG \in BOOLEAN
  /\ calls \in Nat

LEMMA TypeParts == TypeOK <=> LimiterTypes /\ StateTypes /\ RunTypes /\ LoopTypes
BY DEF TypeOK, LimiterTypes, StateTypes, RunTypes, LoopTypes

LEMMA DivisionType ==
  ASSUME NEW d \in Nat
  PROVE  d \div Period \in Nat
BY NumberTypes

LEMMA LimiterStep == LimiterTypes /\ [Next]_vars => LimiterTypes'
<1> SUFFICES ASSUME LimiterTypes, [Next]_vars PROVE LimiterTypes'
  OBVIOUS
<1>1. CASE UNCHANGED limiter_vars
  BY <1>1 DEF LimiterTypes, limiter_vars
<1>2. CASE Tick
  BY <1>2 DEF Tick, LimiterTypes
<1>3. CASE FromRateTarget
  BY <1>3, NumberTypes DEF FromRateTarget, LimiterTypes
<1>4. CASE Limit
  <2>1. now - next_deadline \in Nat
    BY <1>4 DEF Limit, is_ready, LimiterTypes
  <2>2. (now - next_deadline) \div Period \in Nat
    BY <2>1, DivisionType
  <2>3. advance_from(now, next_deadline)
          = next_deadline + ((now - next_deadline) \div Period + 1) * Period
    BY <1>4, <2>1 DEF advance_from, Limit, is_ready, LimiterTypes
  <2>4. advance_from(now, next_deadline) \in Nat
    BY <2>2, <2>3, NumberTypes DEF LimiterTypes
  <2> QED
    BY <1>4, <2>4 DEF Limit, LimiterTypes
<1> QED
  BY <1>1, <1>2, <1>3, <1>4
     DEF Next, Loop, CallRun, Start, MakeLimiter, Poll, PollPublish, LimitRate,
         Stop, CtrlC, Clock, Pool, vars

LEMMA LoopStep == LoopTypes /\ [Next]_vars => LoopTypes'
<1> SUFFICES ASSUME LoopTypes, [Next]_vars PROVE LoopTypes'
  OBVIOUS
<1>1. CASE UNCHANGED loop_vars
  BY <1>1 DEF LoopTypes, loop_vars
<1>2. CASE CallRun
  <2>1. /\ lpc' = "start" /\ at' = 1 /\ failing' = FALSE
        /\ calls' = calls + 1 /\ STOP_FLAG' = STOP_FLAG
    BY <1>2 DEF CallRun
  <2>2. calls' \in Nat /\ at' \in Task
    BY <2>1, NumberTypes DEF LoopTypes
  <2>3. failing' \in BOOLEAN /\ STOP_FLAG' \in BOOLEAN
    BY <2>1 DEF LoopTypes
  <2> QED
    BY <2>1, <2>2, <2>3 DEF LoopTypes
<1>3. CASE Start \/ Stop \/ PollPublish
  BY <1>3, NextTaskType DEF Start, Stop, PollPublish, LoopTypes
<1>4. CASE MakeLimiter \/ LimitRate \/ CtrlC
  BY <1>4 DEF MakeLimiter, LimitRate, CtrlC, LoopTypes
<1>5. CASE Poll
  <2>1. UNCHANGED <<STOP_FLAG, calls>> /\ failing' \in BOOLEAN
    BY <1>5 DEF Poll, LoopTypes
  <2>2. at' \in Task /\ lpc' \in {"poll", "limit", "publish"}
    BY <1>5, NextTaskType, NumberTypes DEF Poll, LoopTypes
  <2> QED
    BY <2>1, <2>2 DEF LoopTypes
<1> QED
  BY <1>1, <1>2, <1>3, <1>4, <1>5 DEF Next, Loop, Clock, Pool, vars

LEMMA StateStep ==
  ASSUME LimiterTypes, StateTypes, RunTypes, LoopTypes, [Next]_vars
  PROVE  StateTypes'
<1>0. at \in Task /\ now \in Nat /\ None \notin Nat
  BY NumberTypes DEF LoopTypes, LimiterTypes
<1>1. CASE UNCHANGED state
  BY <1>1 DEF StateTypes
<1>2. CASE ReportsError
  BY <1>0, <1>2 DEF ReportsError, PollError, StateTypes
<1>3. CASE Marks
  BY <1>0, <1>3 DEF Marks, PollReady, marked, StateTypes
<1>4. ASSUME NEW i \in Thread, Works(i), ~UNCHANGED state
      PROVE  StateTypes'
  <2> DEFINE t == worker[i].task
  <2>1. t \in Task /\ worker[i].run \in Nat
        /\ output[t].end \in Nat \cup {None}
    BY DEF RunTypes
  <2>2. CASE FinalizeOk(i)
    <3>1. PICK end \in Nat :
            state' = [state EXCEPT ![t].processing = FALSE, ![t].ready_at = end]
      BY <1>0, <2>1, <2>2 DEF FinalizeOk
    <3> QED
      BY <1>0, <2>1, <3>1 DEF StateTypes
  <2>3. CASE FinalizeErr(i)
    BY <1>0, <2>1, <2>3 DEF FinalizeErr, after_error, StateTypes
  <2> QED
    BY <1>4, <2>2, <2>3 DEF Works, BackgroundRun, Take, LockOutput, LockTask,
                            Process, UnlockOutput
<1> QED
  BY <1>0, <1>1, <1>2, <1>3, <1>4, StepKinds
     DEF NotPolling, Publishes, Publish, async_vars

LEMMA GotoType ==
  ASSUME RunTypes, NEW i \in Thread, NEW pc \in PoolLabel, Goto(i, pc)
  PROVE  worker' \in [Thread -> [pc : PoolLabel, task : Task, run : Nat]]
BY DEF Goto, RunTypes

LEMMA Labels ==
  /\ "cleared" \in PoolLabel /\ "process" \in PoolLabel /\ "ok" \in PoolLabel
  /\ "err" \in PoolLabel /\ "finalized" \in PoolLabel
BY DEF PoolLabel

LEMMA RunStep ==
  ASSUME LimiterTypes, RunTypes, LoopTypes, [Next]_vars
  PROVE  RunTypes'
<1>0. at \in Task /\ now + Lead \in Nat /\ Thread \subseteq 0..PoolThreads
      /\ 0 \in 0..PoolThreads
  BY NumberTypes DEF LoopTypes, LimiterTypes, Thread
<1>1. CASE NotPolling \/ ReportsError \/ Marks
  BY <1>1 DEF NotPolling, ReportsError, Marks, Unqueued, async_vars, RunTypes
<1>2. CASE Publishes
  <2>1. [task |-> at, run |-> runs[at] + 1] \in Job
    BY <1>0 DEF Job, RunTypes
  <2>2. pool' \in Seq(Job)
    BY <1>2, <2>1 DEF Publishes, Publish, RunTypes
  <2>3. Append(published[at], output[at].payload) \in Seq(Nat)
    BY <1>0, AppendProperties DEF RunTypes
  <2>4. published' \in [Task -> Seq(Nat)]
    BY <1>0, <1>2, <2>3 DEF Publishes, Publish, RunTypes
  <2> QED
    BY <1>0, <1>2, <2>2, <2>4 DEF Publishes, Publish, RunTypes
<1>3. ASSUME NEW i \in Thread, Works(i) PROVE RunTypes'
  <2> DEFINE t == worker[i].task
  <2>1. /\ t \in Task /\ worker[i].run \in Nat /\ i \in 0..PoolThreads
        /\ output[t].payload \in Nat /\ output[t].end \in Nat \cup {None}
    BY <1>0 DEF RunTypes
  <2>2. CASE Take(i)
    <3>1. Head(pool) \in Job /\ Tail(pool) \in Seq(Job)
      BY <2>2, HeadTailProperties DEF Take, RunTypes
    <3>2. Head(pool).task \in Task /\ Head(pool).run \in Nat
      BY <3>1 DEF Job
    <3> QED
      BY <2>2, <3>1, <3>2 DEF Take, RunTypes, PoolLabel
  <2>3. CASE LockOutput(i)
    <3>1. Empty \in [payload : Nat, end : Nat \cup {None}]
      BY DEF Empty
    <3> QED
      BY <2>1, <2>3, <3>1, GotoType, Labels DEF LockOutput, cleared, RunTypes
  <2>4. CASE LockTask(i)
    BY <2>1, <2>4 DEF LockTask, Goto, RunTypes, PoolLabel
  <2>5. CASE Process(i)
    <3>1. output' \in [Task -> [payload : Nat, end : Nat \cup {None}]]
      BY <1>0, <2>1, <2>5 DEF Process, RunTypes
    <3>2. task_lock' \in [Task -> 0..PoolThreads]
      BY <1>0, <2>1, <2>5 DEF Process, RunTypes
    <3>3. worker' \in [Thread -> [pc : PoolLabel, task : Task, run : Nat]]
      BY <2>5, GotoType, Labels DEF Process
    <3>4. failed' \in [Task -> SUBSET Nat]
      <4>1. \/ UNCHANGED failed
            \/ failed' = [failed EXCEPT ![t] = @ \cup {worker[i].run}]
        BY <2>5 DEF Process
      <4>2. failed[t] \cup {worker[i].run} \in SUBSET Nat
        BY <2>1 DEF RunTypes
      <4> QED
        BY <2>1, <4>1, <4>2 DEF RunTypes
    <3> QED
      BY <2>5, <3>1, <3>2, <3>3, <3>4 DEF Process, RunTypes
  <2>6. CASE FinalizeOk(i)
    <3>1. PICK end \in Nat \cup {None} : output' = [output EXCEPT ![t].end = end]
      BY <2>1, <2>6, NumberTypes DEF FinalizeOk, LimiterTypes
    <3>2. output' \in [Task -> [payload : Nat, end : Nat \cup {None}]]
      BY <2>1, <3>1 DEF RunTypes
    <3> QED
      BY <2>6, <3>2, GotoType, Labels DEF FinalizeOk, RunTypes
  <2>7. CASE FinalizeErr(i)
    BY <2>7 DEF FinalizeErr, Goto, RunTypes, PoolLabel
  <2>8. CASE UnlockOutput(i)
    <3>1. Idle \in [pc : PoolLabel, task : Task, run : Nat]
      BY NumberTypes DEF Idle, PoolLabel
    <3> QED
      BY <1>0, <2>1, <2>8, <3>1 DEF UnlockOutput, RunTypes
  <2> QED
    BY <1>3, <2>2, <2>3, <2>4, <2>5, <2>6, <2>7, <2>8 DEF Works, BackgroundRun
<1> QED
  BY <1>0, <1>1, <1>2, <1>3, StepKinds

LEMMA TypeStep == TypeOK /\ [Next]_vars => TypeOK'
BY TypeParts, LimiterStep, LoopStep, StateStep, RunStep
   DEF TypeOK, LimiterTypes, StateTypes, RunTypes, LoopTypes

LEMMA TypeInit == Init => TypeOK
<1> SUFFICES ASSUME Init PROVE TypeOK
  OBVIOUS
<1>1. /\ <<>> \in Seq(Job) /\ <<>> \in Seq(Nat) /\ 0 \in 0..PoolThreads
      /\ Empty \in [payload : Nat, end : Nat \cup {None}]
  BY NumberTypes, EmptySeq DEF Empty
<1>2. Idle \in [pc : PoolLabel, task : Task, run : Nat]
  BY NumberTypes DEF Idle, PoolLabel
<1>3. StateTypes /\ LimiterTypes /\ LoopTypes
  BY NumberTypes DEF Init, AsyncInit, LimiterInit, StateTypes, LimiterTypes,
                     LoopTypes
<1>4. RunTypes
  BY <1>1, <1>2 DEF Init, AsyncInit, RunTypes
<1> QED
  BY <1>3, <1>4, TypeParts

(* Type correctness of the run loop, the limiter and the background runs; a  *)
(* task that is processing has neither a result nor an error waiting.        *)
THEOREM TypeCorrect == Spec => []TypeOK
BY TypeInit, TypeStep, PTL DEF Spec

----------------------------------------------------------------------------
(* One run at a time. *)

\* The parts of OneRunAtATime, of one task.
OneWorker(t) == \A i, j \in Running(t) : i = j
OneClosure(t) == \A k, l \in Queued(t) : k = l
NotBoth(t) == Running(t) = {} \/ Queued(t) = {}
Processing(t) ==
  state[t].processing <=> (Marked(t) \/ Running(t) # {} \/ Queued(t) # {})
MarkedAlone(t) == Marked(t) => Running(t) = {} /\ Queued(t) = {}
OneRun(t) ==
  OneWorker(t) /\ OneClosure(t) /\ NotBoth(t) /\ Processing(t) /\ MarkedAlone(t)

LEMMA OneRunParts == OneRunAtATime <=> \A t \in Task : OneRun(t)
BY DEF OneRunAtATime, OneRun, OneWorker, OneClosure, NotBoth, Processing,
       MarkedAlone

\* A step that leaves the sets of a task's closures alone.
LEMMA OneRunFrame ==
  ASSUME NEW t \in Task, OneRun(t), Running(t)' = Running(t),
         Queued(t)' = Queued(t), Marked(t)' = Marked(t),
         state'[t].processing = state[t].processing
  PROVE  OneRun(t)'
BY DEF OneRun, OneWorker, OneClosure, NotBoth, Processing, MarkedAlone

LEMMA SameWorkers ==
  ASSUME NEW t \in Task, worker' = worker
  PROVE  Running(t)' = Running(t)
BY DEF Running

LEMMA SamePool ==
  ASSUME NEW t \in Task, pool' = pool
  PROVE  Queued(t)' = Queued(t)
BY DEF Queued

\* A closure that goes on with its run.
LEMMA GoesOn ==
  ASSUME RunTypes, NEW t \in Task, NEW i \in Thread, NEW pc \in PoolLabel,
         worker[i].pc \notin {"idle", "finalized"},
         pc \notin {"idle", "finalized"}, Goto(i, pc)
  PROVE  Running(t)' = Running(t)
BY DEF Goto, Running, RunTypes

LEMMA OneRunStep ==
  ASSUME StateTypes, RunTypes, LoopTypes, [Next]_vars, NEW t \in Task, OneRun(t)
  PROVE  OneRun(t)'
<1>0. at \in Task
  BY DEF LoopTypes
<1>1. CASE NotPolling
  <2>1. UNCHANGED <<state, worker, pool>> /\ Marked(t)' = Marked(t)
    BY <1>1 DEF NotPolling, async_vars, Marked
  <2> QED
    BY <2>1, OneRunFrame, SameWorkers, SamePool
<1>2. CASE ReportsError
  <2>1. /\ UNCHANGED <<worker, pool>> /\ Marked(t)' = Marked(t)
        /\ state' = [state EXCEPT ![at].last_error = 0]
    BY <1>2 DEF ReportsError, PollError, Unqueued, Marked
  <2>2. state'[t].processing = state[t].processing
    BY <1>0, <2>1 DEF StateTypes
  <2> QED
    BY <2>1, <2>2, OneRunFrame, SameWorkers, SamePool
<1>3. CASE Marks
  <2>1. /\ UNCHANGED <<worker, pool>> /\ ~state[at].processing
        /\ state' = [state EXCEPT ![at] = marked(@)]
        /\ ~Marked(t) /\ (Marked(t)' <=> at = t)
    BY <1>3 DEF Marks, PollReady, busy, Unqueued, Marked
  <2>2. Running(t)' = Running(t) /\ Queued(t)' = Queued(t)
    BY <2>1, SameWorkers, SamePool
  <2>3. CASE at # t
    <3>1. state'[t].processing = state[t].processing
      BY <1>0, <2>1, <2>3 DEF StateTypes
    <3>2. Marked(t)' = Marked(t)
      BY <1>3, <2>3 DEF Marks, Marked
    <3> QED
      BY <1>3, <2>2, <2>3, <3>1, <3>2, OneRunFrame
  <2>4. CASE at = t
    <3>1. state'[t].processing
      BY <1>0, <2>1, <2>4 DEF marked, StateTypes
    <3>2. Running(t) = {} /\ Queued(t) = {}
      BY <2>1, <2>4 DEF OneRun, Processing
    <3> QED
      BY <2>1, <2>2, <2>4, <3>1, <3>2
         DEF OneRun, OneWorker, OneClosure, NotBoth, Processing, MarkedAlone
  <2> QED
    BY <2>3, <2>4
<1>4. CASE Publishes
  <2>1. /\ UNCHANGED <<state, worker>> /\ ~Marked(t)' /\ (Marked(t) <=> at = t)
        /\ pool' = Append(pool, [task |-> at, run |-> runs[at] + 1])
    BY <1>4 DEF Publishes, Publish, Marked
  <2>2. pool \in Seq(Job) /\ [task |-> at, run |-> runs[at] + 1] \in Job
    BY <1>0 DEF RunTypes, Job
  <2>3. /\ DOMAIN pool = 1..Len(pool) /\ Len(pool) \in Nat
        /\ DOMAIN pool' = 1..(Len(pool) + 1)
        /\ \A k \in 1..Len(pool) : pool'[k] = pool[k]
        /\ pool'[Len(pool) + 1].task = at
    <3>1. Len(pool') = Len(pool) + 1 /\ pool' \in Seq(Job)
      BY <2>1, <2>2, AppendProperties
    <3> QED
      BY <2>1, <2>2, <3>1, AppendProperties, LenProperties
  <2>4. Running(t)' = Running(t)
    BY <2>1, SameWorkers
  <2>5. CASE at # t
    <3>1. Queued(t)' = Queued(t)
      BY <2>3, <2>5 DEF Queued
    <3>2. Marked(t)' = Marked(t)
      BY <2>1, <2>5 DEF Marked
    <3> QED
      BY <2>1, <2>4, <3>1, <3>2, OneRunFrame
  <2>6. CASE at = t
    <3>1. Running(t) = {} /\ Queued(t) = {} /\ state[t].processing
      BY <2>1, <2>6 DEF OneRun, MarkedAlone, Processing
    <3>2. Queued(t)' = {Len(pool) + 1}
      BY <2>3, <2>6, <3>1 DEF Queued
    <3> QED
      BY <2>1, <2>4, <3>1, <3>2
         DEF OneRun, OneWorker, OneClosure, NotBoth, Processing, MarkedAlone
  <2> QED
    BY <2>5, <2>6
<1>5. ASSUME NEW i \in Thread, Works(i) PROVE OneRun(t)'
  <2>1. Marked(t)' = Marked(t)
    BY <1>5 DEF Works, Marked
  <2> DEFINE u == worker[i].task
  <2>2. u \in Task
    BY DEF RunTypes
  <2>3. CASE Take(i)
    <3>1. /\ UNCHANGED state /\ pool # <<>> /\ pool' = Tail(pool)
          /\ worker[i].pc = "idle"
          /\ worker' = [worker EXCEPT ![i] = [pc |-> "queued",
                          task |-> Head(pool).task, run |-> Head(pool).run]]
      BY <2>3 DEF Take, At
    <3>2. /\ DOMAIN pool = 1..Len(pool) /\ Len(pool) \in Nat \ {0}
          /\ DOMAIN pool' = 1..(Len(pool) - 1)
          /\ \A k \in 1..(Len(pool) - 1) : pool'[k] = pool[k + 1]
          /\ Head(pool) = pool[1]
      <4>1. pool \in Seq(Job)
        BY DEF RunTypes
      <4>2. /\ pool' \in Seq(Job) /\ Len(pool') = Len(pool) - 1
            /\ \A k \in 1..Len(pool') : pool'[k] = pool[k + 1]
        BY <3>1, <4>1, HeadTailProperties
      <4> QED
        BY <3>1, <4>1, <4>2, LenProperties, EmptySeq
    <3>3. CASE pool[1].task # t
      <4>1. Running(t)' = Running(t)
        BY <3>1, <3>2, <3>3 DEF Running, RunTypes
      <4>2. Queued(t)' = {k - 1 : k \in Queued(t)}
        BY <3>2, <3>3 DEF Queued
      <4>3. /\ Queued(t)' = {} <=> Queued(t) = {}
            /\ OneClosure(t) => OneClosure(t)'
        BY <4>2 DEF OneClosure
      <4> QED
        BY <2>1, <3>1, <4>1, <4>3
           DEF OneRun, OneWorker, NotBoth, Processing, MarkedAlone
    <3>4. CASE pool[1].task = t
      <4>1. 1 \in Queued(t)
        BY <3>2, <3>4 DEF Queued
      <4>2. Running(t) = {} /\ state[t].processing /\ ~Marked(t)
        BY <4>1 DEF OneRun, NotBoth, Processing, MarkedAlone
      <4>3. Running(t)' = {i}
        BY <3>1, <3>2, <3>4, <4>2 DEF Running, RunTypes
      <4>4. \A k \in Queued(t) : k = 1
        BY <4>1 DEF OneRun, OneClosure
      <4>5. Queued(t)' = {}
        BY <3>2, <4>4 DEF Queued
      <4> QED
        BY <2>1, <3>1, <4>2, <4>3, <4>5
           DEF OneRun, OneWorker, OneClosure, NotBoth, Processing, MarkedAlone
    <3> QED
      BY <3>3, <3>4
  <2>4. CASE LockOutput(i) \/ LockTask(i) \/ Process(i)
    <3>1. UNCHANGED <<state, pool>>
      BY <2>4 DEF LockOutput, LockTask, Process
    <3>2. Running(t)' = Running(t)
      BY <2>4, GoesOn, Labels DEF LockOutput, LockTask, Process, At
    <3> QED
      BY <2>1, <3>1, <3>2, OneRunFrame, SamePool
  <2>5. CASE UnlockOutput(i)
    <3>1. UNCHANGED <<state, pool>>
      BY <2>5 DEF UnlockOutput
    <3>2. Running(t)' = Running(t)
      BY <2>5 DEF UnlockOutput, At, Running, Idle, RunTypes
    <3> QED
      BY <2>1, <3>1, <3>2, OneRunFrame, SamePool
  <2>6. CASE FinalizeOk(i) \/ FinalizeErr(i)
    <3>1. /\ Goto(i, "finalized") /\ UNCHANGED pool
          /\ worker[i].pc \in {"ok", "err"}
          /\ \A v \in Task : state'[v].processing =
               IF v = u THEN FALSE ELSE state[v].processing
      <4>1. CASE FinalizeOk(i)
        <5>1. PICK end : state' = [state EXCEPT ![u].processing = FALSE,
                                                ![u].ready_at = end]
          BY <4>1 DEF FinalizeOk
        <5>2. ASSUME NEW v \in Task
              PROVE  state'[v].processing =
                       IF v = u THEN FALSE ELSE state[v].processing
          BY <2>2, <5>1 DEF StateTypes
        <5> QED
          BY <4>1, <5>2 DEF FinalizeOk, At
      <4>2. CASE FinalizeErr(i)
        BY <2>2, <4>2 DEF FinalizeErr, At, after_error, StateTypes
      <4> QED
        BY <2>6, <4>1, <4>2
    <3>2. Queued(t)' = Queued(t)
      BY <3>1, SamePool
    <3>3. CASE u # t
      <4>1. Running(t)' = Running(t)
        BY <3>1, <3>3 DEF Goto, Running, RunTypes
      <4> QED
        BY <2>1, <3>1, <3>2, <3>3, <4>1, OneRunFrame
    <3>4. CASE u = t
      <4>1. i \in Running(t)
        BY <3>1, <3>4 DEF Running
      <4>2. Queued(t) = {} /\ ~Marked(t) /\ \A j \in Running(t) : j = i
        BY <4>1 DEF OneRun, NotBoth, MarkedAlone, OneWorker
      <4>3. Running(t)' = {}
        BY <3>1, <4>2 DEF Goto, Running, RunTypes
      <4> QED
        BY <2>1, <3>1, <3>2, <3>4, <4>2, <4>3
           DEF OneRun, OneWorker, OneClosure, NotBoth, Processing, MarkedAlone
    <3> QED
      BY <3>3, <3>4
  <2> QED
    BY <1>5, <2>3, <2>4, <2>5, <2>6 DEF Works, BackgroundRun
<1> QED
  BY <1>0, <1>1, <1>2, <1>3, <1>4, <1>5, StepKinds

(* However polls, the threads of the pool and calls of run() interleave, a   *)
(* task has one run at a time, and is marked exactly while it has.           *)
THEOREM OneRunCorrect == Spec => []OneRunAtATime
<1>1. Init => OneRunAtATime
  BY DEF Init, AsyncInit, Idle, OneRunAtATime, Running, Queued, Marked
<1>2. TypeOK /\ OneRunAtATime /\ [Next]_vars => OneRunAtATime'
  <2> SUFFICES ASSUME TypeOK, OneRunAtATime, [Next]_vars
               PROVE  \A t \in Task : OneRun(t)'
    BY DEF OneRunAtATime, OneRun, OneWorker, OneClosure, NotBoth, Processing,
           MarkedAlone
  <2> QED
    BY TypeParts, OneRunParts, OneRunStep
<1> QED
  BY <1>1, <1>2, TypeCorrect, PTL DEF Spec

----------------------------------------------------------------------------
(* Who holds the buffered output of a task. *)

Holding == {"cleared", "process", "ok", "err", "finalized"}

HolderOf(t) ==
  out_lock[t] # 0 => /\ out_lock[t] \in Thread
                     /\ worker[out_lock[t]].task = t
                     /\ worker[out_lock[t]].pc \in Holding
HeldBy(i) == worker[i].pc \in Holding => out_lock[worker[i].task] = i
LockInv == (\A t \in Task : HolderOf(t)) /\ (\A i \in Thread : HeldBy(i))

\* A thread keeps its lock while it goes on with its run.
LEMMA KeepsLock ==
  ASSUME RunTypes, LockInv, NEW i \in Thread, NEW pc \in Holding,
         worker[i].pc \in Holding, Goto(i, pc), UNCHANGED out_lock
  PROVE  LockInv'
BY DEF LockInv, HolderOf, HeldBy, Goto, RunTypes

LEMMA LockStep ==
  ASSUME RunTypes, LoopTypes, [Next]_vars, LockInv
  PROVE  LockInv'
<1>1. CASE UNCHANGED <<out_lock, worker>>
  BY <1>1 DEF LockInv, HolderOf, HeldBy
<1>2. ASSUME NEW i \in Thread, Works(i) PROVE LockInv'
  <2> DEFINE u == worker[i].task
  <2>1. u \in Task /\ i # 0
    BY NumberTypes DEF RunTypes, Thread
  <2>2. CASE Take(i)
    <3>1. /\ UNCHANGED out_lock /\ worker[i].pc = "idle"
          /\ \E t, r : worker' = [worker EXCEPT ![i] =
                                   [pc |-> "queued", task |-> t, run |-> r]]
      BY <2>2 DEF Take, At
    <3> QED
      BY <3>1 DEF LockInv, HolderOf, HeldBy, Holding, RunTypes
  <2>3. CASE LockOutput(i)
    <3>1. /\ out_lock[u] = 0 /\ out_lock' = [out_lock EXCEPT ![u] = i]
          /\ worker[i].pc = "queued" /\ Goto(i, "cleared")
      BY <2>3 DEF LockOutput, At
    <3>2. /\ \A t \in Task : out_lock'[t] = IF t = u THEN i ELSE out_lock[t]
          /\ \A j \in Thread : /\ worker'[j].task = worker[j].task
                               /\ worker'[j].pc = IF j = i THEN "cleared"
                                                 ELSE worker[j].pc
      BY <2>1, <3>1 DEF Goto, RunTypes
    <3>3. \A t \in Task : HolderOf(t)'
      BY <2>1, <3>1, <3>2 DEF LockInv, HolderOf, Holding
    <3>4. ASSUME NEW j \in Thread PROVE HeldBy(j)'
      <4>1. worker[j].task \in Task
        BY DEF RunTypes
      <4>2. j # 0
        BY NumberTypes DEF Thread
      <4> QED
        BY <2>1, <3>1, <3>2, <4>1, <4>2 DEF LockInv, HeldBy, Holding
    <3> QED
      BY <3>3, <3>4 DEF LockInv
  <2>4. CASE LockTask(i)
    BY <2>4, KeepsLock DEF LockTask, At, Holding
  <2>5. CASE Process(i)
    BY <2>5, KeepsLock DEF Process, At, Holding
  <2>6. CASE FinalizeOk(i)
    <3>1. Goto(i, "finalized") /\ At(i, "ok") /\ UNCHANGED out_lock
      BY <2>6 DEF FinalizeOk
    <3> QED
      BY <3>1, KeepsLock DEF At, Holding
  <2>7. CASE FinalizeErr(i)
    BY <2>7, KeepsLock DEF FinalizeErr, At, Holding
  <2>8. CASE UnlockOutput(i)
    <3>1. /\ worker[i].pc = "finalized" /\ out_lock' = [out_lock EXCEPT ![u] = 0]
          /\ worker' = [worker EXCEPT ![i] = Idle]
      BY <2>8 DEF UnlockOutput, At
    <3>2. out_lock[u] = i
      BY <3>1 DEF LockInv, HeldBy, Holding
    <3>3. \A t \in Task : t # u => out_lock[t] # i
      BY <2>1 DEF LockInv, HolderOf
    <3>4. /\ \A t \in Task : out_lock'[t] = IF t = u THEN 0 ELSE out_lock[t]
          /\ \A j \in Thread : j # i => worker'[j] = worker[j]
          /\ worker'[i].pc = "idle"
      BY <2>1, <3>1 DEF Idle, RunTypes
    <3>5. \A t \in Task : HolderOf(t)'
      BY <2>1, <3>3, <3>4 DEF LockInv, HolderOf
    <3>6. ASSUME NEW j \in Thread PROVE HeldBy(j)'
      <4>1. worker[j].task \in Task
        BY DEF RunTypes
      <4>2. worker[j].task = u /\ worker[j].pc \in Holding => j = i
        BY <3>2 DEF LockInv, HeldBy
      <4> QED
        BY <3>4, <4>1, <4>2 DEF LockInv, HeldBy, Holding
    <3> QED
      BY <3>5, <3>6 DEF LockInv
  <2> QED
    BY <1>2, <2>2, <2>3, <2>4, <2>5, <2>6, <2>7, <2>8 DEF Works, BackgroundRun
<1>3. at \in Task
  BY DEF LoopTypes
<1> QED
  BY <1>1, <1>2, <1>3, StepKinds
     DEF NotPolling, ReportsError, Marks, Publishes, Publish, Unqueued, async_vars

LEMMA LockCorrect == Spec => []LockInv
<1>1. Init => LockInv
  BY DEF Init, AsyncInit, Idle, LockInv, HolderOf, HeldBy, Holding
<1>2. TypeOK /\ LockInv /\ [Next]_vars => LockInv'
  BY TypeParts, LockStep
<1> QED
  BY <1>1, <1>2, TypeCorrect, PTL DEF Spec

(* The run loop's copy of a result waits for nothing but an unlock: a run of *)
(* the task can only be over when its poll was let through.                  *)
THEOREM PollsNeverWait == Spec => []PollNeverWaits
<1>1. OneRunAtATime /\ LockInv => PollNeverWaits
  BY DEF OneRunAtATime, LockInv, HolderOf, PollNeverWaits, Running, Holding
<1> QED
  BY <1>1, OneRunCorrect, LockCorrect, PTL

----------------------------------------------------------------------------
(* What the buffered output holds. *)

Unfinished(i) == worker[i].pc \notin {"idle", "finalized"}

\* Closures that were queued are the newest run of their task, and that has
\* failed exactly when its closure says so.
PoolRun(k) ==
  /\ pool[k].run = runs[pool[k].task] /\ pool[k].run # 0
  /\ pool[k].run \notin failed[pool[k].task]
WorkerRun(i) ==
  Unfinished(i) =>
    /\ worker[i].run = runs[worker[i].task] /\ worker[i].run # 0
    /\ worker[i].pc = "err" <=> worker[i].run \in failed[worker[i].task]
FailedRuns(t) == failed[t] \subseteq 0..runs[t]
RunInv ==
  /\ \A k \in DOMAIN pool : PoolRun(k)
  /\ \A i \in Thread : WorkerRun(i)
  /\ \A t \in Task : FailedRuns(t)

LEMMA PoolJobs ==
  ASSUME RunTypes, NEW k \in DOMAIN pool
  PROVE  pool[k].task \in Task /\ pool[k].run \in Nat
<1>1. pool[k] \in Job
  BY ElementOfSeq, LenProperties DEF RunTypes
<1> QED
  BY <1>1 DEF Job

LEMMA RunInvStep ==
  ASSUME RunTypes, LoopTypes, OneRunAtATime, RunInv, [Next]_vars
  PROVE  RunInv'
<1>0. at \in Task /\ \A t \in Task : OneRun(t)
  BY OneRunParts DEF LoopTypes
<1>1. CASE UNCHANGED <<pool, worker, runs, failed>>
  BY <1>1 DEF RunInv, PoolRun, WorkerRun, Unfinished, FailedRuns
<1>2. CASE Publishes
  <2> DEFINE job == [task |-> at, run |-> runs[at] + 1]
  <2>1. /\ UNCHANGED <<worker, failed>> /\ Marked(at)
        /\ pool' = Append(pool, job) /\ runs' = [runs EXCEPT ![at] = @ + 1]
    BY <1>2 DEF Publishes, Publish, Marked
  <2>2. Running(at) = {} /\ Queued(at) = {}
    BY <1>0, <2>1 DEF OneRun, MarkedAlone
  <2>3. job \in Job /\ runs[at] \in Nat /\ failed[at] \subseteq 0..runs[at]
    BY <1>0 DEF Job, RunTypes, RunInv, FailedRuns
  <2>4. /\ DOMAIN pool' = 1..(Len(pool) + 1) /\ DOMAIN pool = 1..Len(pool)
        /\ Len(pool) \in Nat /\ pool'[Len(pool) + 1] = job
        /\ \A k \in DOMAIN pool : pool'[k] = pool[k]
    <3>1. pool \in Seq(Job) /\ pool' \in Seq(Job) /\ Len(pool') = Len(pool) + 1
      BY <2>1, <2>3, AppendProperties DEF RunTypes
    <3> QED
      BY <2>1, <2>3, <3>1, AppendProperties, LenProperties
  <2>5. \A t \in Task : runs'[t] = IF t = at THEN runs[t] + 1 ELSE runs[t]
    BY <1>0, <2>1 DEF RunTypes
  <2>6. ASSUME NEW k \in DOMAIN pool' PROVE PoolRun(k)'
    <3>1. CASE k \in DOMAIN pool
      <4>1. pool[k].task \in Task /\ pool[k].task # at
        BY <2>2, <3>1, PoolJobs DEF Queued
      <4> QED
        BY <2>1, <2>4, <2>5, <3>1, <4>1 DEF RunInv, PoolRun
    <3>2. CASE k = Len(pool) + 1
      <4>1. runs[at] + 1 \notin failed[at] /\ runs[at] + 1 # 0
        BY <2>3
      <4> QED
        BY <1>0, <2>1, <2>4, <2>5, <3>2, <4>1 DEF PoolRun
    <3> QED
      BY <2>4, <3>1, <3>2
  <2>7. ASSUME NEW i \in Thread PROVE WorkerRun(i)'
    <3>1. worker[i].task \in Task /\ (Unfinished(i) => worker[i].task # at)
      BY <2>2 DEF Running, Unfinished, RunTypes
    <3> QED
      BY <2>1, <2>5, <3>1 DEF RunInv, WorkerRun, Unfinished
  <2>8. ASSUME NEW t \in Task PROVE FailedRuns(t)'
    <3>1. failed[t] \subseteq 0..runs[t] /\ runs[t] \in Nat
      BY DEF RunInv, FailedRuns, RunTypes
    <3>2. 0..runs[t] \subseteq 0..(runs[t] + 1)
      BY <3>1
    <3> QED
      BY <2>1, <2>5, <3>1, <3>2 DEF FailedRuns
  <2> QED
    BY <2>6, <2>7, <2>8 DEF RunInv
<1>3. ASSUME NEW i \in Thread, Works(i) PROVE RunInv'
  <2> DEFINE u == worker[i].task
  <2>1. u \in Task /\ worker[i].run \in Nat
    BY DEF RunTypes
  <2>2. CASE Take(i)
    <3>1. /\ UNCHANGED <<runs, failed>> /\ pool # <<>> /\ pool' = Tail(pool)
          /\ worker' = [worker EXCEPT ![i] = [pc |-> "queued",
                          task |-> Head(pool).task, run |-> Head(pool).run]]
      BY <2>2 DEF Take, At
    <3>2. /\ 1 \in DOMAIN pool /\ Head(pool) = pool[1]
          /\ \A k \in DOMAIN pool' : k + 1 \in DOMAIN pool /\ pool'[k] = pool[k + 1]
      <4>1. pool \in Seq(Job)
        BY DEF RunTypes
      <4>2. /\ pool' \in Seq(Job) /\ Len(pool') = Len(pool) - 1
            /\ \A k \in 1..Len(pool') : pool'[k] = pool[k + 1]
        BY <3>1, <4>1, HeadTailProperties
      <4> QED
        BY <3>1, <4>1, <4>2, LenProperties, EmptySeq
    <3>3. \A k \in DOMAIN pool' : PoolRun(k)'
      BY <3>1, <3>2 DEF RunInv, PoolRun
    <3>4. ASSUME NEW j \in Thread PROVE WorkerRun(j)'
      <4>1. CASE j # i
        BY <3>1, <4>1 DEF RunInv, WorkerRun, Unfinished, RunTypes
      <4>2. CASE j = i
        <5>1. PoolRun(1)
          BY <3>2 DEF RunInv
        <5>2. worker'[j] = [pc |-> "queued", task |-> pool[1].task,
                            run |-> pool[1].run]
          BY <3>1, <3>2, <4>2 DEF RunTypes
        <5> QED
          BY <3>1, <5>1, <5>2 DEF WorkerRun, Unfinished, PoolRun
      <4> QED
        BY <4>1, <4>2
    <3> QED
      BY <3>1, <3>3, <3>4 DEF RunInv, FailedRuns
  <2>3. CASE LockOutput(i) \/ LockTask(i) \/ FinalizeOk(i) \/ FinalizeErr(i)
    <3>1. /\ UNCHANGED <<pool, runs, failed>>
          /\ worker[i].pc \in {"queued", "cleared", "ok", "err"}
          /\ Goto(i, "cleared") \/ Goto(i, "process") \/ Goto(i, "finalized")
      BY <2>3 DEF LockOutput, LockTask, FinalizeOk, FinalizeErr, At
    <3>2. Goto(i, "cleared") \/ Goto(i, "process") => worker[i].pc # "err"
      BY <2>3 DEF LockOutput, LockTask, FinalizeOk, FinalizeErr, At, Goto, RunTypes
    <3>3. ASSUME NEW j \in Thread PROVE WorkerRun(j)'
      <4>1. CASE j # i
        BY <3>1, <4>1 DEF RunInv, WorkerRun, Unfinished, Goto, RunTypes
      <4>2. CASE j = i
        <5>1. /\ worker'[i].task = u /\ worker'[i].run = worker[i].run
              /\ WorkerRun(i)
          BY <3>1 DEF RunInv, Goto, RunTypes
        <5>2. CASE Goto(i, "finalized")
          BY <4>2, <5>2 DEF WorkerRun, Unfinished, Goto, RunTypes
        <5>3. CASE Goto(i, "cleared") \/ Goto(i, "process")
          <6>1. worker[i].pc # "err" /\ worker'[i].pc # "err"
            BY <3>2, <5>3 DEF Goto, RunTypes
          <6> QED
            BY <3>1, <4>2, <5>1, <6>1 DEF WorkerRun, Unfinished
        <5> QED
          BY <3>1, <5>2, <5>3
      <4> QED
        BY <4>1, <4>2
    <3> QED
      BY <3>1, <3>3 DEF RunInv, PoolRun, FailedRuns
  <2>4. CASE UnlockOutput(i)
    <3>1. /\ UNCHANGED <<pool, runs, failed>>
          /\ worker' = [worker EXCEPT ![i] = Idle]
      BY <2>4 DEF UnlockOutput
    <3>2. \A j \in Thread : WorkerRun(j)'
      BY <3>1 DEF RunInv, WorkerRun, Unfinished, Idle, RunTypes
    <3> QED
      BY <3>1, <3>2 DEF RunInv, PoolRun, FailedRuns
  <2>5. CASE Process(i)
    <3>1. /\ UNCHANGED <<pool, runs>> /\ worker[i].pc = "process"
          /\ \/ Goto(i, "ok") /\ UNCHANGED failed
             \/ /\ Goto(i, "err")
                /\ failed' = [failed EXCEPT ![u] = @ \cup {worker[i].run}]
      BY <2>5 DEF Process, At
    <3>2. /\ worker[i].run = runs[u] /\ worker[i].run \notin failed[u]
          /\ worker[i].run # 0
      BY <3>1 DEF RunInv, WorkerRun, Unfinished
    <3>3. i \in Running(u)
      BY <3>1 DEF Running
    <3>4. Queued(u) = {} /\ \A j \in Running(u) : j = i
      BY <1>0, <2>1, <3>3 DEF OneRun, NotBoth, OneWorker
    <3>5. \A t \in Task : t # u => failed'[t] = failed[t]
      BY <2>1, <3>1 DEF RunTypes
    <3>6. ASSUME NEW k \in DOMAIN pool PROVE PoolRun(k)'
      <4>1. pool[k].task \in Task /\ pool[k].task # u
        BY <3>4, PoolJobs DEF Queued
      <4> QED
        BY <3>1, <3>5, <4>1 DEF RunInv, PoolRun
    <3>7. ASSUME NEW j \in Thread PROVE WorkerRun(j)'
      <4>1. CASE j = i
        <5>1. worker'[i].task = u /\ worker'[i].run = worker[i].run
          BY <3>1 DEF Goto, RunTypes
        <5>2. CASE Goto(i, "ok") /\ UNCHANGED failed
          <6>1. worker'[i].pc = "ok"
            BY <5>2 DEF Goto, RunTypes
          <6> QED
            BY <3>1, <3>2, <4>1, <5>1, <5>2, <6>1 DEF WorkerRun
        <5>3. CASE Goto(i, "err")
                   /\ failed' = [failed EXCEPT ![u] = @ \cup {worker[i].run}]
          <6>1. worker'[i].pc = "err" /\ worker[i].run \in failed'[u]
            BY <2>1, <5>3 DEF Goto, RunTypes
          <6> QED
            BY <3>1, <3>2, <4>1, <5>1, <6>1 DEF WorkerRun
        <5> QED
          BY <3>1, <5>2, <5>3
      <4>2. CASE j # i
        <5>1. worker'[j] = worker[j] /\ worker[j].task \in Task
          BY <3>1, <4>2 DEF Goto, RunTypes
        <5>2. Unfinished(j) => worker[j].task # u
          BY <3>4, <4>2 DEF Running, Unfinished
        <5> QED
          BY <3>1, <3>5, <5>1, <5>2 DEF RunInv, WorkerRun, Unfinished
      <4> QED
        BY <4>1, <4>2
    <3>8. ASSUME NEW t \in Task PROVE FailedRuns(t)'
      <4>1. failed[t] \subseteq 0..runs[t] /\ runs[t] \in Nat
        BY DEF RunInv, FailedRuns, RunTypes
      <4>2. CASE t # u
        BY <3>1, <3>5, <4>1, <4>2 DEF FailedRuns
      <4>3. CASE t = u
        <5>1. failed'[u] \subseteq failed[u] \cup {runs[u]}
          BY <2>1, <3>1, <3>2 DEF RunTypes
        <5>2. runs[u] \in 0..runs[u]
          BY <4>1, <4>3
        <5> QED
          BY <3>1, <4>1, <4>3, <5>1, <5>2 DEF FailedRuns
      <4> QED
        BY <4>2, <4>3
    <3> QED
      BY <3>1, <3>6, <3>7, <3>8 DEF RunInv
  <2> QED
    BY <1>3, <2>2, <2>3, <2>4, <2>5 DEF Works, BackgroundRun
<1> QED
  BY <1>0, <1>1, <1>2, <1>3, StepKinds
     DEF NotPolling, ReportsError, Marks, Unqueued, async_vars

LEMMA RunsCorrect == Spec => []RunInv
<1>1. Init => RunInv
  BY DEF Init, AsyncInit, Idle, RunInv, PoolRun, WorkerRun, Unfinished, FailedRuns
<1>2. TypeOK /\ OneRunAtATime /\ RunInv /\ [Next]_vars => RunInv'
  BY TypeParts, RunInvStep
<1> QED
  BY <1>1, <1>2, TypeCorrect, OneRunCorrect, PTL DEF Spec

\* Until the closure clears it, the output is that of the run before.
Before(t) == Queued(t) # {} \/ \E i \in Running(t) : worker[i].pc = "queued"
OutputOf(t) == Before(t) \/ output[t].payload \in {0, runs[t]}
ClearedBy(i) ==
  worker[i].pc \in {"cleared", "process"} => output[worker[i].task].payload = 0
ErrorOf(t) == state[t].last_error # 0 => runs[t] \in failed[t]
OutputInv ==
  /\ \A t \in Task : OutputOf(t)
  /\ \A i \in Thread : ClearedBy(i)
  /\ \A t \in Task : ErrorOf(t)

LEMMA OutputInvStep ==
  ASSUME StateTypes, RunTypes, LoopTypes, OneRunAtATime, RunInv, OutputInv,
         [Next]_vars
  PROVE  OutputInv'
<1>0. at \in Task /\ \A t \in Task : OneRun(t)
  BY OneRunParts DEF LoopTypes
<1>1. CASE NotPolling \/ ReportsError \/ Marks
  <2>1. UNCHANGED <<output, pool, worker, runs, failed>>
    BY <1>1 DEF NotPolling, ReportsError, Marks, Unqueued, async_vars
  <2>2. ASSUME NEW t \in Task
        PROVE  state'[t].last_error # 0 => state[t].last_error # 0
    BY <1>0, <1>1 DEF NotPolling, ReportsError, PollError, Marks, PollReady,
                      marked, async_vars, StateTypes
  <2> QED
    BY <2>1, <2>2 DEF OutputInv, OutputOf, Before, Queued, Running, ClearedBy,
                      ErrorOf
<1>2. CASE Publishes
  <2> DEFINE job == [task |-> at, run |-> runs[at] + 1]
  <2>1. /\ UNCHANGED <<state, output, worker, failed>> /\ Marked(at)
        /\ pool' = Append(pool, job) /\ runs' = [runs EXCEPT ![at] = @ + 1]
    BY <1>2 DEF Publishes, Publish, Marked
  <2>2. job \in Job
    BY <1>0 DEF Job, RunTypes
  <2>3. /\ Len(pool) + 1 \in DOMAIN pool' /\ pool'[Len(pool) + 1] = job
        /\ \A k \in DOMAIN pool : k \in DOMAIN pool' /\ pool'[k] = pool[k]
    <3>1. pool \in Seq(Job) /\ pool' \in Seq(Job) /\ Len(pool') = Len(pool) + 1
      BY <2>1, <2>2, AppendProperties DEF RunTypes
    <3> QED
      BY <2>1, <2>2, <3>1, AppendProperties, LenProperties
  <2>4. \A t \in Task : t # at => runs'[t] = runs[t]
    BY <1>0, <2>1 DEF RunTypes
  <2>5. ASSUME NEW t \in Task PROVE OutputOf(t)'
    <3>1. CASE t = at
      BY <2>3, <3>1 DEF OutputOf, Before, Queued
    <3>2. CASE t # at
      <4>1. Before(t) => Before(t)'
        BY <2>1, <2>3 DEF Before, Queued, Running
      <4> QED
        BY <2>1, <2>4, <3>2, <4>1 DEF OutputInv, OutputOf
    <3> QED
      BY <3>1, <3>2
  <2>6. state[at].last_error = 0
    BY <1>0, <2>1 DEF OneRun, Processing, StateTypes
  <2> QED
    BY <2>1, <2>4, <2>5, <2>6 DEF OutputInv, ClearedBy, ErrorOf
<1>3. ASSUME NEW i \in Thread, Works(i) PROVE OutputInv'
  <2>1. PICK u \in Task : u = worker[i].task
    BY DEF RunTypes
  <2>2. CASE Take(i)
    <3>1. /\ UNCHANGED <<state, output, runs, failed>> /\ pool # <<>>
          /\ pool' = Tail(pool) /\ worker[i].pc = "idle"
          /\ worker' = [worker EXCEPT ![i] = [pc |-> "queued",
                          task |-> Head(pool).task, run |-> Head(pool).run]]
      BY <2>2 DEF Take, At
    <3>2. /\ \A k \in DOMAIN pool : k # 1 => /\ k - 1 \in DOMAIN pool'
                                             /\ pool'[k - 1] = pool[k]
          /\ Head(pool) = pool[1]
      <4>1. pool \in Seq(Job)
        BY DEF RunTypes
      <4>2. /\ pool' \in Seq(Job) /\ Len(pool') = Len(pool) - 1
            /\ \A k \in 1..Len(pool') : pool'[k] = pool[k + 1]
        BY <3>1, <4>1, HeadTailProperties
      <4>3. DOMAIN pool = 1..Len(pool) /\ DOMAIN pool' = 1..(Len(pool) - 1)
            /\ Len(pool) \in Nat
        BY <4>1, <4>2, LenProperties
      <4> QED
        BY <4>2, <4>3
    <3>3. /\ \A j \in Thread : j # i => worker'[j] = worker[j]
          /\ worker'[i].pc = "queued" /\ worker'[i].task = pool[1].task
      BY <3>1, <3>2 DEF RunTypes
    <3>4. ASSUME NEW t \in Task, Before(t) PROVE Before(t)'
      <4>1. CASE pool[1].task = t
        BY <3>3, <4>1 DEF Before, Running
      <4>2. ASSUME NEW k \in Queued(t), pool[1].task # t PROVE Before(t)'
        BY <3>2, <4>2 DEF Before, Queued
      <4>3. ASSUME NEW j \in Running(t), worker[j].pc = "queued" PROVE Before(t)'
        BY <3>1, <3>3, <4>3 DEF Before, Running
      <4> QED
        BY <3>4, <4>1, <4>2, <4>3 DEF Before
    <3> QED
      BY <3>1, <3>3, <3>4 DEF OutputInv, OutputOf, ClearedBy, ErrorOf
  <2>3. CASE ~Take(i)
    <3>1. /\ UNCHANGED <<pool, runs>>
          /\ \A j \in Thread : j # i => worker'[j] = worker[j]
      BY <1>3, <2>3 DEF Works, BackgroundRun, LockOutput, LockTask, Process,
            FinalizeOk, FinalizeErr, UnlockOutput, Goto, RunTypes
    <3>2. CASE UnlockOutput(i)
      <4>1. /\ UNCHANGED <<state, output, failed>> /\ worker[i].pc = "finalized"
            /\ worker'[i].pc = "idle"
        BY <3>2 DEF UnlockOutput, At, Idle, RunTypes
      <4>2. \A t \in Task : Before(t)' = Before(t)
        BY <3>1, <4>1 DEF Before, Queued, Running
      <4> QED
        BY <3>1, <4>1, <4>2 DEF OutputInv, OutputOf, ClearedBy, ErrorOf
    <3>3. CASE ~UnlockOutput(i)
      <4>1. /\ worker'[i].task = u /\ i \in Running(u)
            /\ worker[i].pc \in {"queued", "cleared", "process", "ok", "err"}
            /\ worker'[i].pc # "queued"
        BY <1>3, <2>3, <2>1, <3>3 DEF Works, BackgroundRun, LockOutput, LockTask,
              Process, FinalizeOk, FinalizeErr, At, Goto, Running, RunTypes
      <4>2. /\ \A j \in Running(u) : j = i
            /\ Queued(u) = {} /\ state[u].last_error = 0
        BY <1>0, <2>1, <4>1 DEF OneRun, OneWorker, NotBoth, Processing, StateTypes
      <4>3. ASSUME NEW t \in Task, t # u PROVE Before(t)' = Before(t)
        BY <2>1, <3>1, <4>1, <4>3 DEF Before, Queued, Running
      <4>4. ASSUME NEW t \in Task, t # u
            PROVE  /\ output'[t] = output[t] /\ failed'[t] = failed[t]
                   /\ state'[t].last_error = state[t].last_error
        BY <1>3, <2>1, <2>3, <3>3, <4>4
           DEF Works, BackgroundRun, LockOutput, LockTask, Process, FinalizeOk,
               FinalizeErr, RunTypes, StateTypes
      <4>5. ASSUME NEW t \in Task, t # u PROVE OutputOf(t)' /\ ErrorOf(t)'
        BY <3>1, <4>3, <4>4, <4>5 DEF OutputInv, OutputOf, ErrorOf
      <4>6. ASSUME NEW j \in Thread, j # i PROVE ClearedBy(j)'
        <5>1. worker[j].task \in Task
              /\ (worker[j].pc \in {"cleared", "process"} => worker[j].task # u)
          BY <2>1, <4>2, <4>6 DEF Running, RunTypes
        <5> QED
          BY <3>1, <4>4, <4>6, <5>1 DEF OutputInv, ClearedBy
      <4>7. OutputOf(u)' /\ ClearedBy(i)' /\ ErrorOf(u)'
        <5>1. /\ output[u].payload \in {0, runs[u]} \/ worker[i].pc = "queued"
              /\ ClearedBy(i) /\ WorkerRun(i)
          BY <2>1, <4>2 DEF OutputInv, OutputOf, Before, RunInv
        <5>2. CASE LockOutput(i)
          <6>1. /\ UNCHANGED state /\ output'[u].payload = 0
            BY <2>1, <5>2 DEF LockOutput, cleared, Empty, RunTypes
          <6> QED
            BY <3>1, <4>1, <4>2, <6>1 DEF OutputOf, ClearedBy, ErrorOf
        <5>3. CASE LockTask(i)
          <6>1. UNCHANGED <<state, output>> /\ worker[i].pc = "cleared"
            BY <5>3 DEF LockTask, At
          <6>2. output[u].payload = 0
            BY <2>1, <5>1, <6>1 DEF ClearedBy
          <6> QED
            BY <3>1, <4>1, <4>2, <6>1, <6>2 DEF OutputOf, ClearedBy, ErrorOf
        <5>4. CASE Process(i)
          <6>1. /\ UNCHANGED state /\ worker[i].pc = "process"
                /\ worker'[i].pc \in {"ok", "err"}
                /\ output'[u].payload \in {output[u].payload, worker[i].run}
            BY <2>1, <5>4 DEF Process, At, Goto, RunTypes
          <6>2. output[u].payload = 0 /\ worker[i].run = runs[u]
            BY <2>1, <5>1, <6>1 DEF ClearedBy, WorkerRun, Unfinished
          <6> QED
            BY <3>1, <4>2, <6>1, <6>2 DEF OutputOf, ClearedBy, ErrorOf
        <5>5. CASE FinalizeOk(i)
          <6>1. /\ worker[i].pc = "ok" /\ worker'[i].pc = "finalized"
                /\ output'[u].payload = output[u].payload
            BY <2>1, <5>5 DEF FinalizeOk, At, Goto, RunTypes
          <6>2. state'[u].last_error = state[u].last_error
            BY <2>1, <5>5 DEF FinalizeOk, StateTypes
          <6> QED
            BY <3>1, <4>2, <5>1, <6>1, <6>2 DEF OutputOf, ClearedBy, ErrorOf
        <5>6. CASE FinalizeErr(i)
          <6>1. /\ worker[i].pc = "err" /\ worker'[i].pc = "finalized"
                /\ UNCHANGED <<output, failed>>
            BY <5>6 DEF FinalizeErr, At, Goto, RunTypes
          <6>2. runs[u] \in failed[u]
            BY <2>1, <5>1, <6>1 DEF WorkerRun, Unfinished
          <6> QED
            BY <3>1, <4>2, <5>1, <6>1, <6>2 DEF OutputOf, ClearedBy, ErrorOf
        <5> QED
          BY <1>3, <2>3, <3>3, <5>2, <5>3, <5>4, <5>5, <5>6
             DEF Works, BackgroundRun
      <4>8. \A t \in Task : OutputOf(t)' /\ ErrorOf(t)'
        BY <4>5, <4>7
      <4>9. \A j \in Thread : ClearedBy(j)'
        BY <4>6, <4>7
      <4> QED
        BY <4>8, <4>9 DEF OutputInv
    <3> QED
      BY <3>2, <3>3
  <2> QED
    BY <2>2, <2>3
<1> QED
  BY <1>0, <1>1, <1>2, <1>3, StepKinds

LEMMA OutputCorrect == Spec => []OutputInv
<1>1. Init => OutputInv
  BY DEF Init, AsyncInit, Empty, Idle, OutputInv, OutputOf, ClearedBy, ErrorOf
<1>2. /\ TypeOK /\ OneRunAtATime /\ RunInv /\ OutputInv /\ [Next]_vars
      => OutputInv'
  BY TypeParts, OutputInvStep
<1> QED
  BY <1>1, <1>2, TypeCorrect, OneRunCorrect, RunsCorrect, PTL DEF Spec

----------------------------------------------------------------------------
(* Background tasks are one-slot tasks. *)

LEMMA SlotSame ==
  ASSUME NEW t \in Task, Marked(t)' = Marked(t), state'[t] = state[t],
         output'[t] = output[t], failed'[t] = failed[t]
  PROVE  SlotOf(t)' = SlotOf(t)
BY DEF SlotOf, Content

\* While a task runs its slot shows nothing else.
LEMMA SlotRunning ==
  ASSUME NEW t \in Task, state[t].processing, ~Marked(t)
  PROVE  SlotOf(t) = "running"
BY DEF SlotOf

LEMMA SlotStep ==
  ASSUME StateTypes, RunTypes, LoopTypes, OneRunAtATime, RunInv, OutputInv,
         [Next]_vars
  PROVE  [OS!OSNext]_(OS!os_vars)
<1>0. at \in Task /\ \A t \in Task : OneRun(t)
  BY OneRunParts DEF LoopTypes
<1>1. CASE NotPolling
  <2>1. \A t \in Task : SlotOf(t)' = SlotOf(t)
    BY <1>1, SlotSame DEF NotPolling, async_vars, Marked
  <2> QED
    BY <1>1, <2>1 DEF NotPolling, async_vars, OS!os_vars
<1>2. CASE ReportsError
  <2>1. /\ UNCHANGED <<output, runs, failed, published>> /\ ~Marked(at)
        /\ ~Marked(at)' /\ state[at].last_error # 0
        /\ state' = [state EXCEPT ![at].last_error = 0]
    BY <1>2 DEF ReportsError, PollError, Unqueued, Marked
  <2>2. ~state[at].processing
    BY <1>0, <2>1 DEF StateTypes
  <2>3. ~state'[at].processing /\ state'[at].last_error = 0
    BY <1>0, <2>1, <2>2 DEF StateTypes
  <2>4. SlotOf(at) = "failure"
    BY <2>1, <2>2 DEF SlotOf
  <2>5. output[at].payload \in {0} \cup failed[at]
    <3>1. Queued(at) = {} /\ Running(at) = {}
      BY <1>0, <2>2 DEF OneRun, Processing
    <3>2. output[at].payload \in {0, runs[at]} /\ runs[at] \in failed[at]
      BY <1>0, <2>1, <3>1 DEF OutputInv, OutputOf, Before, ErrorOf
    <3> QED
      BY <3>2
  <2>6. PICK rest \in {"nothing", "leftover"} : rest = Content(at)
    BY <2>5 DEF Content
  <2>7. ASSUME NEW t \in Task
        PROVE  SlotOf(t)' = IF t = at THEN rest ELSE SlotOf(t)
    <3>1. CASE t = at
      BY <2>1, <2>3, <2>6, <3>1 DEF SlotOf, Content, Marked
    <3>2. CASE t # at
      BY <1>2, <2>1, <3>2, SlotSame DEF ReportsError, Marked, StateTypes
    <3> QED
      BY <3>1, <3>2
  <2>8. OS!Report(at)
    BY <1>0, <2>1, <2>4, <2>7 DEF OS!Report
  <2> QED
    BY <1>0, <2>8 DEF OS!OSNext
<1>3. CASE Marks
  <2>1. /\ UNCHANGED <<output, runs, failed, published>> /\ ~Marked(at)
        /\ (Marked(at))' /\ ~state[at].processing /\ state[at].last_error = 0
        /\ state' = [state EXCEPT ![at] = marked(@)]
    BY <1>3 DEF Marks, PollReady, busy, Unqueued, Marked
  <2>2. SlotOf(at) = Content(at)
    BY <2>1 DEF SlotOf
  <2>3. ASSUME NEW t \in Task PROVE SlotOf(t)' = SlotOf(t)
    <3>1. CASE t = at
      BY <1>3, <2>1, <2>2, <3>1 DEF Marks, SlotOf, Content, Marked
    <3>2. CASE t # at
      BY <1>3, <2>1, <3>2, SlotSame DEF Marks, Marked, StateTypes
    <3> QED
      BY <3>1, <3>2
  <2> QED
    BY <2>1, <2>3 DEF OS!os_vars
<1>4. CASE Publishes
  <2>1. /\ UNCHANGED <<state, output, failed>> /\ Marked(at)
        /\ runs' = [runs EXCEPT ![at] = @ + 1]
        /\ published' = IF output[at].payload = 0 THEN published
                         ELSE [published EXCEPT ![at] = Append(@, output[at].payload)]
        /\ lpc' # "publish"
    BY <1>4 DEF Publishes, Publish, Marked
  <2>2. state[at].processing /\ Queued(at) = {} /\ Running(at) = {}
    BY <1>0, <2>1 DEF OneRun, Processing, MarkedAlone
  <2>3. output[at].payload \in {0, runs[at]}
    BY <1>0, <2>2 DEF OutputInv, OutputOf, Before
  <2>4. SlotOf(at) = Content(at)
    BY <2>1 DEF SlotOf
  <2>5. ASSUME NEW t \in Task
        PROVE  SlotOf(t)' = IF t = at THEN "running" ELSE SlotOf(t)
    <3>1. CASE t = at
      BY <2>1, <2>2, <3>1 DEF SlotOf, Marked
    <3>2. CASE t # at
      BY <2>1, <3>2, SlotSame DEF Marked
    <3> QED
      BY <3>1, <3>2
  <2>6. OS!TakeOut(at)
    <3>1. CASE output[at].payload = 0
      BY <1>0, <2>1, <2>4, <3>1 DEF OS!TakeOut, Content
    <3>2. CASE output[at].payload # 0
      BY <1>0, <2>1, <2>3, <2>4, <3>2 DEF OS!TakeOut, Content
    <3> QED
      BY <3>1, <3>2
  <2>7. OS!Start(at)
    BY <1>0, <2>1, <2>5, <2>6 DEF OS!Start
  <2> QED
    BY <1>0, <2>7 DEF OS!OSNext
<1>5. ASSUME NEW i \in Thread, Works(i) PROVE [OS!OSNext]_(OS!os_vars)
  <2>1. PICK u \in Task : u = worker[i].task
    BY DEF RunTypes
  <2>2. UNCHANGED <<lpc, at, runs, published>>
    BY <1>5 DEF Works, BackgroundRun, Take, LockOutput, LockTask, Process,
                FinalizeOk, FinalizeErr, UnlockOutput
  <2>3. \A t \in Task : Marked(t)' = Marked(t)
    BY <2>2 DEF Marked
  <2>4. CASE Take(i) \/ UnlockOutput(i)
    <3>1. UNCHANGED <<state, output, failed>>
      BY <2>4 DEF Take, UnlockOutput
    <3>2. \A t \in Task : SlotOf(t)' = SlotOf(t)
      BY <2>3, <3>1, SlotSame
    <3> QED
      BY <2>2, <3>2 DEF OS!os_vars
  <2>5. CASE ~(Take(i) \/ UnlockOutput(i))
    <3>1. worker[i].pc \in {"queued", "cleared", "process", "ok", "err"}
      BY <1>5, <2>5 DEF Works, BackgroundRun, LockOutput, LockTask, Process,
            FinalizeOk, FinalizeErr, At
    <3>2. i \in Running(u)
      BY <2>1, <3>1 DEF Running
    <3>3. /\ state[u].processing /\ ~Marked(u) /\ state[u].last_error = 0
          /\ Queued(u) = {} /\ \A j \in Running(u) : j = i
      BY <1>0, <3>2 DEF OneRun, OneWorker, NotBoth, Processing, MarkedAlone,
                        StateTypes
    <3>4. SlotOf(u) = "running" /\ ~Marked(u)'
      BY <2>3, <3>3, SlotRunning
    <3>5. ASSUME NEW t \in Task, t # u PROVE SlotOf(t)' = SlotOf(t)
      <4>1. output'[t] = output[t] /\ failed'[t] = failed[t]
        BY <1>5, <2>1, <2>5, <3>5 DEF Works, BackgroundRun, LockOutput, LockTask,
              Process, FinalizeOk, FinalizeErr, RunTypes
      <4>2. state'[t] = state[t]
        BY <1>5, <2>1, <2>5, <3>5 DEF Works, BackgroundRun, LockOutput, LockTask,
              Process, FinalizeOk, FinalizeErr, StateTypes
      <4> QED
        BY <2>3, <4>1, <4>2, SlotSame
    <3>6. CASE LockOutput(i) \/ LockTask(i) \/ Process(i)
      <4>1. UNCHANGED state
        BY <3>6 DEF LockOutput, LockTask, Process
      <4>2. SlotOf(u)' = SlotOf(u)
        BY <3>3, <3>4, <4>1 DEF SlotOf, Marked
      <4>3. \A t \in Task : SlotOf(t)' = SlotOf(t)
        BY <3>5, <4>2
      <4> QED
        BY <2>2, <4>3 DEF OS!os_vars
    <3>7. ASSUME NEW end \in {"nothing", "result", "failure"}, SlotOf(u)' = end
          PROVE  [OS!OSNext]_(OS!os_vars)
      <4>1. \A t \in Task : SlotOf(t)' = IF t = u THEN end ELSE SlotOf(t)
        BY <3>5, <3>7
      <4>2. OS!Finish(u)
        BY <2>2, <3>4, <4>1 DEF OS!Finish
      <4> QED
        BY <4>2 DEF OS!OSNext
    <3>8. CASE FinalizeOk(i)
      <4>1. /\ worker[i].pc = "ok" /\ UNCHANGED failed
            /\ output'[u].payload = output[u].payload
        BY <2>1, <3>8 DEF FinalizeOk, At, RunTypes
      <4>2. ~state'[u].processing /\ state'[u].last_error = 0
        BY <2>1, <3>3, <3>8 DEF FinalizeOk, StateTypes
      <4>3. output[u].payload \in {0, runs[u]} /\ runs[u] \notin failed[u]
        BY <2>1, <3>3, <4>1 DEF OutputInv, OutputOf, Before, RunInv, WorkerRun,
                                Unfinished
      <4>4. SlotOf(u)' \in {"nothing", "result"}
        BY <3>4, <4>1, <4>2, <4>3 DEF SlotOf, Content, Marked
      <4> QED
        BY <3>7, <4>4
    <3>9. CASE FinalizeErr(i)
      <4>1. worker[i].pc = "err" /\ worker[i].run # 0
        BY <3>1, <3>9 DEF FinalizeErr, At, RunInv, WorkerRun, Unfinished
      <4>2. ~state'[u].processing /\ state'[u].last_error # 0
        BY <2>1, <3>9, <4>1 DEF FinalizeErr, after_error, StateTypes
      <4>3. SlotOf(u)' = "failure"
        BY <3>4, <4>2 DEF SlotOf, Marked
      <4> QED
        BY <3>7, <4>3
    <3> QED
      BY <1>5, <2>5, <3>6, <3>8, <3>9 DEF Works, BackgroundRun
  <2> QED
    BY <2>4, <2>5
<1> QED
  BY <1>0, <1>1, <1>2, <1>3, <1>4, <1>5, StepKinds

(* A background task is a slot that holds one result: results come out once, *)
(* in the order of the runs and whole, none is overwritten before it came    *)
(* out, and a failure is reported before the next run.                       *)
THEOREM OneSlotRefinement == Spec => ImplementsOneSlot
<1>1. Init => OS!OSInit
  BY DEF Init, AsyncInit, OS!OSInit, SlotOf, Content, Marked, Empty
<1>2. /\ TypeOK /\ OneRunAtATime /\ RunInv /\ OutputInv /\ [Next]_vars
      => [OS!OSNext]_(OS!os_vars)
  BY TypeParts, SlotStep
<1> QED
  BY <1>1, <1>2, TypeCorrect, OneRunCorrect, RunsCorrect, OutputCorrect, PTL
     DEF Spec, ImplementsOneSlot, OS!OSSpec

----------------------------------------------------------------------------
(* The limiter. *)

LEMMA MultipleMod ==
  ASSUME NEW p \in Nat \ {0}, NEW k \in Nat
  PROVE  (k * p) % p = 0
OBVIOUS

LEMMA QuotientBounds ==
  ASSUME NEW p \in Nat \ {0}, NEW d \in Nat
  PROVE  (d \div p) * p <= d /\ d < (d \div p) * p + p
OBVIOUS

LEMMA NextMultiple ==
  ASSUME NEW p \in Nat, NEW k \in Nat, NEW q \in Nat, NEW b \in Nat
  PROVE  (b + k * p) + (q + 1) * p = b + (k + q + 1) * p
OBVIOUS

OnGrid == \E k \in Nat : next_deadline = phase + k * Period
Ahead == next_deadline # phase =>
           next_deadline \in (last_tick + 1)..(last_tick + Period)

LEMMA LimitKeepsPhase ==
  ASSUME LimiterTypes, OnGrid, Limit
  PROVE  OnGrid' /\ Ahead'
<1> DEFINE q == (now - next_deadline) \div Period
<1>1. now - next_deadline \in Nat /\ now >= next_deadline
  BY DEF Limit, is_ready, LimiterTypes
<1>2. q \in Nat
  BY <1>1, DivisionType
<1>3. /\ next_deadline' = next_deadline + (q + 1) * Period
      /\ last_tick' = now /\ phase' = phase
  BY <1>1 DEF Limit, advance_from, is_ready, LimiterTypes
<1> HIDE DEF q
<1>4. PICK k \in Nat : next_deadline = phase + k * Period
  BY DEF OnGrid
<1>5. next_deadline' = phase + (k + q + 1) * Period
  BY <1>2, <1>3, <1>4, NextMultiple, NumberTypes DEF LimiterTypes
<1>6. OnGrid'
  BY <1>2, <1>3, <1>5 DEF OnGrid
<1>7. q * Period <= now - next_deadline /\ now - next_deadline < q * Period + Period
  BY <1>1, QuotientBounds, NumberTypes DEF q
<1>8. /\ (q + 1) * Period = q * Period + Period /\ q * Period \in Nat
      /\ Period \in Nat /\ now \in Nat /\ next_deadline \in Nat
  BY <1>2, NumberTypes DEF LimiterTypes
<1>9. next_deadline' >= now + 1 /\ next_deadline' <= now + Period
      /\ next_deadline' \in Nat
  BY <1>3, <1>7, <1>8
<1> QED
  BY <1>3, <1>6, <1>8, <1>9 DEF Ahead

LEMMA LimiterInv ==
  LimiterTypes /\ OnGrid /\ Ahead /\ [Next]_vars => OnGrid' /\ Ahead'
<1> SUFFICES ASSUME LimiterTypes, OnGrid, Ahead, [Next]_vars PROVE OnGrid' /\ Ahead'
  OBVIOUS
<1>1. CASE UNCHANGED <<next_deadline, phase, last_tick>>
  BY <1>1 DEF OnGrid, Ahead
<1>2. CASE FromRateTarget
  <2>1. /\ next_deadline' = now + Period /\ phase' = now /\ last_tick' = now
        /\ now \in Nat /\ Period \in Nat \ {0} /\ 1 * Period = Period
    BY <1>2, NumberTypes DEF FromRateTarget, LimiterTypes
  <2>2. OnGrid'
    BY <2>1 DEF OnGrid
  <2>3. Ahead'
    BY <2>1 DEF Ahead
  <2> QED
    BY <2>2, <2>3
<1>3. CASE Limit
  BY <1>3, LimitKeepsPhase
<1> QED
  BY <1>1, <1>2, <1>3
     DEF Next, Loop, CallRun, Start, MakeLimiter, Poll, PollPublish, LimitRate,
         Stop, CtrlC, Clock, Tick, Pool, limiter_vars, vars

(* For every period and however late an iteration is: the deadline stays on  *)
(* the grid the limiter started with, later than the last tick by at most a  *)
(* period, so that the loop neither drifts nor catches up with a burst.      *)
THEOREM PhaseCorrect == Spec => []NoDriftNoBurst
<1>1. Init => OnGrid /\ Ahead
  BY NumberTypes DEF Init, LimiterInit, OnGrid, Ahead
<1>2. TypeOK /\ OnGrid /\ Ahead /\ [Next]_vars => OnGrid' /\ Ahead'
  BY TypeParts, LimiterInv
<1>3. TypeOK /\ OnGrid /\ Ahead => NoDriftNoBurst
  <2> SUFFICES ASSUME TypeOK, OnGrid, Ahead PROVE NoDriftNoBurst
    OBVIOUS
  <2>1. PICK k \in Nat : next_deadline = phase + k * Period
    BY DEF OnGrid
  <2>2. next_deadline - phase = k * Period
    BY <2>1, NumberTypes DEF TypeOK
  <2>3. (k * Period) % Period = 0
    BY MultipleMod, NumberTypes
  <2> QED
    BY <2>2, <2>3 DEF NoDriftNoBurst, PhaseKept, Ahead
<1> QED
  BY <1>1, <1>2, <1>3, TypeCorrect, PTL DEF Spec
=============================================================================
