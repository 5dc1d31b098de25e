------------------------------ MODULE TaskLoop ------------------------------
(***************************************************************************)
(* The generated run() of an application with background tasks and a rate  *)
(* target: start all tasks, poll them in every iteration, limit the rate,  *)
(* stop all tasks.  It may be called again.  What else an iteration does   *)
(* is SequentialRuntime's.                                                 *)
(***************************************************************************)
EXTENDS AsyncTask

CONSTANT MaxCalls   \* bound: calls of run()

ASSUME TaskLoopAssumption == MaxCalls \in Nat

VARIABLES
  lpc,         \* where run() is
  at,          \* the task whose turn it is
  failing,     \* the result of the iteration is an error
  STOP_FLAG,
  calls        \* run() was called

loop_vars == <<lpc, at, failing, STOP_FLAG, calls>>
vars == <<limiter_vars, async_vars, loop_vars>>

Init ==
  /\ LimiterInit /\ AsyncInit
  /\ lpc = "done" /\ at = 1 /\ failing = FALSE /\ STOP_FLAG = FALSE
  /\ calls = 0

CallRun ==
  /\ lpc = "done" /\ calls < MaxCalls
  /\ calls' = calls + 1 /\ lpc' = "start" /\ at' = 1 /\ failing' = FALSE
  /\ UNCHANGED <<limiter_vars, async_vars, STOP_FLAG>>

\* The next task, or `after` when this was the last one.
NextTask(during, after) ==
  IF at = TaskCount THEN at' = 1 /\ lpc' = after
                    ELSE at' = at + 1 /\ lpc' = during

\* start and stop lock the task, which a run may hold.
Start ==
  /\ lpc = "start" /\ task_lock[at] = 0
  /\ NextTask("start", "limiter")
  /\ UNCHANGED <<limiter_vars, async_vars, failing, STOP_FLAG, calls>>

MakeLimiter ==
  /\ lpc = "limiter"
  /\ FromRateTarget
  /\ lpc' = "poll"
  /\ UNCHANGED <<async_vars, at, failing, STOP_FLAG, calls>>

\* CuTask::process of the background task
Poll ==
  /\ lpc = "poll"
  /\ \/ PollError(at)   \* the monitor ignores it, ends the list or the run
        /\ \/ NextTask("poll", "limit") /\ UNCHANGED failing
           \/ lpc' = "limit" /\ at' = 1 /\ failing' \in BOOLEAN
     \/ PollEmpty(at) /\ NextTask("poll", "limit") /\ UNCHANGED failing
     \/ PollReady(at) /\ lpc' = "publish" /\ UNCHANGED <<at, failing>>
  /\ UNCHANGED <<limiter_vars, output, out_lock, task_lock, pool, worker, runs,
                 failed, published, STOP_FLAG, calls>>

PollPublish ==
  /\ lpc = "publish"
  /\ Publish(at)
  /\ NextTask("poll", "limit")
  /\ UNCHANGED <<limiter_vars, failing, STOP_FLAG, calls>>

LimitRate ==
  /\ lpc = "limit"
  /\ Limit
  /\ lpc' = IF STOP_FLAG \/ failing THEN "stop" ELSE "poll"
  /\ UNCHANGED <<async_vars, at, failing, STOP_FLAG, calls>>

Stop ==
  /\ lpc = "stop" /\ task_lock[at] = 0
  /\ NextTask("stop", "done")
  /\ UNCHANGED <<limiter_vars, async_vars, failing, STOP_FLAG, calls>>

Loop == Start \/ MakeLimiter \/ Poll \/ PollPublish \/ LimitRate \/ Stop

CtrlC ==
  /\ ~STOP_FLAG /\ STOP_FLAG' = TRUE
  /\ UNCHANGED <<limiter_vars, async_vars, lpc, at, failing, calls>>

Clock ==
  /\ Tick
  /\ UNCHANGED <<async_vars, loop_vars>>

Pool ==
  /\ \E i \in Thread : BackgroundRun(i)
  /\ UNCHANGED <<limiter_vars, loop_vars>>

Next == CallRun \/ Loop \/ CtrlC \/ Clock \/ Pool

Spec == Init /\ [][Next]_vars

\* The loop's thread, the threads of the pool and the clock go on; process()
\* returns.
Fairness ==
  /\ WF_vars(Loop) /\ WF_vars(Clock)
  /\ \A i \in Thread :
       WF_vars(BackgroundRun(i) /\ UNCHANGED <<limiter_vars, loop_vars>>)

FairSpec == Spec /\ Fairness

----------------------------------------------------------------------------
(* Properties. *)

PoolLabel == {"idle", "queued", "cleared", "process", "ok", "err", "finalized"}
Job == [task : Task, run : Nat]

TypeOK ==
  /\ now \in Nat /\ next_deadline \in Nat
  /\ phase \in Nat /\ last_tick \in Nat
  /\ state \in [Task -> [processing : BOOLEAN, ready_at : Nat \cup {None},
                         last_error : Nat]]
  /\ \A t \in Task : state[t].processing =>
       state[t].ready_at = None /\ state[t].last_error = 0
  /\ output \in [Task -> [payload : Nat, end : Nat \cup {None}]]
  /\ out_lock \in [Task -> 0..PoolThreads]
  /\ task_lock \in [Task -> 0..PoolThreads]
  /\ pool \in Seq(Job)
  /\ worker \in [Thread -> [pc : PoolLabel, task : Task, run : Nat]]
  /\ runs \in [Task -> Nat] /\ failed \in [Task -> SUBSET Nat]
  /\ published \in [Task -> Seq(Nat)]
  /\ lpc \in {"done", "start", "limiter", "poll", "publish", "limit", "stop"}
  /\ at \in Task /\ failing \in BOOLEAN /\ STOP_FLAG \in BOOLEAN
  /\ calls \in Nat

\* where the one closure of a task is
Running(t) == {i \in Thread : worker[i].task = t
                              /\ worker[i].pc \notin {"idle", "finalized"}}
Queued(t) == {k \in DOMAIN pool : pool[k].task = t}
Marked(t) == lpc = "publish" /\ at = t

(* A task has one run at a time, between the poll that marks it and the end *)
(* of its closure, whatever the pool and the locks do.                      *)
OneRunAtATime ==
  \A t \in Task :
    /\ \A i, j \in Running(t) : i = j
    /\ \A k, l \in Queued(t) : k = l
    /\ Running(t) = {} \/ Queued(t) = {}
    /\ state[t].processing <=>
         (Marked(t) \/ Running(t) # {} \/ Queued(t) # {})
    /\ Marked(t) => Running(t) = {} /\ Queued(t) = {}

(* The run loop never waits for a run: when a poll finds the output locked, *)
(* its holder has nothing left to do but to unlock it.                      *)
PollNeverWaits ==
  \A t \in Task : Marked(t) /\ out_lock[t] # 0 =>
                    worker[out_lock[t]].pc = "finalized"

(* A background task is a one-slot task: results come out once, in order,   *)
(* and whole; none is overwritten; a failure is reported before the next    *)
(* run starts.                                                              *)
Content(t) ==
  IF output[t].payload = 0 THEN "nothing"
  ELSE IF output[t].payload \in failed[t] THEN "leftover" ELSE "result"

SlotOf(t) ==
  IF Marked(t) THEN Content(t)
  ELSE IF state[t].processing THEN "running"
  ELSE IF state[t].last_error # 0 THEN "failure"
  ELSE Content(t)

OS == INSTANCE OneSlotTask WITH
        slot <- [t \in Task |-> SlotOf(t)], round <- runs, taken <- published
ImplementsOneSlot == OS!OSSpec

(* Every run that is queued ends, also while run() stops and starts again.  *)
RunsEnd == \A t \in Task : (state[t].processing /\ ~Marked(t))
                             ~> ~state[t].processing

(* The limiter neither drifts nor lets two iterations into one period.      *)
NoDriftNoBurst == PhaseKept
=============================================================================
