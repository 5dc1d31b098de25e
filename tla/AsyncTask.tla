----------------------------- MODULE AsyncTask -----------------------------
(***************************************************************************)
(* cuasynctask.rs: CuAsyncTask and CuAsyncSrcTask run their task on the    *)
(* thread pool.  The run loop polls: a poll copies out what the last run   *)
(* left in the buffered output and queues the next run, or returns at once.*)
(* The loop that polls is TaskLoop.                                        *)
(*                                                                         *)
(* A payload is the number of the run that set it.  A panic of the pool    *)
(* ends the process (no panic handler is installed), so that no lock is    *)
(* ever found poisoned.                                                    *)
(***************************************************************************)
EXTENDS Integers, Sequences, LoopRateLimiter

CONSTANTS
  TaskCount,    \* background tasks, in the order of their steps
  PoolThreads,  \* threads of the pool they share
  MaxRuns,      \* bound: runs of each task
  Lead          \* how far ahead of now a task may set process_time.end

ASSUME AsyncTaskAssumption ==
  /\ TaskCount \in Nat \ {0} /\ PoolThreads \in Nat \ {0}
  /\ MaxRuns \in Nat /\ Lead \in Nat

Task == 1..TaskCount
Thread == 1..PoolThreads
None == -1

VARIABLES
  state,      \* task -> AsyncState; last_error is the run that failed
  output,     \* task -> the buffered output: payload and process_time.end
  out_lock,   \* task -> the thread that holds the buffered output
  task_lock,  \* task -> the thread that holds the task
  pool,       \* closures queued with spawn_fifo
  worker,     \* thread -> the closure it runs, and where it is in it
  \* history
  runs,       \* task -> runs that were queued
  failed,     \* task -> runs that returned an error
  published   \* task -> payloads that were copied out, oldest first

async_vars == <<state, output, out_lock, task_lock, pool, worker, runs,
                failed, published>>

Empty == [payload |-> 0, end |-> None]
Idle == [pc |-> "idle", task |-> 1, run |-> 0]

AsyncInit ==
  /\ state = [t \in Task |->
                [processing |-> FALSE, ready_at |-> None, last_error |-> 0]]
  /\ output = [t \in Task |-> Empty]
  /\ out_lock = [t \in Task |-> 0] /\ task_lock = [t \in Task |-> 0]
  /\ pool = <<>>
  /\ worker = [i \in Thread |-> Idle]
  /\ runs = [t \in Task |-> 0]
  /\ failed = [t \in Task |-> {}]
  /\ published = [t \in Task |-> <<>>]

----------------------------------------------------------------------------
(* begin_background_poll: under the state lock, ...                         *)

PollError(t) ==
  /\ state[t].last_error # 0
  /\ state' = [state EXCEPT ![t].last_error = 0]

held_back(t) == state[t].ready_at # None /\ now < state[t].ready_at

busy_unmarked(t) == FALSE
busy(t) == state[t].processing

\* process() writes the empty message into its own output.
PollEmpty(t) ==
  /\ state[t].last_error = 0
  /\ busy(t) \/ held_back(t)
  /\ UNCHANGED state

marked(s) == [s EXCEPT !.processing = TRUE, !.ready_at = None]

PollReady(t) ==
  /\ state[t].last_error = 0
  /\ ~(busy(t) \/ held_back(t))
  /\ state' = [state EXCEPT ![t] = marked(@)]

\* ... and, with the state unlocked, the copy; then the next run is queued.
Publish(t) ==
  /\ out_lock[t] = 0 /\ runs[t] < MaxRuns
  /\ published' = IF output[t].payload = 0
                    THEN published
                    ELSE [published EXCEPT ![t] = Append(@, output[t].payload)]
  /\ runs' = [runs EXCEPT ![t] = @ + 1]
  /\ pool' = Append(pool, [task |-> t, run |-> runs[t] + 1])
  /\ UNCHANGED <<state, output, out_lock, task_lock, worker, failed>>

----------------------------------------------------------------------------
(* The closure, on a thread of the pool.                                    *)

At(i, pc) == worker[i].pc = pc
Goto(i, pc) == worker' = [worker EXCEPT ![i].pc = pc]

Take(i) ==
  /\ At(i, "idle") /\ pool # <<>>
  /\ worker' = [worker EXCEPT ![i] = [pc |-> "queued", task |-> Head(pool).task,
                                      run |-> Head(pool).run]]
  /\ pool' = Tail(pool)
  /\ UNCHANGED <<state, output, out_lock, task_lock, runs, failed, published>>

cleared_kept(t) == output[t]
cleared(t) == Empty

LockOutput(i) ==
  LET t == worker[i].task IN
  /\ At(i, "queued") /\ out_lock[t] = 0
  /\ out_lock' = [out_lock EXCEPT ![t] = i]
  /\ output' = [output EXCEPT ![t] = cleared(t)]
  /\ Goto(i, "cleared")
  /\ UNCHANGED <<state, task_lock, pool, runs, failed, published>>

LockTask(i) ==
  LET t == worker[i].task IN
  /\ At(i, "cleared") /\ task_lock[t] = 0
  /\ task_lock' = [task_lock EXCEPT ![t] = i]
  /\ Goto(i, "process")
  /\ UNCHANGED <<state, output, out_lock, pool, runs, failed, published>>

\* The task sets a payload or not, its end time or not, and may fail with
\* either.
Process(i) ==
  LET t == worker[i].task IN
  /\ At(i, "process")
  /\ \E payload \in {output[t].payload, worker[i].run},
        end \in {output[t].end, now + Lead} :
       output' = [output EXCEPT ![t] = [payload |-> payload, end |-> end]]
  /\ task_lock' = [task_lock EXCEPT ![t] = 0]
  /\ \/ Goto(i, "ok") /\ UNCHANGED failed
     \/ Goto(i, "err") /\ failed' = [failed EXCEPT ![t] = @ \cup {worker[i].run}]
  /\ UNCHANGED <<state, out_lock, pool, runs, published>>

\* finalize_background_run, while the output is still locked
FinalizeOk(i) ==
  LET t == worker[i].task
      end == IF output[t].end = None THEN now ELSE output[t].end IN
  /\ At(i, "ok")
  /\ output' = [output EXCEPT ![t].end = end]
  /\ state' = [state EXCEPT ![t].processing = FALSE, ![t].ready_at = end]
  /\ Goto(i, "finalized")
  /\ UNCHANGED <<out_lock, task_lock, pool, runs, failed, published>>

after_error_marked(run) ==
  [processing |-> TRUE, ready_at |-> None, last_error |-> run]
after_error(run) ==
  [processing |-> FALSE, ready_at |-> None, last_error |-> run]

FinalizeErr(i) ==
  LET t == worker[i].task IN
  /\ At(i, "err")
  /\ state' = [state EXCEPT ![t] = after_error(worker[i].run)]
  /\ Goto(i, "finalized")
  /\ UNCHANGED <<output, out_lock, task_lock, pool, runs, failed, published>>

UnlockOutput(i) ==
  /\ At(i, "finalized")
  /\ out_lock' = [out_lock EXCEPT ![worker[i].task] = 0]
  /\ worker' = [worker EXCEPT ![i] = Idle]
  /\ UNCHANGED <<state, output, task_lock, pool, runs, failed, published>>

BackgroundRun(i) ==
  \/ Take(i) \/ LockOutput(i) \/ LockTask(i) \/ Process(i)
  \/ FinalizeOk(i) \/ FinalizeErr(i) \/ UnlockOutput(i)
=============================================================================
