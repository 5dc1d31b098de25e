-------------------------- MODULE ParallelRuntime --------------------------
(***************************************************************************)
(* The body of run() that cu29_derive generates under `parallel-rt`: a     *)
(* dispatcher thread launches CopperLists into a pipeline with one worker  *)
(* thread per execution step, takes the results back in any order and      *)
(* commits them in id order.  With `async-cl-io` a serializer thread       *)
(* writes the committed lists, without it the dispatcher does.             *)
(*                                                                         *)
(* A CopperList is its id (clid); its box is counted where it lies.  The   *)
(* stage queues are the FIFO channels StageQueue.tla refines.              *)
(***************************************************************************)
EXTENDS Integers, Sequences, FiniteSets

CONSTANTS
  StageCount,        \* execution steps of the plan, one worker thread each
  ComponentOf,       \* stage -> the component (task or bridge) it executes
  Bridges,           \* the components that are bridges: their channels are
                     \* stages that share one bridge instance and its lock
  NBCL,              \* number of CopperList boxes, and the in-flight limit
  KeyframeInterval,  \* a keyframe every so many CopperLists
  RateLimited,       \* is runtime.rate_target_hz configured?
  AsyncIO,           \* is the async-cl-io feature on?
  Outcomes,          \* what a process step may end with
  LogMayFail,        \* may a write to the unified log fail?
  MonitorMayFail,    \* may monitor.process_copperlist return an error?
  MaxClid            \* bound: Ctrl-C comes before launch number MaxClid ends

Stage == 1..StageCount
Component == {ComponentOf[s] : s \in Stage}
NoClid == -1
StepOutcome == {"Continue", "Abort", "Err", "Panic"}

ASSUME ParallelAssumption ==
  /\ StageCount \in Nat \ {0}
  /\ DOMAIN ComponentOf = Stage
  /\ Bridges \subseteq Component
  /\ NBCL \in Nat \ {0}
  /\ KeyframeInterval \in Nat \ {0}
  /\ MaxClid \in Nat \ {0}
  /\ RateLimited \in BOOLEAN /\ AsyncIO \in BOOLEAN
  /\ LogMayFail \in BOOLEAN /\ MonitorMayFail \in BOOLEAN
  /\ Outcomes \subseteq StepOutcome

VARIABLES
  \* shared by all threads
  STOP_FLAG,             \* set by the Ctrl-C handler
  shutdown,              \* set by whoever sees a failure first
  rate_ready,            \* has the limiter's next deadline passed?
  kf,                    \* KeyFramesManager.inner: id and frozen states
  queue,                 \* stage -> the jobs waiting for its worker
  entry_open,            \* is the dispatcher's end of queue[1] alive?
  done,                  \* the mpsc channel of worker results
  done_open,             \* is done_rx alive?
  \* the dispatcher
  dpc, free_copperlists, in_flight, stop_launching, next_launch_clid,
  next_commit_clid, commit_checkpoint, pending_results,
  active_keyframe_clid, fatal_error,
  \* the workers
  wpc, job, outcome, poisoned,
  \* the CopperList I/O side
  log,                   \* ids written to the log
  kf_log,                \* keyframes written to the log
  io_queue, completions, \* the two channels of the serializer thread
  io_alive,
  manager_pool,          \* boxes in the free_pool of the async manager
  \* history
  ran,                   \* stage -> the ids its component has processed
  late_launches          \* launches that began with STOP_FLAG already set

shared == <<STOP_FLAG, shutdown, rate_ready>>
pipeline == <<queue, entry_open, done, done_open>>
launching == <<in_flight, stop_launching, next_launch_clid,
               active_keyframe_clid>>
committing == <<next_commit_clid, commit_checkpoint, pending_results,
                fatal_error>>
workers == <<wpc, job, outcome, poisoned>>
io == <<log, kf_log, io_queue, completions, io_alive, manager_pool>>
history == <<ran, late_launches>>
vars == <<shared, kf, pipeline, dpc, free_copperlists, launching,
          committing, workers, io, history>>
dispatcher == <<dpc, free_copperlists, launching, committing>>

Init ==
  /\ STOP_FLAG = FALSE /\ shutdown = FALSE
  /\ rate_ready = ~RateLimited
  /\ kf = [culistid |-> 0, frozen |-> <<>>]
  /\ queue = [s \in Stage |-> <<>>] /\ entry_open = TRUE
  /\ done = <<>> /\ done_open = TRUE
  /\ dpc = "top" /\ free_copperlists = NBCL
  /\ in_flight = 0 /\ stop_launching = FALSE
  /\ next_launch_clid = 0 /\ next_commit_clid = 0 /\ commit_checkpoint = 0
  /\ pending_results = {} /\ active_keyframe_clid = NoClid
  /\ fatal_error = "none"
  /\ wpc = [s \in Stage |-> "recv"] /\ job = [s \in Stage |-> NoClid]
  /\ outcome = [s \in Stage |-> "none"] /\ poisoned = {}
  /\ log = <<>> /\ kf_log = {} /\ io_queue = <<>> /\ completions = <<>>
  /\ io_alive = TRUE /\ manager_pool = 0
  /\ ran = [s \in Stage |-> {}] /\ late_launches = 0

----------------------------------------------------------------------------
(* Keyframes. *)

captures_keyframe(clid) == clid % KeyframeInterval = 0

\* What a component has been through: the steps it executed, by stage and id.
StateOf(c, steps) ==
  {x \in Stage \X UNION {steps[s] : s \in Stage} :
     ComponentOf[x[1]] = c /\ x[2] \in steps[x[1]]}

\* A bridge is frozen in its postprocess, which the placement gives to the
\* last of its stages; a task is frozen at the head of its only stage.
FreezesBridge(s) ==
  /\ ComponentOf[s] \in Bridges
  /\ \A t \in Stage : ComponentOf[t] = ComponentOf[s] => t <= s
FreezesTask(s) == ComponentOf[s] \notin Bridges

\* What is serialized: a task before it processes the list, a bridge after.
FrozenState_late(s, before, after) == StateOf(ComponentOf[s], after)
FrozenState(s, before, after) ==
  StateOf(ComponentOf[s], IF FreezesTask(s) THEN before ELSE after)

\* freeze_task: nothing on other ids, an error if the keyframe under
\* construction is not this one's.
FreezeFails(clid) == captures_keyframe(clid) /\ kf.culistid # clid

----------------------------------------------------------------------------
(* The dispatcher. *)

Running == dpc \notin {"drain", "join", "done"}

\* An early return (`?`) from the scope: every local of the dispatcher is
\* dropped, its ends of the channels among them, and the threads are joined.
EarlyReturn ==
  /\ dpc' = "join"
  /\ entry_open' = FALSE /\ done_open' = FALSE
  /\ fatal_error' = "Returned"
  /\ UNCHANGED <<queue, done>>

LogFailed == \E i \in 1..Len(completions) : ~completions[i]

\* Top of the loop: take back every list the serializer is done with.
Reclaim ==
  /\ dpc = "top"
  /\ completions' = <<>>
  /\ free_copperlists' = free_copperlists + Len(completions)
  /\ IF LogFailed
       THEN EarlyReturn
       ELSE dpc' = "dispatch" /\ UNCHANGED <<pipeline, fatal_error>>
  /\ UNCHANGED <<shared, kf, launching, next_commit_clid, commit_checkpoint,
                 pending_results, workers, log, kf_log, io_queue, io_alive,
                 manager_pool, history>>

keyframe_ready_dropped == TRUE
keyframe_ready ==
  active_keyframe_clid = NoClid \/ ~captures_keyframe(next_launch_clid)

LaunchReady ==
  /\ ~stop_launching /\ fatal_error = "none"
  /\ in_flight < NBCL
  /\ rate_ready
  /\ keyframe_ready
  /\ free_copperlists > 0

queue_capacity_short == IF NBCL > 1 THEN NBCL - 1 ELSE 1
queue_capacity == NBCL

Enqueue(q, clid) == Append(q, clid)

\* Every launch ends by reading the flag.
StopSeen_missed(flag) == FALSE
StopSeen(flag) == flag

Launch ==
  /\ dpc = "dispatch" /\ LaunchReady
  /\ Len(queue[1]) < queue_capacity
  /\ free_copperlists' = free_copperlists - 1
  /\ IF captures_keyframe(next_launch_clid)
       THEN /\ kf' = [culistid |-> next_launch_clid, frozen |-> <<>>]
            /\ active_keyframe_clid' = next_launch_clid
       ELSE UNCHANGED <<kf, active_keyframe_clid>>
  /\ queue' = [queue EXCEPT ![1] = Enqueue(@, next_launch_clid)]
  /\ next_launch_clid' = next_launch_clid + 1
  /\ in_flight' = in_flight + 1
  /\ rate_ready' = ~RateLimited
  /\ STOP_FLAG' = (STOP_FLAG \/ next_launch_clid' >= MaxClid)
  /\ stop_launching' = StopSeen(STOP_FLAG')
  /\ late_launches' = late_launches + (IF STOP_FLAG THEN 1 ELSE 0)
  /\ dpc' = "top"
  /\ UNCHANGED <<shutdown, entry_open, done, done_open, committing, workers,
                 io, ran>>

SkipLaunch ==
  /\ dpc = "dispatch" /\ ~LaunchReady
  /\ dpc' = IF in_flight = 0 THEN "idle" ELSE "wait"
  /\ UNCHANGED <<shared, kf, pipeline, free_copperlists, launching,
                 committing, workers, io, history>>

\* Nothing in flight: leave the loop, ...
Leave ==
  /\ dpc = "idle"
  /\ stop_launching \/ fatal_error # "none"
  /\ entry_open' = FALSE
  /\ dpc' = "drain"
  /\ UNCHANGED <<shared, kf, queue, done, done_open, free_copperlists,
                 launching, committing, workers, io, history>>

\* ... wait for the serializer to give a box back, ...
WaitReclaim ==
  /\ dpc = "idle" /\ ~stop_launching /\ fatal_error = "none"
  /\ free_copperlists = 0
  /\ completions # <<>>
  /\ completions' = Tail(completions)
  /\ free_copperlists' = free_copperlists + 1
  /\ IF Head(completions)
       THEN dpc' = "top" /\ UNCHANGED <<pipeline, fatal_error>>
       ELSE EarlyReturn
  /\ UNCHANGED <<shared, kf, launching, next_commit_clid, commit_checkpoint,
                 pending_results, workers, log, kf_log, io_queue, io_alive,
                 manager_pool, history>>

\* ... or read the limiter again and sleep until its deadline.  The deadline
\* may have passed since LaunchReady read it: then fall through to recv().
AskLimiter ==
  /\ dpc = "idle" /\ ~stop_launching /\ fatal_error = "none"
  /\ free_copperlists > 0
  /\ dpc' = IF rate_ready THEN "wait" ELSE "sleep"
  /\ UNCHANGED <<shared, kf, pipeline, free_copperlists, launching,
                 committing, workers, io, history>>

WakeUp ==
  /\ dpc = "sleep" /\ rate_ready
  /\ dpc' = "top"
  /\ UNCHANGED <<shared, kf, pipeline, free_copperlists, launching,
                 committing, workers, io, history>>

\* recv_timeout(remaining) while the limiter holds the next launch back,
\* a recv() without timeout in every other case.
StartWait ==
  /\ dpc = "wait"
  /\ dpc' = IF /\ ~stop_launching /\ fatal_error = "none"
               /\ ~rate_ready /\ in_flight > 0
              THEN "recv_timeout"
              ELSE "recv"
  /\ UNCHANGED <<shared, kf, pipeline, free_copperlists, launching,
                 committing, workers, io, history>>

Timeout ==
  /\ dpc = "recv_timeout" /\ rate_ready /\ done = <<>>
  /\ stop_launching' = (stop_launching \/ STOP_FLAG)
  /\ dpc' = "top"
  /\ UNCHANGED <<shared, kf, pipeline, free_copperlists, in_flight,
                 next_launch_clid, active_keyframe_clid, committing,
                 workers, io, history>>

Received_all(n) == 0
Received(n) == IF n = 0 THEN 0 ELSE n - 1

Receive ==
  /\ dpc \in {"recv", "recv_timeout"} /\ done # <<>>
  /\ done' = Tail(done)
  /\ in_flight' = Received(in_flight)
  /\ pending_results' = pending_results \cup {Head(done)}
  /\ dpc' = "commit"
  /\ UNCHANGED <<shared, kf, queue, entry_open, done_open, free_copperlists,
                 stop_launching, next_launch_clid, active_keyframe_clid,
                 next_commit_clid, commit_checkpoint, fatal_error, workers,
                 io, history>>

NextResults == {r \in pending_results : r.clid = next_commit_clid}

ReleaseKeyframe_never(clid) == active_keyframe_clid
ReleaseKeyframe(clid) ==
  IF active_keyframe_clid = clid THEN NoClid ELSE active_keyframe_clid

\* The tail of the commit loop: forget the result, move both cursors.
ReleaseCommit_twice(r) ==
  /\ pending_results' = pending_results \ {r}
  /\ active_keyframe_clid' = ReleaseKeyframe(r.clid)
  /\ commit_checkpoint' = r.clid + 2
  /\ next_commit_clid' = next_commit_clid + 2
  /\ dpc' = "commit"
ReleaseCommit(r) ==
  /\ pending_results' = pending_results \ {r}
  /\ active_keyframe_clid' = ReleaseKeyframe(r.clid)
  /\ commit_checkpoint' = r.clid + 1
  /\ next_commit_clid' = next_commit_clid + 1
  /\ dpc' = "commit"

Committable_always(r) == TRUE
Committable(r) == r.outcome \in {"Continue", "Abort"}

\* The first half of a commit, end_of_processing_boxed up to its send: the
\* list is written (or queued for the serializer) and its box comes back.
\* The async manager keeps in its own pool the boxes it reclaims here.
Submit(r) ==
  /\ dpc = "commit" /\ r \in NextResults /\ fatal_error = "none"
  /\ commit_checkpoint = r.clid
  /\ Committable(r)
  /\ \/ /\ ~AsyncIO
        /\ log' = Append(log, r.clid)
        /\ free_copperlists' = free_copperlists + 1
        /\ dpc' = "submitted"
        /\ UNCHANGED <<pipeline, fatal_error, io_queue, completions,
                       manager_pool>>
     \/ /\ ~AsyncIO /\ LogMayFail
        /\ EarlyReturn
        /\ UNCHANGED <<log, free_copperlists, io_queue, completions,
                       manager_pool>>
     \/ /\ AsyncIO
        /\ completions' = <<>>
        /\ manager_pool' = manager_pool + Len(completions)
        /\ IF LogFailed
             THEN EarlyReturn /\ UNCHANGED io_queue
             ELSE /\ io_queue' = Append(io_queue, r.clid)
                  /\ dpc' = "submitted"
                  /\ UNCHANGED <<pipeline, fatal_error>>
        /\ UNCHANGED <<log, free_copperlists>>
  /\ UNCHANGED <<shared, kf, launching, next_commit_clid, commit_checkpoint,
                 pending_results, workers, kf_log, io_alive, history>>

\* The second half: reclaim once more, log the keyframe of a list that was
\* not aborted, release the commit cursor.
Finish(r) ==
  /\ dpc = "submitted" /\ r \in NextResults
  /\ completions' = <<>>
  /\ manager_pool' = manager_pool + Len(completions)
  /\ LET keyframe == r.outcome = "Continue" /\ captures_keyframe(r.clid)
     IN \/ /\ ~LogFailed
           /\ kf_log' = IF keyframe THEN kf_log \cup {kf} ELSE kf_log
           /\ ReleaseCommit(r)
           /\ UNCHANGED <<pipeline, fatal_error>>
        \/ /\ LogFailed \/ (LogMayFail /\ keyframe)
           /\ EarlyReturn
           /\ UNCHANGED <<kf_log, active_keyframe_clid, next_commit_clid,
                          commit_checkpoint, pending_results>>
        \/ /\ MonitorMayFail /\ ~LogFailed
           /\ kf_log' = IF keyframe THEN kf_log \cup {kf} ELSE kf_log
           /\ EarlyReturn
           /\ UNCHANGED <<active_keyframe_clid, next_commit_clid,
                          commit_checkpoint, pending_results>>
  /\ UNCHANGED <<shared, kf, free_copperlists, in_flight, stop_launching,
                 next_launch_clid, workers, log, io_queue, io_alive, history>>

\* A panic keeps the box, any other result brings it back.
BoxOf_forgotten(r) == 0
BoxOf(r) == IF r.outcome = "Panic" THEN 0 ELSE 1

\* The first failure in id order ends the run, ...
CommitError(r) ==
  /\ dpc = "commit" /\ r \in NextResults /\ fatal_error = "none"
  /\ \/ ~Committable(r)
     \/ commit_checkpoint # r.clid
  /\ shutdown' = TRUE
  /\ stop_launching' = TRUE
  /\ fatal_error' = IF commit_checkpoint # r.clid
                      THEN "OutOfSync" ELSE r.outcome
  /\ free_copperlists' = free_copperlists + BoxOf(r)
  /\ ReleaseCommit(r)
  /\ UNCHANGED <<STOP_FLAG, rate_ready, kf, pipeline, in_flight,
                 next_launch_clid, workers, io, history>>

\* ... and the lists that follow it only give their boxes back.
Discard(r) ==
  /\ dpc = "commit" /\ r \in NextResults /\ fatal_error # "none"
  /\ free_copperlists' = free_copperlists + BoxOf(r)
  /\ ReleaseCommit(r)
  /\ UNCHANGED <<shared, kf, pipeline, in_flight, stop_launching,
                 next_launch_clid, fatal_error, workers, io, history>>

CommitDone ==
  /\ dpc = "commit" /\ NextResults = {}
  /\ stop_launching' = (stop_launching \/ STOP_FLAG)
  /\ dpc' = "top"
  /\ UNCHANGED <<shared, kf, pipeline, free_copperlists, in_flight,
                 next_launch_clid, active_keyframe_clid, committing,
                 workers, io, history>>

\* finish_pending_boxed, then the end of the scope drops done_rx.
Drain ==
  /\ dpc = "drain"
  /\ \/ /\ completions # <<>>
        /\ completions' = Tail(completions)
        /\ free_copperlists' = free_copperlists + 1
        /\ IF Head(completions)
             THEN UNCHANGED <<dpc, pipeline, fatal_error>>
             ELSE EarlyReturn
     \/ /\ completions = <<>> /\ io_queue = <<>>
        /\ dpc' = "join"
        /\ done_open' = FALSE
        /\ UNCHANGED <<queue, entry_open, done, completions,
                       free_copperlists, fatal_error>>
  /\ UNCHANGED <<shared, kf, launching, next_commit_clid, commit_checkpoint,
                 pending_results, workers, log, kf_log, io_queue, io_alive,
                 manager_pool, history>>

Join ==
  /\ dpc = "join"
  /\ \A s \in Stage : wpc[s] = "dead"
  /\ dpc' = "done"
  /\ UNCHANGED <<shared, kf, pipeline, free_copperlists, launching,
                 committing, workers, io, history>>

Commit ==
  \E r \in pending_results :
    Submit(r) \/ Finish(r) \/ CommitError(r) \/ Discard(r)

Dispatcher ==
  \/ Reclaim \/ Launch \/ SkipLaunch \/ Leave \/ WaitReclaim \/ AskLimiter
  \/ WakeUp \/ StartWait \/ Timeout \/ Receive \/ Commit \/ CommitDone
  \/ Drain \/ Join

----------------------------------------------------------------------------
(* The worker of stage s. *)

SenderAlive_leaked(s) == s = 1 \/ wpc[s - 1] # "dead"
SenderAlive(s) == IF s = 1 THEN entry_open ELSE wpc[s - 1] # "dead"

\* Take a job; after a failure elsewhere it is answered without being run.
Recv(s) ==
  /\ wpc[s] = "recv" /\ queue[s] # <<>>
  /\ queue' = [queue EXCEPT ![s] = Tail(@)]
  /\ job' = [job EXCEPT ![s] = Head(queue[s])]
  /\ IF shutdown
       THEN /\ wpc' = [wpc EXCEPT ![s] = "report"]
            /\ outcome' = [outcome EXCEPT ![s] = "ShuttingDown"]
       ELSE /\ wpc' = [wpc EXCEPT ![s] = "run"]
            /\ UNCHANGED outcome
  /\ UNCHANGED <<shared, kf, entry_open, done, done_open, dispatcher,
                 poisoned, io, history>>

\* The step itself, under the lock of its component (so one step of a
\* component at a time): freeze and process, then what the worker makes of
\* the outcome.  A panic poisons the component's lock, and whoever takes
\* a poisoned lock panics.
Run(s) ==
  LET c == ComponentOf[s]
      k == job[s]
  IN
  /\ wpc[s] = "run"
  /\ \E o \in Outcomes \cup {"Panic"} :
       /\ c \in poisoned => o = "Panic"
       /\ o = "Panic" => c \in poisoned \/ "Panic" \in Outcomes
       /\ LET freezes == \/ FreezesTask(s)
                         \/ FreezesBridge(s) /\ o = "Continue"
              failed  == c \notin poisoned /\ freezes /\ FreezeFails(k)
              result  == CASE failed -> "Err"
                           [] ~failed /\ o = "Continue" /\ shutdown ->
                                "ShuttingDown"
                           [] OTHER -> o
          IN /\ ran' = IF c \in poisoned \/ (failed /\ FreezesTask(s))
                         THEN ran
                         ELSE [ran EXCEPT ![s] = @ \cup {k}]
             /\ kf' = IF /\ freezes /\ captures_keyframe(k)
                         /\ ~failed /\ c \notin poisoned
                        THEN [kf EXCEPT !.frozen = Append(@,
                                [component |-> c,
                                 state |-> FrozenState(s, ran, ran')])]
                        ELSE kf
             /\ poisoned' = IF result = "Panic" THEN poisoned \cup {c}
                                                ELSE poisoned
             /\ shutdown' = (shutdown \/ result \in {"Err", "Panic"})
             /\ outcome' = [outcome EXCEPT ![s] = result]
             /\ wpc' = [wpc EXCEPT ![s] =
                          IF result = "Continue" /\ s < StageCount
                            THEN "forward" ELSE "report"]
  /\ UNCHANGED <<STOP_FLAG, rate_ready, pipeline, dispatcher, job, io,
                 late_launches>>

\* Hand the list to the next stage: it blocks on a full queue, and fails
\* when the next worker is gone.
Forward(s) ==
  /\ wpc[s] = "forward"
  /\ IF wpc[s + 1] = "dead"
       THEN /\ shutdown' = TRUE
            /\ outcome' = [outcome EXCEPT ![s] = "HandOffFailed"]
            /\ wpc' = [wpc EXCEPT ![s] = "report"]
            /\ UNCHANGED <<queue, job>>
       ELSE /\ Len(queue[s + 1]) < queue_capacity
            /\ queue' = [queue EXCEPT ![s + 1] = Enqueue(@, job[s])]
            /\ wpc' = [wpc EXCEPT ![s] = "recv"]
            /\ job' = [job EXCEPT ![s] = NoClid]
            /\ UNCHANGED <<shutdown, outcome>>
  /\ UNCHANGED <<STOP_FLAG, rate_ready, kf, entry_open, done, done_open,
                 dispatcher, poisoned, io, history>>

\* Answer on done_tx; the worker ends when nobody listens any more.
Report(s) ==
  /\ wpc[s] = "report"
  /\ IF done_open
       THEN /\ done' = Append(done, [clid |-> job[s], outcome |-> outcome[s]])
            /\ wpc' = [wpc EXCEPT ![s] = "recv"]
       ELSE /\ wpc' = [wpc EXCEPT ![s] = "dead"]
            /\ UNCHANGED done
  /\ job' = [job EXCEPT ![s] = NoClid]
  /\ UNCHANGED <<shared, kf, queue, entry_open, done_open, dispatcher,
                 outcome, poisoned, io, history>>

\* recv() fails once it has seen an empty queue and then that its sender is
\* gone; a job sent between the two looks is left behind (StageQueue.tla).
Disconnect(s) ==
  /\ wpc[s] = "recv" /\ ~SenderAlive(s)
  /\ wpc' = [wpc EXCEPT ![s] = "dead"]
  /\ UNCHANGED <<shared, kf, pipeline, dispatcher, job, outcome, poisoned,
                 io, history>>

Worker(s) == Recv(s) \/ Run(s) \/ Forward(s) \/ Report(s) \/ Disconnect(s)

----------------------------------------------------------------------------
(* The serializer thread of the async manager, the signal, the clock. *)

Serialize ==
  /\ io_alive /\ io_queue # <<>>
  /\ io_queue' = Tail(io_queue)
  /\ \/ /\ log' = Append(log, Head(io_queue))
        /\ completions' = Append(completions, TRUE)
        /\ UNCHANGED io_alive
     \/ /\ LogMayFail
        /\ completions' = Append(completions, FALSE)
        /\ io_alive' = FALSE
        /\ UNCHANGED log
  /\ UNCHANGED <<shared, kf, pipeline, dispatcher, workers, kf_log,
                 manager_pool, history>>

CtrlC ==
  /\ ~STOP_FLAG /\ dpc # "done"
  /\ STOP_FLAG' = TRUE
  /\ UNCHANGED <<shutdown, rate_ready, kf, pipeline, dispatcher, workers,
                 io, history>>

\* The deadline of LoopRateLimiter passes.
Deadline ==
  /\ ~rate_ready /\ dpc # "done"
  /\ rate_ready' = TRUE
  /\ UNCHANGED <<STOP_FLAG, shutdown, kf, pipeline, dispatcher, workers,
                 io, history>>

\* run() has returned: nothing more happens.
Terminated == dpc = "done" /\ UNCHANGED vars

Next ==
  \/ Dispatcher
  \/ \E s \in Stage : Worker(s)
  \/ Serialize \/ CtrlC \/ Deadline
  \/ Terminated

Spec == Init /\ [][Next]_vars

\* The operating system runs every thread that can run, process() returns,
\* the clock advances, and a disconnection wakes the receiver of a queue;
\* nobody has to press Ctrl-C.  That an item wakes the receiver is not
\* among this: see QueuesDeliver.
Fairness ==
  /\ WF_vars(Dispatcher)
  /\ \A s \in Stage : /\ WF_vars(Run(s) \/ Forward(s) \/ Report(s))
                      /\ WF_vars(~SenderAlive(s) /\ (Recv(s) \/ Disconnect(s)))
  /\ WF_vars(Serialize)
  /\ WF_vars(Deadline)

FairSpec == Spec /\ Fairness

----------------------------------------------------------------------------
(* Properties. *)

Result == [clid : Nat,
           outcome : StepOutcome \cup {"ShuttingDown", "HandOffFailed"}]

Keyframe == [culistid : Nat,
             frozen : Seq([component : Component,
                           state : SUBSET (Stage \X Nat)])]

SharedType ==
  STOP_FLAG \in BOOLEAN /\ shutdown \in BOOLEAN /\ rate_ready \in BOOLEAN

KeyframeType == kf \in Keyframe /\ kf_log \subseteq Keyframe

PipelineType ==
  /\ queue \in [Stage -> Seq(Nat)] /\ entry_open \in BOOLEAN
  /\ done \in Seq(Result) /\ done_open \in BOOLEAN

LaunchType ==
  /\ free_copperlists \in Nat /\ in_flight \in Nat
  /\ stop_launching \in BOOLEAN /\ next_launch_clid \in Nat
  /\ active_keyframe_clid \in Nat \cup {NoClid}

CommitType ==
  /\ dpc \in {"top", "dispatch", "idle", "sleep", "wait", "recv",
              "recv_timeout", "commit", "submitted", "drain", "join", "done"}
  /\ next_commit_clid \in Nat /\ commit_checkpoint \in Nat
  /\ pending_results \subseteq Result
  /\ fatal_error \in {"none", "Err", "Panic", "ShuttingDown",
                      "HandOffFailed", "OutOfSync", "Returned"}

WorkerType ==
  /\ wpc \in [Stage -> {"recv", "run", "forward", "report", "dead"}]
  /\ job \in [Stage -> Nat \cup {NoClid}]
  /\ outcome \in [Stage -> StepOutcome \cup
                             {"none", "ShuttingDown", "HandOffFailed"}]
  /\ poisoned \subseteq Component
  \* a worker that is busy has a job, and one that reports has an outcome
  /\ \A s \in Stage : wpc[s] \in {"run", "forward", "report"} => job[s] \in Nat
  /\ \A s \in Stage : wpc[s] = "report" => outcome[s] # "none"

IoType ==
  /\ log \in Seq(Nat) /\ io_queue \in Seq(Nat)
  /\ completions \in Seq(BOOLEAN) /\ io_alive \in BOOLEAN
  /\ manager_pool \in Nat

HistoryType == ran \in [Stage -> SUBSET Nat] /\ late_launches \in Nat

TypeOK ==
  /\ SharedType /\ KeyframeType /\ PipelineType /\ LaunchType /\ CommitType
  /\ WorkerType /\ IoType /\ HistoryType

(* Whatever the interleaving of the workers, the ids of the log are         *)
(* 0, 1, 2, ...: the BTreeMap of pending results and the commit cursor      *)
(* reorder what the stages and the aborts deliver out of order.            *)
OC == INSTANCE OrderedCommit WITH launched <- next_launch_clid, log <- log
ImplementsOrderedCommit == OC!OCSpec

IdsLaunched ==
  /\ \A s \in Stage : \A i \in 1..Len(queue[s]) :
       queue[s][i] < next_launch_clid
  /\ \A s \in Stage : job[s] < next_launch_clid
  /\ \A i \in 1..Len(done) : done[i].clid < next_launch_clid
  /\ \A r \in pending_results : r.clid < next_launch_clid

SubmittedOne == IF dpc = "submitted" THEN 1 ELSE 0

LogMeetsCursor ==
  /\ ~AsyncIO => io_queue = <<>> /\ io_alive
  /\ io_alive =>
       /\ \A i \in 1..Len(io_queue) : io_queue[i] = Len(log) + i - 1
       /\ Len(log) + Len(io_queue) <= next_launch_clid
       /\ fatal_error = "none" =>
            Len(log) + Len(io_queue) = next_commit_clid + SubmittedOne

(* Why the log comes out in order: every id on its way is one that was     *)
(* launched, the serializer's queue continues the log, and until the run    *)
(* fails log and queue together end exactly at the commit cursor.           *)
CommitCursorInv == IdsLaunched /\ LogMeetsCursor

Positions(k) ==
  {p \in {"queue"} \X Stage \X (1..NBCL) :
     p[3] <= Len(queue[p[2]]) /\ queue[p[2]][p[3]] = k}
  \cup {<<"worker", s, 0>> : s \in {t \in Stage : job[t] = k}}
  \cup {<<"done", 0, i>> : i \in {j \in 1..Len(done) : done[j].clid = k}}
  \cup {<<"pending", 0, 0>> : r \in {x \in pending_results : x.clid = k}}

(* Until the run is cut short, a launched list that is not yet committed   *)
(* is in exactly one place - one queue slot, one worker, one slot of the    *)
(* result channel or the reorder map - so that it is answered once, and     *)
(* in_flight counts the lists still on their way: no worker loses or        *)
(* duplicates a job on any of its exits.                                    *)
AnsweredOnce ==
  Running =>
    /\ \A k \in 0..(next_launch_clid - 1) :
         Cardinality(Positions(k)) = IF k < next_commit_clid THEN 0 ELSE 1
    /\ in_flight = next_launch_clid - next_commit_clid
                     - Cardinality(pending_results)

BoxesInUse ==
  (next_launch_clid - next_commit_clid)
    - (IF dpc = "submitted" THEN 1 ELSE 0)
    + Len(io_queue) + Len(completions) + manager_pool

(* The NBCL boxes are neither lost nor duplicated by the hand-offs between  *)
(* dispatcher, workers, reorder map and serializer; only a panic may lose   *)
(* one (the worker's culist is gone with the unwound stack).                *)
BoxesConserved ==
  Running =>
    /\ free_copperlists + BoxesInUse <= NBCL
    /\ "Panic" \notin Outcomes => free_copperlists + BoxesInUse = NBCL

(* The stage queues have room for every box, so that neither the launch     *)
(* nor a hand-off ever blocks on a full queue: a stalled stage cannot stop  *)
(* the dispatcher from reading results.                                     *)
NeverBlocked ==
  /\ dpc = "dispatch" /\ LaunchReady => Len(queue[1]) < queue_capacity
  /\ \A s \in Stage : wpc[s] = "forward" /\ wpc[s + 1] # "dead"
                        => Len(queue[s + 1]) < queue_capacity

(* When nothing is in flight and the run goes on, only the clock can hold   *)
(* the next launch back: no reordered result, unreleased keyframe or        *)
(* missing box leaves the dispatcher waiting for a result nobody owes.      *)
IdleOnlyForClock ==
  dpc = "idle" /\ ~stop_launching /\ fatal_error = "none" =>
    pending_results = {} /\ keyframe_ready /\ free_copperlists > 0

Failed(r) == r.outcome \notin {"Continue", "Abort"}

(* A list whose step failed is not logged, nor is any later one, although   *)
(* later lists may long be through the pipeline when the failure shows.     *)
FailureCutsLog ==
  LET written == Len(log) + Len(io_queue)
  IN /\ \A r \in pending_results : Failed(r) => written <= r.clid
     /\ \A i \in 1..Len(done) : Failed(done[i]) => written <= done[i].clid
     /\ fatal_error \notin {"none", "Returned"} => written < next_commit_clid

(* The state a keyframe records of a task is what the lists before it made  *)
(* of it, and of a bridge what they and its own list did: no later list,    *)
(* running stages ahead or behind, leaks into it and no earlier one is      *)
(* missing.                                                                 *)
KeyframeIsPrefix ==
  \A f \in kf_log : \A i \in 1..Len(f.frozen) :
    LET c == f.frozen[i].component IN
    f.frozen[i].state =
      {x \in StateOf(c, ran) : \/ x[2] < f.culistid
                               \/ c \in Bridges /\ x[2] = f.culistid}

RestoreBefore(c, d) ==
  \/ c \notin Bridges /\ d \in Bridges
  \/ /\ {c, d} \cap Bridges = {}
     /\ \E s, t \in Stage : ComponentOf[s] = c /\ ComponentOf[t] = d /\ s < t

(* A logged keyframe holds every component once, tasks in plan order and    *)
(* then bridges: the order in which restore_keyframe decodes them.          *)
KeyframeRestorable ==
  \A f \in kf_log :
    /\ {f.frozen[i].component : i \in 1..Len(f.frozen)} = Component
    /\ \A i, j \in 1..Len(f.frozen) : i < j =>
         RestoreBefore(f.frozen[i].component, f.frozen[j].component)

(* After Ctrl-C at most one more list enters the pipeline.                  *)
StopLatency == late_launches <= 1

(* What the stage queues promise: a worker whose queue is not empty         *)
(* receives.  StageQueue shows that they keep it under sequentially         *)
(* consistent accesses (DeliveredInOrder), and that under the Release and   *)
(* Acquire of the source a worker may park on a non-empty queue until the   *)
(* next item or a disconnection (Delivered is violated).                    *)
QueuesDeliver == \A s \in Stage : WF_vars(Recv(s))

(* As far as the stage queues deliver, run() returns after Ctrl-C or a      *)
(* failure anywhere: every worker sees its queue close and is joined.       *)
(* Where they do not, it may hang: the dispatcher waits for the lists in    *)
(* flight with its end of the first queue open, so that nothing wakes a     *)
(* worker parked on a list.                                                 *)
StopTerminates ==
  QueuesDeliver => ((STOP_FLAG \/ shutdown) ~> (dpc = "done"))
=============================================================================
