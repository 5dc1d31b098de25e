# TLA+ models of the Copper runtime

Copper runs a robot as a graph of tasks. Each iteration fills one *CopperList*
(the messages of every task, in order), which is then written to the unified
log; every so often a *keyframe* (the frozen state of all tasks and bridges)
is logged too, so that a run can be replayed from there. With the
`parallel-rt` feature several CopperLists are in the pipeline at once, one
thread per stage, and the log must come out as if they had been executed one
after the other. Around that core are background tasks, the log itself, the
programs that replay a log, and, in this repository, the diagnostic stack of a
vehicle.

This directory holds the models of these parts, the instances TLC checks and
the theorems TLAPS proves. Paths below are relative to the repository's `src`;
"derive" is `core/cu29_derive/src/lib.rs` and "curuntime" is
`core/cu29_runtime/src/curuntime.rs`.

1. [The system](#1-the-system)
2. [The modules](#2-the-modules)
3. [The runs](#3-the-runs)
4. [Where the code does not do what it says](#4-where-the-code-does-not-do-what-it-says)
5. [The proofs](#5-the-proofs)
6. [Not modelled](#6-not-modelled)
7. [What is left](#7-what-is-left)

## 1. The system

### Components, state, operations

| Component | State | Operations | What makes it correct |
|---|---|---|---|
| Parallel dispatcher (derive 3700-4110) | free boxes, in-flight count, launch and commit ids, reordering map, commit checkpoint, active keyframe, fatal error | reclaim, launch, wait, receive, commit, leave, drain, join | log in id order; each list answered and committed once; nothing logged after a failure; Ctrl-C and failures end the run |
| Stage workers (derive 3234-3398, generated steps 7798-8757) | current job, locks of components | receive, freeze and process, forward, report, leave | every exit path answers once; termination spreads from queue to queue |
| Stage queue (`parallel_queue.rs`) | ring, cursors, waiting and alive flags, park tokens | `send`, `recv`, drop of either end | bounded FIFO; no lost wake-up; disconnection seen, but not before the items |
| KeyFramesManager (curuntime 950-1045) | keyframe under construction, interval, locked keyframe, forced timestamp | reset, freeze, lock, end of processing | a keyframe is a consistent cut, in restore order, of the right list; a replayed one is the recorded one |
| AsyncCopperListsManager (curuntime 598-925) | free pool, current box, channel to the serializer, pending count | create, submit, reclaim, wait, finish, shutdown | boxes conserved; nothing waits for a box nobody holds; thread joined |
| Synchronous manager and CopperList ring (curuntime 400-480, `copperlist.rs`) | ring of lists, insertion index, states | create, end of processing, iterate, pop | newest-to-oldest iteration at the wrap; freed exactly what was logged |
| LoopRateLimiter (curuntime 236-332) | period, next deadline | is_ready, wait, mark tick, limit | no drift, no burst; never the reason for a hang |
| Sequential runtime (derive, `run_one_iteration`, `run`) | managers, tasks, bridges | one iteration, run, restore | same log as the parallel one; keyframe complete |
| Background tasks (`cuasynctask.rs`) | processing flag, ready time, last error, output, the task; two locks and the state's | start, poll, run on a pool thread, stop | at most one run of a task; each output published once, whole and only when ready; failures reported first; a poll never waits for a run |
| Unified log (`core/cu29_unifiedlog`) | slabs, sections, end markers, flush cursor, unmapping queue | add, log, flush, close, unmap, read | closed sections are flushed; a reader reaches an end in whatever a death of the process leaves, and reads a prefix of each stream |
| Debugger (`debug.rs`) | index over sections, keyframes, cursor, runtime bytes | goto by id, goto by time, step | the application shows the list at the cursor; jumps land where they were sent |
| Distributed replay (`distributed_replay.rs`) | a graph over the lists of all logs, open dependencies, ready set, frontier; a session and a runtime per log | step, run all, goto, reset | every list after those that caused it, in one order; new logs equal the old ones |
| ISO-TP codec (`components/tasks/cu_isotp`) | reception and transmission state machines | process | PDUs complete or not delivered; timers end every wait |
| UDS server and client (`components/tasks/cu_uds`) | session, table of data identifiers, S3 timer; ring of requests, P2 timer | process, enqueue | a response belongs to the request waited for; sessions end by the rules; no wait without end |
| Execution planner (curuntime 1555-1813) | none: a function of the graph | `compute_runtime_plan` | topological order, complete |

Everything else (configuration, monitoring, bridges to other middleware,
drivers, payloads, derives, examples) is listed in `PROJECT.json` with the
reason it is left out.

### How they interact

The dispatcher and the workers share nothing but channels, two flags
(`STOP_FLAG`, `shutdown`), the component locks and the keyframe manager behind
its lock. A list goes dispatcher -> queue 1 -> worker 1 -> ... -> last worker ->
result channel -> dispatcher; a list that aborts or fails takes the result
channel from where it is, and so overtakes those before it. The dispatcher
commits through the CopperList manager, which with `async-cl-io` passes the
list to a serializer thread and gets it back on another channel. Keyframes are
reset by the dispatcher at launch, filled by each worker, and logged by the
dispatcher at commit.

A background task is polled by the loop and run on a thread of a pool that all
such tasks share. Poll and run meet in three locks: the task's, the output's,
and the state's (processing, ready time, last error); start and stop take the
task's. Managers and structured log write to streams of the unified log, which
share a mutex when they open and close sections and nothing while they append.
A debug session and a fleet replay both run `run_one_iteration` of an
application over a recorded log, from a keyframe where they must go back. The
UDS client and server speak through two ISO-TP codecs, these through CAN
frames.

### What is hard

Results arrive out of order; a keyframe is taken while later lists are
upstream and earlier ones downstream; the failures of several stages race and
only the first in id order may count; every thread must terminate after a
failure anywhere; boxes travel through up to five owners; the queue sleeps and
wakes with flags read and written in opposite orders; the limiter is compared
with the clock twice in one iteration; a poll reads the state of a background
task before it takes the output; a process dies between the writing of a
section and of the marker behind it; a late frame or response meets a machine
that has moved on; a jump fails half-way and the next one starts from what it
left. `PROJECT.json` lists each of these at its line under `hazards`, with the
properties aimed at it.

## 2. The modules

| Module | What it is |
|---|---|
| `OrderedCommit` | abstract: ids handed out one by one, log = 0, 1, 2, ... |
| `ParallelRuntime` | the generated `run()` of `parallel-rt`, its workers, keyframes, limiter and serializer thread |
| `MCParallelRuntime` | the plans (stage to component) of its instances |
| `StageChannel` | abstract: bounded FIFO channel whose two ends may leave |
| `StageQueue`, `MCStageQueue` | `parallel_queue.rs`, one action per shared-memory access |
| `CopperListRing` | `CuListsManager` and, on top of it, `SyncCopperListsManager` |
| `KeyFrames` | `KeyFramesManager`: the interval, and what a replay locks and logs |
| `SequentialRuntime`, `MCSequentialRuntime` | the generated `run_one_iteration` and the keyframes it takes, over that ring |
| `Recording` | a log as a replay sees it: sections, the index over them, the searches |
| `ReplaySession` | what a session does to an application: restore a keyframe, run on, fail in the middle |
| `DebugSession` | `CuDebugSession`: the jumps of a user |
| `CausalReplay` | abstract: every list after its causes, the first in order of those that may come |
| `DistributedReplay` | the engine that replays the logs of a fleet |
| `MCReplay` | logs and fleets; sequential runtime, debug session and fleet side by side |
| `LoopRateLimiter` | the limiter, with the arithmetic of its deadlines |
| `OneSlotTask` | abstract: each background task has one slot for a result |
| `AsyncTask` | `cuasynctask.rs`: poll, publication, and the run on the pool |
| `TaskLoop`, `MCTaskLoop` | the sequential `run()` with background tasks and a rate target |
| `AppendLog` | abstract: of each stream a reader gets a prefix that does not shrink |
| `UnifiedLog`, `MCUnifiedLog` | writer, slabs and reader of the unified log |
| `PduChannel` | abstract: a PDU arrives in order and once, or not at all, and whole until the channel is torn |
| `IsoTp` | the two state machines of the ISO-TP codec, twice, over a bus |
| `Uds` | UDS client and server |
| `MCDiagnostics` | `IsoTp` and `Uds` side by side |
| `*_proofs` | the theorems about `ParallelRuntime`, `StageQueue`, `SequentialRuntime`, `TaskLoop`, `UnifiedLog`, `IsoTp`, `Uds`, and, in `Replay_proofs`, about `DebugSession` and `DistributedReplay`, which share their lemmas |

How they are composed:

* `ParallelRuntime` treats each stage queue as the FIFO channel that `StageQueue`
  is shown to implement; the two meet in `StageChannel`.
* `SequentialRuntime` EXTENDS the ring and the keyframe interval; `TaskLoop`
  EXTENDS background tasks and limiter; `DebugSession` and `DistributedReplay`
  EXTEND `ReplaySession`, which EXTENDS `Recording`.
* `Uds` takes from its transport what `PduChannel` allows until it is torn, and
  `IsoTp` is checked to implement `PduChannel`, and to tear it only under `MayMix`.
* `MCReplay` and `MCDiagnostics` let a behaviour be one of several layers, chosen
  by `layer` at the start, so that what shares constants and library modules
  shares a run. The layers do not influence each other.

### ParallelRuntime and the code

A list is its id, because nothing in the control flow looks at the payload; a
box is counted where it lies. The local variables of the dispatcher keep their
names. `dpc` is its place in the loop:

| `dpc` | action(s) | derive |
|---|---|---|
| `top` | `Reclaim` (may return early) | 3860-3862 |
| `dispatch` | `Launch`, or `SkipLaunch` when `LaunchReady` fails | 3864-3925 |
| `idle` (nothing in flight) | `Leave`, `WaitReclaim`, `AskLimiter` | 3927-3941, 4099 |
| `sleep` | `WakeUp`: `wait_until_ready` returned | 3937 |
| `wait` | `StartWait`: receive with or without timeout | 3943-3963 |
| `recv`, `recv_timeout` | `Receive`, `Timeout` | 3965-3981 |
| `commit` | `Submit`, `CommitError`, `Discard`, `CommitDone` | 3983-4097 |
| `submitted` | `Finish`: second half of a commit | 4050-4092 |
| `drain`, `join`, `done` | `Drain`, `Join` | 4099-4110 |

A commit is two actions because the serializer thread may complete a box
between the submission and the second reclaim of `end_of_processing_boxed`.
Every `?` inside the scope is `EarlyReturn`: the dispatcher's channel ends are
dropped, the workers notice, the scope joins them.

A worker is `Recv`, `Run`, `Forward`, `Report`, `Disconnect`. `Run` is the whole
step under the component's lock: freeze, `process`, the monitor's decision,
and the outcome the worker makes of it; a panic poisons the lock and whoever
takes a poisoned lock panics. Because a queue's `recv` looks at the ring and
then at the liveness of its sender, `Disconnect` may leave a job behind that
was sent in between; `StageQueue` shows that this is all it can leave.

Time is one bit, `rate_ready`: has the next deadline passed. `ran` and
`late_launches` are history variables; nothing reads them but properties and
the states put into keyframes (a component's state is what it has processed).

### StageQueue and the code

Each atomic load, store or read-modify-write of `send`, `recv` and the drops is
one action; the labels of `pc` follow the source. The ring itself is the
`rtrb` crate: modelled from how it is used, push and pop each read the peer's
cursor once and publish their own (the crate's cached copy of the peer's
cursor only makes it see less, and it refreshes it before it answers full or
empty). The variable `memory` is chosen at the start and never changes: `"sc"`
is sequential consistency, `"tso"` one FIFO store buffer per thread as on x86,
which the Release/Acquire orderings of the source allow. Weaker machines allow
more still.

### CopperListRing, SequentialRuntime and the code

`CopperListRing` keeps the fields of `CuListsManager` by name; a list is its id
and state. Its operations are `Create` and the two ways `end_of_processing` can
go: `EndOfProcessing` marks the list, walks `iter_mut` from the newest list on,
logs and frees those that are done until it meets one that is not, and pops as
many; `EndOfProcessingFails` is the `?` on the logger, after which the lists
before the failing one are free but not popped and that one stays
`BeingSerialized`. They are composed by `SequentialRuntime`, which EXTENDS it:

| `pc` | action(s) | derive |
|---|---|---|
| `idle` | `Begin` (create, reset the keyframe), `RunOutOfSpace`, `Stopped` | 4134-4172 |
| `steps` | `Step`: freeze, process, decision of the monitor | 4173-4178, 8232-8350 |
| `abort`, `end` | `EndList`, `EndListFails` | 4179-4192 |
| `keyframe` | `LogKeyframe`, `LogKeyframeFails` | 4193-4194 |
| `postprocess` | `Postprocess`: freeze and call each bridge | 4206, 2782-2851 |

A step ends in `Continue` (no error, or one to ignore), `Abort` (the rest of the
steps is skipped, the list is logged), `Shutdown` or `Panic` (the iteration
returns and its list keeps its slot, still `Processing`; `lost` remembers it).
`run` stops at the first error; `run_one_iteration` is also called one by one
by simulations and debuggers, which may go on, so the model may always begin
another. Freezing itself is taken not to fail: a failure would lose the list
like a shutdown.

### TaskLoop, AsyncTask and the code

`lpc` is the place in `run()`, `at` the task whose turn it is:

| `lpc` | action(s) | code |
|---|---|---|
| `start`, `stop` | `Start`, `Stop`: each task under its lock | derive 4224-4262, `cuasynctask.rs` 193-199, 252-258 |
| `limiter` | `MakeLimiter` | derive 3715-3723 |
| `poll` | `Poll`: `PollError`, `PollEmpty`, `PollReady` | `cuasynctask.rs` 38-56 |
| `publish` | `PollPublish`: copy the output, queue the run | `cuasynctask.rs` 58-64, 211-218 |
| `limit` | `LimitRate`: wait for the deadline, stop or go on | derive 3745-3751 |

The closure on the pool is `Take`, `LockOutput`, `LockTask`, `Process`,
`FinalizeOk` or `FinalizeErr`, `UnlockOutput`; between any two of them the loop
may poll. A payload is the number of the run that set it. A panic in the pool
ends the process (no panic handler is installed), so that no lock is ever found
poisoned. `CuAsyncSrcTask` is the same without an input.

### UnifiedLog and the code

Sizes are in units: an entry, a section header and an end marker take one, a page two,
a slab eight. `files` is what is in the files, `slabs` what the writer knows of each
mapping (write position, flush cursor, sections in flight), `streams` each stream's
open section. Opening a section takes the logger's mutex; the variable `lock` holds it
between the section header and the end marker (`PlaceEndMarker`), the two stores a
death of the process can fall between. A store to a mapping is in the file at once for
whoever opens it, so death needs no action of its own: what a reader finds (`Reading`)
is a function of `files`, and the properties hold it against the log in every state.
`synced` is how far a slab was flushed: the flush is asynchronous
(`flush_async_range`), so that this is what was handed to the operating system to
write. `NextRun` is another run over the files of the one before, of which it
truncates the first only.

### Recording, ReplaySession, DebugSession and the code

A recording is a sequence of lists `[id, ts, origins]`, the places where its sections
end, and a set of keyframes. `WellFormed` is what a runtime's log is and what the
binary searches of the index take for granted: ids ascend, and so do times where there
are any. A search returns the set of what it may find: empty where the code returns an
error, several sections where several start at the time that `binary_search_by` looks
for, else one. The state of the application is how many recorded lists it shows,
counted from the start of the log, or `Torn` after an operation that failed half-way,
or `Mixed` after lists were run on a state that was not theirs. An operation
(`goto_index`, `replay_range`) is the set of its outcomes: the session after it, the
places of the lists that were run, and whether it returned Ok; `times` is what the
clock is set to for each list. The debugger picks one (`Jump`, under `GotoCl`,
`GotoTime`, `StepBy`).

### DistributedReplay and the code

A fleet is a sequence of recordings, a node `<<log, id>>`. `remaining`, `ready`,
`executed` and `frontier` are the fields of the engine. A call is a loop of
`StepCausal`: `calling` is the call, `target` the node of a goto; `Continue` and
`NothingReady` end it. The runtime of a log keeps its next id, its keyframe
manager and what it has logged; a frozen state says who froze it before which
list, so that a keyframe that is logged verbatim can be told from one that was
frozen again. `given_up` is a history variable.

### IsoTp, Uds and the code

A chunk is what one CAN frame carries of a PDU, `<<pdu, index>>`. Timestamps are
ages that stop growing where nothing depends on them. `Process(n)` is one call
of `process()`: a received frame, the timers, the transmission, in the code's
order. `Tick` is longer than a frame takes on the bus and than a cycle of the
runtime. `mode` is the set of what may go wrong in a behaviour: `overlap` (a PDU is
handed over while another is being sent, which `start_tx` then forgets), `lossy`,
`foreign` (flow control nobody asked for), `blocks` (a block size other than 0).
`lost` remembers that a frame was lost. A PDU that comes out with chunks of
another is counted as `-p`, `p` being the one whose first frame began it.

In `Uds` the client's ring is a sequence, `Timestamp` an age with the flag
"is zero", which turns a timer off (zero is also what a clock shows first), and
services are grouped by what they do to the server: session control, reset,
those that only may be told not to answer (tester present), write by identifier,
others. Whether the suppress bit of a request is set is chosen when the server
handles it. `NewTable` is what `UdsServer::new` puts into the table of identifiers.

## 3. The runs

| Run | Instance | What it shows |
|---|---|---|
| `parallel_pipeline` | a source, a task and a sending bridge as three stages, 3 boxes, keyframe interval 2, four lists; aborts, errors, panics, failing log; fairness | each list answered once; queues never block; keyframes are consistent cuts in restore order; nothing but the clock holds an idle dispatcher; nothing is logged at or after the first failure; the log is OrderedCommit's; after a stop `run()` returns if the stage queues lose no wake-up |
| `parallel_async` | two stages, 3 boxes, five lists, serializer thread, limiter, failing log and monitor | every box has exactly one owner; at most one launch after Ctrl-C |
| `queue_queue` | capacity 2, four items, both memories; fairness | a bounded FIFO channel; `recv` fails only with what it could see taken; `send` returns; with `sc` no wake-up is lost |
| `replay_sequential` | 3 slots, 5 lists, three steps, all endings; 4 recordings and 7 times; 6 fleets of up to 3 logs and 5 lists | the ring is a stack in id order; the log is complete but for lost lists; slots are lost only with lists; keyframes are prefixes and belong to a logged list; the debugger shows the list at its cursor, and lands at the id, the step or near the time it was sent to; the fleet's order, no deadlock but on circles, new logs like the old ones |
| `task_background` | period 2, 2 tasks on 1 pool thread, 2 runs each, 2 calls of `run()`; fairness | one run at a time; polls never wait for a run; one slot per task; every run ends; the limiter keeps its phase |
| `unified_log` | two streams with sections of 3 and 2 units, slabs of 8 units, at most 3 slabs, 2 runs | types; closed sections are flushed; a reader always reaches an end marker; what it reads is AppendLog's |
| `diagnostics_layers` | block size 1, one unit of STmin, timeouts of 2, PDUs of 1 and 3 frames, 2 faults, modes none, `lossy`, `foreign`, `blocks`, and `overlap` with `lossy`; ring of 3, P2 1, S3 2, table of 2 with one entry, three requests; fairness | PDUs in order and once, and whole unless `MayMix`; without faults they arrive; every wait ends; responses belong to requests unless one timed out; sessions end by the rules; requests are sent |
| `parallel_rated_stop`, `parallel_async_stop`, `queue_lost_wakeup`, `sequential_bridge_restore`, `unified_end_marker` | as small as shows it | section 4 |

**Bounds.** `MaxClid` (Ctrl-C at the latest with that launch), `MaxItems`,
`MaxTime`, `MaxRuns`, `MaxCalls`, `MaxEntries`, `MaxSlab`, `MaxPdus`, `MaxFaults`
and `MaxRequests` are guards of the models and named so in the modules. Why the
instances are large enough:

* three stages for overtaking by aborts (stage 1 against 2 or 3) and for a
  keyframe with lists on both sides; three boxes for launch gate, reordering
  map and shortage of boxes; four or five lists for every box to be reused and a
  keyframe interval to end. Two slots and four items fill, empty and wrap the
  queue's ring twice. In the sequential runtime three slots and five lists let
  failures fill the ring behind, between and in front of lists that succeed, and
  wrap the insertion index.
* two tasks on one pool thread let one wait for the other's run; a second call of
  `run()` meets what the first one left on the pool; the clock can pass a deadline
  by less and by more than a period.
* with slabs of eight units a section may fit, fit without its marker, or not
  fit; two streams keep a slab mapped while the other goes on; a second run
  meets files that are longer than its own.
* the recordings have a gap in the ids, lists without timestamps, a keyframe without
  its list, several lists and several sections of one time, nothing to rewind to, and
  nothing at all. The fleets have lists caused by several others, a circle, a list
  that caused itself, an aborted list, a gap, a keyframe that this runtime's interval
  does not capture, no keyframe, and no log.
* a PDU of three frames has a middle one; two faults are as many wait frames as
  make a sender give up; with `overlap` and `lossy` mixtures do come out (the run
  reaches a state with `delivered` containing `-1`), and before the first loss it
  is `overlap` alone; three requests are one more than a ring of three holds, in
  which one place stays empty.

**Deadlock** is checked in all passing runs but `parallel_async`, where the model
(and the code) really does stop (section 4), `task_background`, which ends when
the bounds on time and calls are reached, and `unified_log`, which ends when the
files are full.

**Fairness.** `parallel_pipeline` and the two `_stop` runs: each thread that can step
does (weak fairness of the dispatcher, of each worker with a list or with its sender
gone, and of the serializer), and the deadline comes. That a worker takes a list from
a queue that is not empty is *not* among it: `recv` may park on such a queue
(`queue_lost_wakeup`, section 4). `StopTerminates` states it as its hypothesis,
`QueuesDeliver`: if no wake-up is lost, a stop is followed by the return of `run()`.
Without it `run()` may hang on a stop, as it waits for the lists in flight with its
senders open. `queue_*`: the threads that are in `send` or `recv` step, store buffers
drain, a worker calls `recv` again. `task_background`: the loop, the pool and the
clock go on. `diagnostics_layers`: the runtime calls `process()` of every codec,
client and server again and again (they are tasks of its loop), and time passes. These
are scheduling by the operating system and by the loop the macros generate. Nothing is
assumed of Ctrl-C, of another item being sent, of an end leaving, of `park` returning
without reason, of frames or responses being lost, or of a frame that is not lost
being anything but next in order.

Liveness is not asked of the replay and of the log: a session does what its user
calls, and a log may end at any moment.

## 4. Where the code does not do what it says

| Run | Property | What TLC shows |
|---|---|---|
| `parallel_rated_stop` | `StopTerminates` | The limiter is asked at derive 3866 and again at 3935. If the deadline passes in between while nothing is in flight, neither the launch nor the timed sleep is taken and the dispatcher enters a `recv()` without timeout that nobody will answer. `run()` then neither continues nor stops. |
| `parallel_async_stop` | `StopTerminates` | With `async-cl-io`, boxes that complete while the dispatcher submits another go to the manager's free pool (curuntime 811, 826, 878). The dispatcher never takes from that pool; after `NBCL` such boxes it waits in `wait_reclaim_boxed` for one that cannot come. |
| `sequential_bridge_restore` | `KeyframeRestorable` | The sequential body logs the keyframe (derive 4193) and only then freezes the bridges, in their postprocess (2821). No logged keyframe holds a bridge, yet `restore_keyframe` decodes them all after the tasks (4219, "restore them in the same order", 2863). |
| `queue_lost_wakeup` | `Delivered` | `recv` publishes `receiver_waiting` with Release and then reads the ring with Acquire; the load may be performed before the store is seen, the sender finds the flag down, and the receiver parks on a non-empty queue until the next item or a disconnection. After a stop neither comes: the dispatcher waits for the lists in flight and drops its senders only then, so that `run()` may hang. |
| `unified_end_marker` | `MarkerEndsLog` | When the newest section does not fit, the old end marker stays in the file of the full slab (`memmap.rs` 261-268, 654-668) until the slab is unmapped. A reader that opens the files after the process died stops there and does not find sections that were closed in the next slab. |

Also met while modelling, and in the models, without a run of their own:

* Keyframes. An aborted keyframe list is committed without its keyframe (derive
  3999 skips `end_of_processing`; so does the sequential body, 4179-4185). A
  bridge of the parallel runtime is frozen after its *last* stage (7800, 8746), by
  when a receiving stage may have run for later lists: `KeyframeIsPrefix` and
  `KeyframeRestorable` fail for plans with a receiving bridge in front, which is
  why `parallel_pipeline` has a sending one. `lock_keyframe` leaves the forced
  timestamp set, so that a later keyframe without a recorded counterpart gets a
  stale time (curuntime 980-990); where the log has lost lists, the replaying
  runtime's ids drift from the recorded ones and a locked keyframe is logged on
  another list than "the matching CL".
* ISO-TP. A mixture of two PDUs comes out when the flow control of the first
  meets the second: the first frame of PDU 1 was received, PDU 2 is handed over
  (`start_tx`, 388-416, overwrites the transmission) and its first frame is lost,
  the flow control of PDU 1 clears PDU 2, whose consecutive frames complete the
  buffer of PDU 1. Flow control by another ECU that ends PDU 1 does the same. The
  UDS client may bring it about: it sends its next request after P2, which may be
  shorter than N_Bs. With a block size other than 0 the receiver never sends the next flow
  control; the N_Bs timer is not restarted at the end of a block; a PDU handed
  over in the cycle of a received first frame is dropped, and a single frame
  handed over during a transmission breaks the peer's reassembly.
* UDS. A response that is late, after P2 gave its request up, is taken for that
  of the next request, and so are all that follow; a tester-present with
  suppressed response costs a P2 timeout; a request sent at time 0 never times
  out; the ring holds 7 requests, not "up to 8".
* Background tasks. A run that is queued may start after `stop()` of its task.
* Unified log. A disk that is full when a slab is created leaves a closed
  section behind. A death between the section header and its end marker in a
  slab with an older file behind it lets a reader run on into the older run's
  sections. A first section that does not fit in the first slab behind the main
  header (`add_section`, `memmap.rs` 648-668, takes the next slab) leaves that
  slab without any header: a reader of a log whose writer died stops there.
* Debugger. `goto_time` ("the first copperlist at or after a timestamp", debug.rs
  580) searches the first section that *starts* at or after the time, and so
  passes over the rest of the section the time lies in. Of sections that start
  at the time it takes any (`binary_search_by`, 341-353), where its comment says
  the first (331). `JumpsLand` says what is left of the promise: a list at or
  after the time, the first such of its section, and, where every list has a
  time, either a list of that very time or one of the first two sections with a
  list at or after it. `scan_copperlist_section` returns an error for a section
  without used bytes, so that `if len == 0 { continue }` in `index_log` is dead
  and the log of a process that died cannot be opened. After a rewind that
  failed the cursor is stale: later jumps forward report success on a state that
  is not the recording's, and a jump to the cursor itself returns Ok
  (`ShowsTheRecording` makes the exception).
* Distributed replay. `step_causal` takes the node from the ready set before the
  replay that may fail, so that the failed step cannot be tried again without
  a reset. Two lists that exchange messages both ways deadlock the replay. A
  recorded list with neither timestamp nor keyframe, or a keyframe which the
  replaying runtime's interval does not capture, fails to replay.

## 5. The proofs

Each theorem is about the specification of one module, for every value of its
constants allowed by the module's named assumptions (types only; no proof uses
a bound). Liveness under fairness stays with TLC.

What a loop leaves behind needs induction over data, which the library states
with an operator as a parameter. Where a proof needs it (`Replay_proofs`) it takes
the smallest place at which the claim would fail, by the lemma `Smallest`, a fact
about one set of naturals.

**`ParallelRuntime_proofs`**, for every plan, number of stages and boxes,
interval, log path and mix of failures:

* `TypeCorrect`: `Spec => []TypeOK`. `TypeOK` is inductive as it stands, because
  it says of a busy worker that it holds a job and of a reporting one that it
  has an outcome: that is what makes the messages on the result channel well
  typed. One lemma per action, `TypeNext` puts them together.
* `CursorCorrect`: `Spec => []CommitCursorInv`. Its two parts need each other:
  `IdsLaunched` (every id in a queue, worker, channel or the map was launched)
  bounds what the commit can append; `LogMeetsCursor` (log followed by the
  serializer's queue ends at the commit cursor until the run fails, plus one
  between the halves of a commit) says which id comes next. After a failure the
  queue still continues the log, which is all that is needed then.
* `Refinement`: `Spec => ImplementsOrderedCommit`. With the two invariants a
  launch is `HandOut`, a synchronous `Submit` or a `Serialize` is `WriteNext`, and
  every other step leaves ids and log alone.
* `StopLatencyCorrect`: `Spec => []StopLatency`, from "no launch was late, or one
  was and it closed the gate".

The same module, where the lists and the boxes are:

* `AnsweredOnceCorrect`. Counting is not inductive by itself; `ListInv` says
  instead where the lists are. A place is a stage queue, a worker, the result
  channel or the reorder map; `OnePlace`: no list is in two places, `OnceEach`:
  none is twice in one, `OnTheWay`: together the places hold exactly the ids from
  the commit cursor up to the next launch, as long as the dispatcher listens.
  `CountInv` adds that `in_flight` counts those that are not in the map.
* `BoxesCorrect`: `BoxInv` follows the boxes through dispatcher, serializer and
  manager; with `NoPanic` (a panic is in a result, or at a worker, only if the
  tasks can panic) none is lost but to a panic.
* `NeverBlockedCorrect`: `WindowInv`, a list has a box until it is written, so that
  at most `NBCL` lists are on their way; since each is in one place, a queue that
  some list is about to enter is not full.
* `FailureCutsLogCorrect`: `CutInv`, log and serializer's queue are ahead of the
  commit cursor by at most the list whose commit is being finished, which did
  not fail.
* `IdleCorrect`: `IdleOnlyForClock` when the dispatcher writes the log itself. With
  `AsyncIO` it is not true: all boxes may be with the serializer (`WaitReclaim` is
  there for that), or left in the manager's pool (`parallel_async_stop`).

The same module, for every plan that executes no component at two
stages (`OneStageEach`; for a receiving bridge in front the properties are false,
see section 4). The plans of the runs are of this kind.

* `KeyframesArePrefixes`. `OrderInv`: the lists a stage has run or holds are below
  those still to reach it, in every queue and worker before it; so a list that is
  run has a higher id than all the stage ran before. `FrozenInv`: what was frozen
  at list k is what the stage ran below k, which later lists no longer change.
* `KeyframesComplete`, `KeyframesRestorable`. `OneKeyframe`: of the lists on their way
  at most one captures a keyframe, and the keyframe at hand is its own.
  `FrozenSoFar` ties the number of stages in it to the place of the list, so that a
  list that comes out with `Continue` has them all. The order of
  `restore_keyframe` follows when only the last stage may be a bridge.

**`StageQueue_proofs`**, for every capacity and both memories:

* `TypeCorrect`, and `ChannelRefinement`: the queue with its store buffers
  implements `StageChannel`. The invariant relates what a thread has done to what
  its buffer still hides. `SlotsHold`: every item between the cursors is in its
  slot, and by `SlotsApart` (fewer than `Capacity` apart means different slots) a
  push overwrites none. A push maps to the channel's send, a pop to its receive,
  the drop of an end to its leaving; a `Flush` stutters.
* `FailsOnlyEmptyCorrect`: `recv` returns disconnected only when all it could see
  was taken. `TailsInOrder`: the sender's cursors become visible in the order in
  which they were written. `SeenTaken`: what was in the ring when `recv` was
  called is taken before the receiver believes the ring empty.

**`SequentialRuntime_proofs`**, for every plan, number of slots and mix of failures:

* `RingIsAStack` and `EndsItsOwn`. `RingIsStack` alone is not inductive: pop
  could take a list that is not the one just logged. `RingInv` adds that the
  list in process is the newest, still `Processing`, and that no other list
  waits in `DoneProcessing`. Three lemmas say what `Create` and the two ends of
  `end_of_processing` do to such a ring; `IterOrder` (the iterator yields the
  slots from `length - 1` down to 0) and `OneDone` (exactly one list is logged)
  are what they rest on.
* `TypeCorrect`: types need `RingInv`, which makes the id in process a natural.
* `LogComplete`: `LoggedUnlessLost` with "lost ids were created, and the one in
  process is not lost"; `AppendLog` is the lemma about sequences.
* `SlotsAccounted`: `SlotsLostToErrors` with "lost is finite".
* `KeyframesHaveLists`: `KeyframeHasList` with "the keyframe at hand is that of
  the list in process, which is in the log once it has ended".
* `KeyframesArePrefixes`: `KeyframeIsPrefix`, under `TasksOnce` (no plan runs a task
  at two steps, as the planner's do not). The invariant says which tasks the
  keyframe in the manager has, by the place of the iteration in the plan; a
  failed iteration leaves them behind, and the next capture starts over.

**`TaskLoop_proofs`**, for every number of tasks and pool threads, every period:

* `TypeCorrect`, `OneRunCorrect`, `PollsNeverWait`. `OneRun`: a task is marked as
  processing exactly when it is about to be queued, queued, or run by one
  thread. `LockInv`: a lock is held by the thread whose place in its run is
  between taking it and giving it back. From these a poll that finds the mark
  down finds the locks free.
* `OneSlotRefinement`: with `RunInv` (what a run holds is the run last started) and
  `OutputInv` (between runs the output and the error are those of the last run)
  the polls and the ends of runs are those of `OneSlotTask`.
* `PhaseCorrect`: the deadline stays a whole number of periods from the
  limiter's start, and is the first such time after the last tick.

**`UnifiedLog_proofs`**, for any number of streams, every size of section, slab and
page, and a death of the process between any two steps:

* `TypeCorrect` and `ClosedOnDisk`: `Spec => []TypeOK`, `Spec => []ClosedIsFlushed`. The
  first alone is not inductive: that the cursor never goes back needs to know
  where the sections lie. `SlabInv`: those in flight lie in order between what is
  flushed and the cursor; `FileInv`: a closed section lies before the cursor,
  flushed; `OpenInv`: what a stream may still write to overlaps no closed section
  and no other stream's. One lemma per operation of a slab (`SectionAdded`,
  `SectionFlushed`, `MarkerPlaced`, `Cleared`), one for each step of the logger on
  all of them. `Align` and its lemmas on quotients use that a slab is a whole
  number of pages; the marker may start a page and still fit.
* `ReaderEnds`: `Spec => []ReaderReachesMarker`, for sizes with which a first section
  fits in the first slab behind the main header (`FirstFits`; without it the
  property is false, see section 4). `Follows` are the offsets that the headers of
  a file lead to. `ChainInv`: in every file but the front slab's they are headers
  or the end of the file (`Finished`); in that one all but the place where the
  next section or marker goes are headers (`FrontOK`), and a marker closes the gap
  (`Sealed`). `MarkInv` says when there is a marker: whenever no `add_section` is
  under way and some stream was opened. A cut (`Cut`) drops only headers behind
  the cursor, and a full slab has none missing (`FullFinished`). That the reader,
  a recursion over the files, has a result at every position follows from `Left`,
  how much of the files is left, which every header makes smaller.
* `ReadsBackThePrefix`: `Spec => ImplementsAppendLog`, for the same sizes. The
  refinement mapping, what a reader recovers, is a recursion over the files;
  `ContentHere` and the lemmas around it show that it collects what the sections
  count that no end marker lies before (`Seen`). `DataInv` says what they count:
  each section of a stream holds the entries after those of the stream's earlier
  sections (`Numbered`), only the open one, the stream's last, counts none yet,
  and all together count what was logged but for that section's (`StreamOK`); in
  every file the marker is behind the sections (`MarkersOK`), so what a reader
  gets is a first part of that; a file left of an earlier run holds only entries of
  earlier runs (`DataOK`). One lemma per change of the files (`DataOpened`,
  `DataPut`, `DataClosed`, `DataMarked`, `DataCut`, `DataCreated`, `DataBegins`) keeps
  this and what a reader got before.

**`IsoTp_proofs`**, for every size of PDU and block, every timer, any number of lost
frames and every combination of what may go wrong (`Modes` is any set of subsets):

* `TransportConsistent`: types, and `Channel` in both directions. It relates what a
  receiver has, the frames on the bus behind it and the sender's place: each
  consecutive frame `Fits` the data frame before it, or the receiver; the PDUs
  that start on the bus are younger than any that came out. How much is known
  depends on the kind of the channel (`Kinds`), and the invariant holds for every
  kind it is at present of: `ordered` until a frame is lost, `lossy` without early
  hand-overs and foreign flow control, `torn` always. On a lossy channel
  (`LossyOK`) a buffer may have a hole, and what keeps such a PDU from
  coming out is that its last chunk's index is then larger than the buffer's
  length, up to the end of the PDU; sequence numbers wrap at 16 and are not
  enough.
* `PduRefinement`: `ImplementsPduChannel`. A PDU that comes out is younger than those
  before it, and on a channel that is ordered or lossy it is `Chunks`, whole. Only
  where frames were lost and PDUs overlap, or others send flow control
  (`MayMix`), may it be a mixture.

**`Uds_proofs`**, for every ring, table and timer:

* `TypeCorrect`, `QueueKept` (the ring is the requests made and not yet sent, in
  order), `TableKept` (the table keeps its size and has each identifier once),
  `Matching` (unless a request ever timed out, a response is that of the request
  waited for; it is inductive because it also says that requests and responses
  on their way are at most one), `SessionsEndByRule` (a session
  ends when told to or after S3, and nothing is written once S3 has passed).

**`Replay_proofs`**, for every well-formed recording of any length, and every fleet of
finitely many lists:

* `ShowsRecording`: `DebugSpec => []ShowsTheRecording`. The claim is inductive for
  jumps, but each jump is a loop over lists. `Ranged` says what `replay_range`
  leaves behind, `Arrived` what a whole jump does: from a state that shows the
  lists before the range, the session shows the list it stops at, and one in
  pieces stays so. Going back (`RewindArrives`) starts at a keyframe at or before
  the target.
* `JumpsToTarget`: `DebugSpec => JumpsLand`. An id is found in one section only,
  because sections follow each other and ids ascend. Of the sections that start
  at a time any may be found, and then the list is of that very time; if none
  does, the section before the one found starts before the time, so that the
  list is at most one section beyond the first there is (`NearTime`). A jump that
  fails and moved is torn on the way to its target, never behind where it was
  when the target lies ahead.
* `Refinement`: the engine implements `CausalReplay`. The engine never computes
  from the graph which nodes may be replayed; it keeps counts and a set.
  `Counts` says that a node's count is the number of its sources that were not
  replayed, `ReadyIsReady` that the set is the abstract one, `HadTheirTurn` that
  whatever was replayed or given up had no source left: without it a node that
  failed could become ready again.
* `NeverStuck`: with nothing ready and nothing given up, whatever was not replayed
  waits for something else that was not, which is a circle.
* `ReplayIsFaithful`: `EngineSpec => []OutputFaithful`. `FleetInv` says of each log that
  its lists were replayed in order (`Followed`: what is executed is what comes up
  to the frontier, which is the session's cursor and the runtime's next id), and
  that what the runtime logged is `Copied`: the lists up to there and a keyframe
  for each that it captures one for, verbatim where the recording has one, else
  frozen before the list. Keyframes are only compared where the recorded log
  lost no list, since the new runtime counts its own.

Type correctness of these two modules is only proved: no run spends time on it.

**Only model-checked.** Liveness: `StopTerminates` (under `QueuesDeliver`),
`SendReturns`, `DeliveredInOrder`, `RunsEnd`, `PdusArrive`, `WaitsEnd`,
`RequestsSent`. Nothing is shown of the keyframes of the parallel runtime for plans
with a component at several stages.

## 6. Not modelled

* Of the parallel body: keyframe timestamps locked by a replay, a second `run()`
  on one application, the keyframe lock being poisoned, builds without a logger.
* Of the sequential body: start and stop of tasks that are not in the
  background and of bridges, what preprocess and postprocess do to a task's
  state, managers without logger; of the ring, operations no runtime path calls
  (clear, peek, the ascending iterators).
* `AsyncCopperListsManager` under the sequential body (create, end of processing,
  shutdown).
* Of the log: sections larger than a slab, a loss of power before pages are
  written (only a death of the process is modelled), a poisoned mutex, the
  block size of non-compact builds, seeking. A disk that is full.
* Of the debugger: the cache of sections, which holds copies of what is in the
  file, and reflection. Of the distributed replay: discovery of logs,
  validation of a plan, paths and sizes of the new logs.
* `remote_debug.rs`: a server that handles one request after the other, each by
  calls of a debug session; simulation's overrides of steps.
* Of ISO-TP: malformed frames, CAN id filtering, PDUs above the maximal size, and
  empty ones, which `start_tx` does not send (it returns None, and the cycle goes on
  with `tx_next_frame`, as without a PDU). Of UDS: SecurityAccess, whose level no
  other service looks at, reading, malformed requests, contents of responses.
* The monitor is a nondeterministic decision, `process` an outcome out of
  continue, abort, error, panic. Payloads, encoding and metrics are left out.
* Configuration, rendering, planner, derives, units and values: functions
  without behaviour over time, left to unit tests. Generated DBC code, drivers,
  external bridges, codecs and examples: I/O and data. These are the greater
  part of the repository's lines.

## 7. What is left

1. `AsyncCopperLists`: create, finish and shutdown of the manager, under the
   sequential runtime; a second `run()` of the parallel body.
2. `SequentialRuntime` loses lists and so implements `OrderedCommit` only as long
   as no iteration returns early; an `OrderedCommit` with gaps that both runtimes
   implement.
3. `RuntimePlan`: the planner as a function on small graphs.
4. A remote debug server with several clients over one session.
5. Proofs: the keyframes of the parallel runtime where a component is at several
   stages.
