------------------------- MODULE DistributedReplay -------------------------
(***************************************************************************)
(* distributed_replay.rs: the engine that replays the logs of a fleet      *)
(* together, each in a session of its own, every list after the list       *)
(* before it in its log and after those that its messages came from.       *)
(*                                                                         *)
(* A fleet is a sequence of recordings, in the order of instance and       *)
(* subsystem; a node is <<log, id>>.                                       *)
(***************************************************************************)
EXTENDS ReplaySession, KeyFrames

CONSTANT Fleets

VARIABLES
  fleet,
  sessions,     \* log -> ReplaySession
  runtimes,     \* log -> the application's runtime: its next list's id, its
                \* keyframe manager, and the lists and keyframes it has logged
  remaining,    \* node -> remaining_dependencies
  ready, executed, frontier,
  calling, target,   \* the call in progress, and the node of a goto
  error,             \* what the last call returned
  given_up      \* history: nodes whose replay failed since the last reset

engine_vars == <<fleet, sessions, runtimes, remaining, ready, executed,
                 frontier, calling, target, error, given_up>>

----------------------------------------------------------------------------
(* build_state: the graph. *)

Nodes(f) == UNION {{<<i, id>> : id \in Ids(f[i])} : i \in DOMAIN f}
ASSUME FleetAssumption ==
  \A f \in Fleets : IsFiniteSet(Nodes(f)) /\ \A i \in DOMAIN f : WellFormed(f[i])
List(f, node) ==
  CHOOSE l \in ToSet(Lists(f[node[1]])) : l.id = node[2]

\* In one log each list depends on the one before it.
LogEdges(f) ==
  UNION {{<<<<i, Lists(f[i])[n].id>>, <<i, Lists(f[i])[n + 1].id>>>> :
            n \in 1..(Len(Lists(f[i])) - 1)} : i \in DOMAIN f}
OriginEdges(f) == {e \in Nodes(f) \X Nodes(f) : e[1] \in List(f, e[2]).origins}
Edges(f) == LogEdges(f) \cup OriginEdges(f)

Sources(f, node) == {m \in Nodes(f) : <<m, node>> \in Edges(f)}
outgoing(f, node) == {m \in Nodes(f) : <<node, m>> \in Edges(f)}

\* An edge counts once, whichever way it came about.
initial_dependencies_twice(f, node) ==
  Cardinality({e \in LogEdges(f) : e[2] = node})
    + Cardinality({e \in OriginEdges(f) : e[2] = node})
initial_dependencies(f, node) == Cardinality(Sources(f, node))

Unblocked(f) == {n \in Nodes(f) : initial_dependencies(f, n) = 0}

\* Otherwise there is no engine.
Buildable(f) ==
  /\ \A n \in Nodes(f) : List(f, n).origins \subseteq Nodes(f) \ {n}
  /\ Nodes(f) # {} => Unblocked(f) # {}

NewRuntime == [next_clid |-> 0, kf |-> NewManager, lists |-> <<>>, keyframes |-> <<>>]

Built(f) ==
  /\ sessions' = [i \in DOMAIN f |-> NewSession]
  /\ runtimes' = [i \in DOMAIN f |-> NewRuntime]
  /\ remaining' = [n \in Nodes(f) |-> initial_dependencies(f, n)]
  /\ ready' = Unblocked(f)
  /\ executed' = {} /\ frontier' = [i \in DOMAIN f |-> None] /\ given_up' = {}

EngineInit ==
  /\ fleet \in {f \in Fleets : Buildable(f)}
  /\ sessions = [i \in DOMAIN fleet |-> NewSession]
  /\ runtimes = [i \in DOMAIN fleet |-> NewRuntime]
  /\ remaining = [n \in Nodes(fleet) |-> initial_dependencies(fleet, n)]
  /\ ready = Unblocked(fleet)
  /\ executed = {} /\ frontier = [i \in DOMAIN fleet |-> None] /\ given_up = {}
  /\ calling = "nothing" /\ target = {} /\ error = "none"

----------------------------------------------------------------------------
(* replay_recorded_copperlist, in the runtime of a session: the clock is    *)
(* set to the time of the list's recorded keyframe or, without one, to the  *)
(* list's own; the keyframe is locked; and the list is run, under the       *)
(* runtime's own id.                                                        *)

Replayable(log, n) ==
  IF KeyframeOf(log, Lists(log)[n].id) # {} THEN captures_keyframe(Lists(log)[n].id)
  ELSE Lists(log)[n].ts # None

replay_times(log) ==
  [n \in DOMAIN Lists(log) |->
     LET recorded == KeyframeOf(log, Lists(log)[n].id) IN
     IF recorded = {} THEN Lists(log)[n].ts
     ELSE (CHOOSE k \in recorded : TRUE).timestamp]

Locked(rt, log, n) ==
  LET recorded == KeyframeOf(log, Lists(log)[n].id) IN
  IF recorded = {} THEN rt
  ELSE [rt EXCEPT !.kf = lock_keyframe(@, CHOOSE k \in recorded : TRUE)]

RunList(rt, log, n) ==
  LET clid == rt.next_clid
      begun == reset(rt.kf, clid, replay_times(log)[n])
      state == [by |-> "replay", before |-> Lists(log)[n].id]
      frozen == freeze(begun, clid, state)
  IN  [next_clid |-> clid + 1, kf |-> unlocked(frozen, clid),
       lists |-> Append(rt.lists, Lists(log)[n].id),
       keyframes |-> rt.keyframes \o Written(frozen, clid)]

\* The runtime after each of the lists from..to.  (After one that fails in the
\* middle this runtime runs no other.)
RuntimeRuns(rt, log, from, to) ==
  LET after[n \in (from - 1)..to] ==
        IF n < from THEN rt ELSE RunList(Locked(after[n - 1], log, n), log, n)
  IN  after
RunLists(rt, log, ran) ==
  IF ran = {} THEN rt ELSE RuntimeRuns(rt, log, Min(ran), Max(ran))[Max(ran)]

----------------------------------------------------------------------------
(* step_causal, which the other calls repeat. *)

InOrder(m, n) == m[1] < n[1] \/ (m[1] = n[1] /\ m[2] <= n[2])
NextReady == {n \in ready : \A m \in ready : InOrder(n, m)}

Left_all(count) == 0
Left(count) == IF count = 0 THEN 0 ELSE count - 1

\* The rest of the call.
Continue(done) ==
  /\ IF calling = "step" \/ (calling = "goto" /\ target \subseteq done)
       THEN calling' = "nothing" /\ error' = "none"
       ELSE UNCHANGED <<calling, error>>
  /\ UNCHANGED target

Replayed(node) ==
  /\ executed' = executed \cup {node}
  /\ frontier' = [frontier EXCEPT ![node[1]] = node[2]]
  /\ remaining' = [m \in DOMAIN remaining |->
                     IF m \in outgoing(fleet, node) THEN Left(remaining[m])
                     ELSE remaining[m]]
  /\ ready' = (ready \ {node}) \cup
                {m \in outgoing(fleet, node) : remaining'[m] = 0}
  /\ Continue(executed')
  /\ UNCHANGED given_up

\* The node has left the ready ones for good.
Failed(node) ==
  /\ ready' = ready \ {node}
  /\ given_up' = given_up \cup {node}
  /\ calling' = "nothing" /\ error' = "replay"
  /\ UNCHANGED <<target, executed, frontier, remaining>>

StepCausal ==
  /\ calling # "nothing"
  /\ \E node \in NextReady :
       LET i == node[1]
           log == fleet[i]
       IN  \E n \in index_for_culistid(log, node[2]) :
           \E o \in goto_index(log, sessions[i], n, replay_times(log)) :
             /\ \A m \in o.ran : Replayable(log, m)
             /\ sessions' = [sessions EXCEPT ![i] = o.session]
             /\ runtimes' = [runtimes EXCEPT ![i] = RunLists(@, log, o.ran)]
             /\ IF o.ok THEN Replayed(node) ELSE Failed(node)
  /\ UNCHANGED fleet

\* No node is ready: at the end step_causal returns None, otherwise an error.
NothingReady ==
  /\ calling # "nothing" /\ ready = {}
  /\ error' = CASE executed # Nodes(fleet) -> "deadlocked"
                [] executed = Nodes(fleet) /\ calling = "goto" -> "exhausted"
                [] OTHER -> "none"
  /\ calling' = "nothing"
  /\ UNCHANGED <<fleet, sessions, runtimes, remaining, ready, executed, frontier,
                 target, given_up>>

----------------------------------------------------------------------------
(* The calls. *)

Call ==
  /\ calling = "nothing" /\ calling' \in {"step", "run_all"}
  /\ UNCHANGED <<fleet, sessions, runtimes, remaining, ready, executed, frontier,
                 target, error, given_up>>

Reset ==
  /\ calling = "nothing" /\ UNCHANGED calling
  /\ Built(fleet) /\ target' = {} /\ error' = "none"
  /\ UNCHANGED fleet

Goto(node) ==
  /\ calling = "nothing" /\ calling' = "goto"
  /\ Built(fleet) /\ target' = {node} /\ error' = "none"
  /\ UNCHANGED fleet

\* The tasks of a session do not stop, or a log can no longer be opened: the
\* sessions before it are stopped, and nothing else has changed.
ResetFails ==
  /\ calling = "nothing" /\ error' = "reset"
  /\ \E stopped \in 0..Len(fleet) :
       sessions' = [i \in DOMAIN fleet |->
         IF i <= stopped THEN [sessions[i] EXCEPT !.started = FALSE]
         ELSE sessions[i]]
  /\ UNCHANGED <<fleet, runtimes, remaining, ready, executed, frontier, calling,
                 target, given_up>>

EngineNext ==
  \/ StepCausal \/ NothingReady \/ Call \/ Reset \/ ResetFails
  \/ \E node \in Nodes(fleet) : Goto(node)

EngineSpec == EngineInit /\ [][EngineNext]_engine_vars

----------------------------------------------------------------------------
(* Properties. *)

(* The graph's bookkeeping replays each list after those that caused it, the *)
(* first in order of those that may be replayed; one whose replay failed     *)
(* never comes again before a reset.                                         *)
CR == INSTANCE CausalReplay WITH nodes <- Nodes(fleet), causes <- Edges(fleet)
ImplementsCausalReplay == CR!CRSpec

Cyclic(f) ==
  \E S \in (SUBSET Nodes(f)) \ {{}} : \A n \in S : Sources(f, n) \cap S # {}

(* The replay does not get stuck, unless the lists themselves wait for each  *)
(* other in a circle or one of them failed to replay.                        *)
StuckOnlyOnCycles == error = "deadlocked" => Cyclic(fleet) \/ given_up # {}

Gapless(log) == \A n \in DOMAIN Lists(log) : Lists(log)[n].id = n - 1

\* What a keyframe of the new log should be: the recorded one as it is, or what
\* was frozen before its list.
Verbatim(log, k) ==
  IF KeyframeOf(log, k.culistid) # {} THEN k \in KeyframeOf(log, k.culistid)
  ELSE k.frozen = <<[by |-> "replay", before |-> k.culistid]>>

(* A session stands where the frontier says, and its application shows that  *)
(* list.  The new log has the lists up to there, and a keyframe for each that *)
(* the runtime captures one for (in a log that has lost no list).            *)
OutputFaithful ==
  \A i \in DOMAIN fleet :
    LET log == fleet[i]
        s == sessions[i]
        done == {n \in DOMAIN Lists(log) : <<i, Lists(log)[n].id>> \in executed}
        out == runtimes[i]
    IN  /\ Shows(s, replay_times(log)) /\ s.app # Mixed
        /\ done = 1..s.current
        /\ done # {} => frontier[i] = Lists(log)[s.current].id
        /\ out.lists = [n \in done |-> Lists(log)[n].id]
        /\ Gapless(log) =>
             /\ \A k \in ToSet(out.keyframes) : Verbatim(log, k)
             /\ {k.culistid : k \in ToSet(out.keyframes)}
                  = {id \in ToSet(out.lists) : captures_keyframe(id)}
             /\ \A j, k \in DOMAIN out.keyframes :
                  j < k => out.keyframes[j].culistid < out.keyframes[k].culistid
=============================================================================
