--------------------------- MODULE ReplaySession ---------------------------
(***************************************************************************)
(* CuDebugSession and RecordedReplaySession: an application brought to any *)
(* list of a recording, by running on from where it is or, to go back,     *)
(* from the nearest keyframe.  The section cache holds copies of what is   *)
(* in the file and is left out.                                            *)
(*                                                                         *)
(* The state of the application is how many lists of the recording it      *)
(* shows.  Each operation gives the set of its outcomes: the session, the  *)
(* place of the lists that were run, and whether it returned Ok.           *)
(***************************************************************************)
EXTENDS Recording

Torn == -1     \* an operation failed after a restore or in an iteration
Mixed == -2    \* lists were run on a state that was not theirs

\* current is 0 before the first jump.
NewSession ==
  [started |-> FALSE, current |-> 0, last_keyframe |-> None, app |-> 0, clock |-> 0]

nearest_keyframe(log, id) ==
  LET before == {k \in log.keyframes : k.culistid <= id} IN
  {k \in before : \A j \in before : j.culistid <= k.culistid}

Restored(log, s, keyframe) ==
  [s EXCEPT !.app = Cardinality({id \in Ids(log) : id < keyframe.culistid}),
            !.clock = keyframe.timestamp, !.last_keyframe = keyframe.culistid]

\* times: for each list what the clock is set to, None if it is left alone
Clocked(s, time) == IF time = None THEN s ELSE [s EXCEPT !.clock = time]

Run(s, n, times) ==
  [Clocked(s, times[n]) EXCEPT
     !.app = IF @ = n - 1 THEN n ELSE IF @ = Torn THEN Torn ELSE Mixed,
     !.current = n]
RunFails(s, n, times) == [Clocked(s, times[n]) EXCEPT !.app = Torn]

Outcome(s, ran, ok) == [session |-> s, ran |-> ran, ok |-> ok]

\* The session after each of the lists from..to.
Runs(s, from, to, times) ==
  LET after[n \in (from - 1)..to] ==
        IF n < from THEN s ELSE Run(after[n - 1], n, times)
  IN  after
replay_range(s, from, to, times) ==
  LET after == Runs(s, from, to, times) IN
  {Outcome(after[to], from..to, TRUE)} \cup
  {Outcome(RunFails(after[n - 1], n, times), from..(n - 1), FALSE) : n \in from..to}

\* From the nearest keyframe, whose own list is run first: there may be no such
\* keyframe, it may not be restored, and its list may not be in the log.
Rewind(log, s, to, times) ==
  LET keyframe == nearest_keyframe(log, Lists(log)[to].id)
      start(k) == index_for_culistid(log, k.culistid)
      torn(t) == Outcome([t EXCEPT !.app = Torn], {}, FALSE)
  IN  (IF keyframe = {} THEN {Outcome(s, {}, FALSE)} ELSE {torn(s)}) \cup
      {torn(Restored(log, s, k)) : k \in {j \in keyframe : start(j) = {}}} \cup
      UNION {replay_range(Restored(log, s, e[1]), e[2], to, times) :
               e \in {e \in keyframe \X DOMAIN Lists(log) : e[2] \in start(e[1])}}

NextAfter_again(s) == s.current
NextAfter(s) == s.current + 1

goto_index(log, session, to, times) ==
  LET s == [session EXCEPT !.started = TRUE]
      moved == IF s.current = to THEN {Outcome(s, {}, TRUE)}
               ELSE IF s.current # 0 /\ to > s.current
                 THEN replay_range(s, NextAfter(s), to, times)
               ELSE Rewind(log, s, to, times)
  IN  IF session.started THEN moved
      ELSE moved \cup {Outcome(session, {}, FALSE)}   \* start_all_tasks fails

\* The session shows the list its cursor is at.
Shows(s, times) ==
  (s.current # 0 /\ s.app # Torn) =>
    s.app = s.current /\ times[s.current] \in {s.clock, None}
=============================================================================
