----------------------------- MODULE Recording -----------------------------
(***************************************************************************)
(* debug.rs, distributed_replay.rs: a recorded log as a replay sees it.    *)
(* It has lists in sections, and keyframes.  The index over the sections   *)
(* is built once; lists are found by their place in the log (counted from  *)
(* 1), by id or by time.  A search gives the set of what it may find.      *)
(*                                                                         *)
(* A log is [lists, ends, keyframes]: section k goes up to place ends[k].  *)
(* A list is [id, ts, origins], a keyframe [culistid, timestamp, frozen].  *)
(* A ts is None when no message of the list has one.                       *)
(***************************************************************************)
EXTENDS Integers, SequencesExt, FiniteSetsExt

None == -1

Lists(log) == log.lists
Ids(log) == {Lists(log)[n].id : n \in DOMAIN Lists(log)}

\* The keyframe captured for a list.
KeyframeOf(log, id) == {k \in log.keyframes : k.culistid = id}

\* index_log, scan_copperlist_section: what is kept of section k.
start_idx(log, k) == IF k = 1 THEN 0 ELSE log.ends[k - 1]
Section(log, k) == (start_idx(log, k) + 1)..log.ends[k]
Stamped(log, k) == {n \in Section(log, k) : Lists(log)[n].ts # None}
Index(log, k) ==
  LET ts(n) == Lists(log)[n].ts
      stamped == Stamped(log, k)
  IN  [first_id |-> Lists(log)[start_idx(log, k) + 1].id,
       last_id |-> Lists(log)[log.ends[k]].id,
       first_ts |-> IF stamped = {} THEN None ELSE ts(Min(stamped)),
       last_ts |-> IF stamped = {} THEN None ELSE ts(Max(stamped))]

\* What the runtime logged: ids and times go up, as the binary searches of the
\* index take for granted, and every list is in a section.
WellFormed(log) ==
  LET lists == Lists(log) IN
  /\ lists \in Seq([id : Nat, ts : Nat \cup {None}, origins : SUBSET (Nat \X Nat)])
  /\ \A m, n \in DOMAIN lists :
       m < n => /\ lists[m].id < lists[n].id
                /\ None \notin {lists[m].ts, lists[n].ts} => lists[m].ts <= lists[n].ts
  /\ log.ends \in Seq(Nat \ {0})
  /\ \A j, k \in DOMAIN log.ends : j < k => log.ends[j] < log.ends[k]
  /\ (IF log.ends = <<>> THEN 0 ELSE Last(log.ends)) = Len(lists)
  /\ log.keyframes \subseteq [culistid : Nat, timestamp : Nat,
                             frozen : Seq([by : STRING, before : Nat])]

First(S) == {x \in S : \A y \in S : x <= y}

index_for_culistid(log, id) ==
  UNION {First({n \in Section(log, k) : Lists(log)[n].id = id}) :
           k \in {j \in DOMAIN log.ends :
                    id \in Index(log, j).first_id..Index(log, j).last_id}}

----------------------------------------------------------------------------
(* By time.  Where all sections have timestamps it is the first section     *)
(* that starts after ts, which is not the one that ts lies in, except for   *)
(* the last section.  Sections may start at the same time: when some start  *)
(* at ts, the binary search may return any of them.                         *)

InLastSection(log, ts) ==
  LET k == Len(log.ends) IN
  IF k > 0 /\ Index(log, k).last_ts # None /\ ts <= Index(log, k).last_ts
    THEN {k} ELSE {}

SectionStarting(log, ts) ==
  LET equal == {k \in DOMAIN log.ends : Index(log, k).first_ts = ts} IN
  IF equal # {} THEN equal
  ELSE First({k \in DOMAIN log.ends : Index(log, k).first_ts > ts})

\* Otherwise the first section whose time contains ts.
SectionAround(log, ts) ==
  IF Index(log, 1).first_ts # None /\ ts <= Index(log, 1).first_ts THEN {1}
  ELSE First({k \in DOMAIN log.ends :
                Index(log, k).first_ts # None /\
                ts \in Index(log, k).first_ts..Index(log, k).last_ts})

find_section_for_time(log, ts) ==
  LET found == IF log.ends = <<>> THEN {}
               ELSE IF \A k \in DOMAIN log.ends : Index(log, k).first_ts # None
                 THEN SectionStarting(log, ts)
               ELSE SectionAround(log, ts)
  IN  IF found = {} THEN InLastSection(log, ts) ELSE found

AtOrAfter_strictly(t, ts) == t > ts
AtOrAfter(t, ts) == t >= ts

Late(log, k, ts) ==
  {n \in Stamped(log, k) : AtOrAfter(Lists(log)[n].ts, ts)}
index_for_time(log, ts) ==
  UNION {First(Late(log, k, ts)) : k \in find_section_for_time(log, ts)}
=============================================================================
