----------------------------- MODULE KeyFrames -----------------------------
(***************************************************************************)
(* KeyFramesManager (curuntime.rs) as a replay uses it: a recorded         *)
(* keyframe may be locked, to be logged again as it is.                    *)
(***************************************************************************)
EXTENDS Integers, Sequences

CONSTANT KeyframeInterval

ASSUME KeyframeAssumption == KeyframeInterval \in Nat \ {0}

NoTime == -1

\* frozen: the states in the keyframe, each a record [by, before] of who froze
\* it and before which list
NewManager ==
  [culistid |-> 0, timestamp |-> 0, frozen |-> <<>>,
   forced_timestamp |-> NoTime, locked |-> FALSE]

captures_keyframe(clid) == clid % KeyframeInterval = 0

reset(kf, clid, now) ==
  IF ~captures_keyframe(clid) \/ (kf.locked /\ kf.culistid = clid) THEN kf
  ELSE [culistid |-> clid, frozen |-> <<>>, locked |-> FALSE,
        timestamp |-> IF kf.forced_timestamp = NoTime THEN now
                      ELSE kf.forced_timestamp,
        forced_timestamp |-> NoTime]

\* freeze_task: a locked keyframe is not touched.
freeze_unlocked(kf, clid, state) ==
  IF captures_keyframe(clid) THEN [kf EXCEPT !.frozen = Append(@, state)] ELSE kf
freeze(kf, clid, state) ==
  IF captures_keyframe(clid) /\ ~kf.locked
    THEN [kf EXCEPT !.frozen = Append(@, state)] ELSE kf

\* end_of_processing: what is logged, and the manager afterwards.
Written(kf, clid) ==
  IF captures_keyframe(clid)
    THEN <<[culistid |-> kf.culistid, timestamp |-> kf.timestamp,
            frozen |-> kf.frozen]>>
    ELSE <<>>
unlocked(kf, clid) ==
  IF captures_keyframe(clid) THEN [kf EXCEPT !.locked = FALSE] ELSE kf

lock_keyframe(kf, recorded) ==
  [culistid |-> recorded.culistid, timestamp |-> recorded.timestamp,
   frozen |-> recorded.frozen, forced_timestamp |-> recorded.timestamp,
   locked |-> TRUE]
=============================================================================
