---------------------------- MODULE DebugSession ----------------------------
(***************************************************************************)
(* debug.rs: CuDebugSession, with which a user travels in a recording.     *)
(***************************************************************************)
EXTENDS ReplaySession

CONSTANTS
  Recordings,   \* the logs a session may be opened on
  Times         \* what goto_time is asked for

ASSUME DebugAssumption ==
  /\ Recordings # {} /\ \A r \in Recordings : WellFormed(r)
  /\ Times \subseteq Nat

VARIABLES
  recording,
  debug,      \* the session
  snapshot,   \* id of the list whose runtime bytes are kept, or None
  call        \* history: the last operation and how it ended

debug_vars == <<recording, debug, snapshot, call>>

DebugInit ==
  /\ recording \in Recordings
  /\ debug = NewSession /\ snapshot = None
  /\ call = [op |-> "none", arg |-> 0, ok |-> TRUE]

stamps == [n \in DOMAIN Lists(recording) |-> Lists(recording)[n].ts]

\* The list whose bytes the runtime keeps after the lists in ran, out of which
\* the session takes the id it has in the recording.
IdRun(ran, before) == IF ran = {} THEN before ELSE Lists(recording)[Max(ran)].id

\* A jump that goes back forgets the bytes; one that fails may leave those of
\* the list it failed in, which keep the runtime's own id (here None).
Jump(op, arg, targets) ==
  /\ \/ /\ targets = {}
        /\ call' = [op |-> op, arg |-> arg, ok |-> FALSE]
        /\ UNCHANGED <<debug, snapshot>>
     \/ \E to \in targets : \E o \in goto_index(recording, debug, to, stamps) :
          /\ debug' = o.session
          /\ call' = [op |-> op, arg |-> arg, ok |-> o.ok]
          /\ \/ snapshot' = IdRun(o.ran, snapshot)
             \/ ~o.ok /\ o.session.app = Torn /\ snapshot' = None
  /\ UNCHANGED recording

GotoCl ==
  \E id \in {l.id : l \in UNION {ToSet(Lists(r)) : r \in Recordings}} :
    Jump("cl", id, index_for_culistid(recording, id))

GotoTime == \E ts \in Times : Jump("time", ts, index_for_time(recording, ts))

StepBy ==
  \E delta \in {-2, -1, 0, 1, 2} :
    Jump("step", delta,
         {n \in DOMAIN Lists(recording) :
            debug.current # 0 /\ n = debug.current + delta})

DebugNext == GotoCl \/ GotoTime \/ StepBy

DebugSpec == DebugInit /\ [][DebugNext]_debug_vars

----------------------------------------------------------------------------
(* Properties. *)

(* However the user got there, application, clock and runtime bytes are those *)
(* of the list at the cursor, unless a jump failed since a keyframe was       *)
(* restored.                                                                  *)
ShowsTheRecording ==
  /\ Shows(debug, stamps)
  /\ (debug.current # 0 /\ debug.app # Torn)
       => snapshot = Lists(recording)[debug.current].id

\* All lists of the log that are at or after ts.
NotBefore(ts) == {n \in DOMAIN Lists(recording) : Lists(recording)[n].ts >= ts}
SectionOf(n) == CHOOSE k \in DOMAIN recording.ends : n \in Section(recording, k)
AllStamped == \A n \in DOMAIN Lists(recording) : Lists(recording)[n].ts # None

\* The lists that a jump may end at.
Sought(op, arg) ==
  {n \in DOMAIN Lists(recording) :
     \/ op = "cl" /\ Lists(recording)[n].id = arg
     \/ op = "step" /\ n = debug.current + arg
     \/ op = "time" /\ n \in NotBefore(arg)}

\* The first list of its section at or after ts; when every list has a
\* timestamp, a list of ts itself or of one of the first two sections with a
\* list at or after ts.
NearTime(n, ts) ==
  /\ \A m \in NotBefore(ts) : m < n => SectionOf(m) # SectionOf(n)
  /\ AllStamped => \/ Lists(recording)[n].ts = ts
                   \/ SectionOf(n) <= SectionOf(Min(NotBefore(ts))) + 1

(* A jump that succeeds ends where it was asked to: at the id, that many      *)
(* steps on, or at a list at or after the time and near it.  (goto_time says  *)
(* "the first copperlist at or after a timestamp", debug.rs 580, and its      *)
(* search "the first section whose first_ts >= ts", 331; the code promises    *)
(* less: it starts at a section that begins at or after the time, and of      *)
(* several that begin at it takes any.)  A jump that fails leaves the cursor, *)
(* or leaves it short of a list it was to end at, on a torn application;      *)
(* before such a list it never moves the cursor back.                         *)
JumpsLand ==
  [][LET sought == Sought(call'.op, call'.arg) IN
     /\ call'.ok => debug'.current \in sought
     /\ call'.ok /\ call'.op = "time" => NearTime(debug'.current, call'.arg)
     /\ ~call'.ok /\ debug'.current # debug.current =>
          /\ debug'.app = Torn
          /\ \E to \in sought :
               /\ debug'.current < to
               /\ debug.current < to => debug.current < debug'.current]_debug_vars
=============================================================================
