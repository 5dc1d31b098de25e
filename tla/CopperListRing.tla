--------------------------- MODULE CopperListRing ---------------------------
(***************************************************************************)
(* CuListsManager of copperlist.rs, the preallocated CopperLists, and on   *)
(* top of it SyncCopperListsManager of curuntime.rs, which logs a list     *)
(* when it is done and gives its slot back.  The ring is used as a stack:  *)
(* create() pushes, pop() removes the newest.                              *)
(***************************************************************************)
EXTENDS Integers, Sequences

CONSTANT NBCL        \* number of slots

ASSUME RingAssumption == NBCL \in Nat \ {0}

VARIABLES
  data,              \* slot -> the CopperList it holds: id and state
  length, insertion_index, current_cl_id,
  log                \* ids written to the log, oldest first

ring == <<data, length, insertion_index, current_cl_id>>

Slot == 0..(NBCL - 1)
CopperListState ==
  {"Free", "Processing", "DoneProcessing", "BeingSerialized"}

RingInit ==
  /\ data = [i \in Slot |-> [id |-> 0, state |-> "Free"]]
  /\ length = 0 /\ insertion_index = 0 /\ current_cl_id = 0
  /\ log = <<>>

is_full == length = NBCL

\* create(), and the caller's change_state(Processing) that follows it.
Create ==
  /\ ~is_full
  /\ data' = [data EXCEPT ![insertion_index] =
                [id |-> current_cl_id, state |-> "Processing"]]
  /\ insertion_index' = (insertion_index + 1) % NBCL
  /\ length' = length + 1
  /\ current_cl_id' = current_cl_id + 1
  /\ UNCHANGED log

\* The slots in the order of iter(): data[0..length] is split at the
\* insertion index and each part is read backwards.
Iter_oldest_first ==
  [k \in 1..length |->
     IF k <= length - insertion_index THEN insertion_index + k - 1
     ELSE k - (length - insertion_index) - 1]
Iter ==
  [k \in 1..length |->
     IF k <= insertion_index THEN insertion_index - k
     ELSE length - (k - insertion_index)]

\* split_at panics beyond the end.
IterPanics == insertion_index > length

Active == {Iter[k] : k \in 1..length}

\* What end_of_processing does to the list it is called for, ...
Marked(clid) ==
  [i \in Slot |->
     IF i \in Active /\ data[i].id = clid /\ data[i].state = "Processing"
       THEN [data[i] EXCEPT !.state = "DoneProcessing"]
       ELSE data[i]]

\* ... and the positions of iter() that are done with nothing newer that is
\* not: these are logged, from the newest on.
TopDone(marked) ==
  {k \in 1..length :
     \A j \in 1..k : marked[Iter[j]].state = "DoneProcessing"}

Freed(marked, positions) ==
  [i \in Slot |->
     IF \E k \in positions : Iter[k] = i
       THEN [marked[i] EXCEPT !.state = "Free"] ELSE marked[i]]

Logged(marked, n) == log \o [k \in 1..n |-> marked[Iter[k]].id]

\* The insertion index after n times pop().
Popped_kept(n) == insertion_index
Popped(n) ==
  IF n <= insertion_index THEN insertion_index - n
  ELSE insertion_index + NBCL - n

EndOfProcessing(clid) ==
  LET marked == Marked(clid)
      top    == TopDone(marked)
  IN \E n \in 0..length :
       /\ top = 1..n
       /\ data' = Freed(marked, top)
       /\ log' = Logged(marked, n)
       /\ length' = length - n
       /\ insertion_index' = Popped(n)
       /\ UNCHANGED current_cl_id

\* The logger fails on the n-th list: those before it are free but stay in
\* the ring, and this one stays BeingSerialized.
EndOfProcessingFails(clid) ==
  LET marked == Marked(clid)
      top    == TopDone(marked)
  IN \E n \in top :
       /\ data' = [Freed(marked, 1..(n - 1)) EXCEPT
                     ![Iter[n]].state = "BeingSerialized"]
       /\ log' = Logged(marked, n - 1)
       /\ UNCHANGED <<length, insertion_index, current_cl_id>>

----------------------------------------------------------------------------

RingType ==
  /\ data \in [Slot -> [id : Nat, state : CopperListState]]
  /\ length \in 0..NBCL /\ insertion_index \in Slot
  /\ current_cl_id \in Nat
  /\ log \in Seq(Nat)

(* The ring is a stack in ascending order of ids: the insertion index is    *)
(* where the length says, so that iter() never panics and yields the        *)
(* lists from the newest to the oldest.                                     *)
RingIsStack ==
  /\ ~IterPanics
  /\ insertion_index = (IF length = NBCL THEN 0 ELSE length)
  /\ \A i, j \in 0..(length - 1) : i < j => data[i].id < data[j].id
  /\ \A i \in 0..(length - 1) : data[i].id < current_cl_id
=============================================================================
