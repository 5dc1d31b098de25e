---------------------- MODULE SequentialRuntime_proofs ----------------------
(* The ring of CopperLists is always a stack in id order, the iteration     *)
(* ends the list it began, and the log holds every list once, in order,     *)
(* but for those lost to an error: for every plan, number of slots and      *)
(* mix of failures.                                                         *)
EXTENDS SequentialRuntime, FiniteSetTheorems, SequenceTheorems, TLAPS

USE DEF ring, Slot

(* What the iteration keeps of the ring: only the list in process is being  *)
(* worked on, it is the newest, and no list waits to be logged.             *)
ProcessInv ==
  /\ InProcess => /\ length > 0
                  /\ data[length - 1] = [id |-> clid, state |-> "Processing"]
  /\ \A i \in 0..(length - 1) : data[i].state # "DoneProcessing"

RingInv == RingType /\ RingIsStack /\ ProcessInv

----------------------------------------------------------------------------
(* The ring. *)

(* The only value of the modulus create() meets at the end of the ring.     *)
LEMMA ModNext ==
  ASSUME NEW n \in Nat \ {0}, NEW a \in 0..(n - 1)
  PROVE  (a + 1) % n = IF a + 1 = n THEN 0 ELSE a + 1
<1>1. CASE a + 1 = n
  BY <1>1
<1>2. CASE a + 1 # n
  <2>1. a + 1 \in 0..(n - 1)
    BY <1>2
  <2> QED
    BY <1>2, <2>1
<1> QED
  BY <1>1, <1>2

(* iter() yields the slots from length - 1 down to 0.                       *)
LEMMA IterOrder ==
  ASSUME RingType, RingIsStack
  PROVE  /\ Iter = [k \in 1..length |-> length - k]
         /\ \A k \in 1..length : Iter[k] = length - k /\ length - k \in Slot
         /\ Active = 0..(length - 1)
<1>1. length \in 0..NBCL /\ NBCL \in Nat \ {0}
  BY RingAssumption DEF RingType
<1>2. \A k \in 1..length : Iter[k] = length - k /\ length - k \in Slot
  BY <1>1 DEF Iter, RingIsStack
<1>3. Iter = [k \in 1..length |-> length - k]
  BY <1>1, <1>2 DEF Iter, RingIsStack
<1>4. Active = 0..(length - 1)
  <2>1. ASSUME NEW i \in 0..(length - 1)
        PROVE  i \in Active
    <3>1. length - i \in 1..length /\ Iter[length - i] = i
      BY <1>1, <1>2
    <3> QED
      BY <3>1 DEF Active
  <2>2. ASSUME NEW i \in Active
        PROVE  i \in 0..(length - 1)
    BY <1>1, <1>2 DEF Active
  <2> QED
    BY <2>1, <2>2
<1> QED
  BY <1>2, <1>3, <1>4

(* While a list is in process, end_of_processing marks it and nothing else  *)
(* is ready to be logged with it.                                           *)
LEMMA OneDone ==
  ASSUME RingInv, InProcess
  PROVE  /\ Marked(clid) = [data EXCEPT ![length - 1] =
                              [id |-> clid, state |-> "DoneProcessing"]]
         /\ TopDone(Marked(clid)) = 1..1
         /\ Iter[1] = length - 1 /\ length - 1 \in Slot
<1> DEFINE marked == Marked(clid)
<1>1. /\ length \in 1..NBCL /\ NBCL \in Nat \ {0}
      /\ data \in [Slot -> [id : Nat, state : CopperListState]]
      /\ data[length - 1] = [id |-> clid, state |-> "Processing"]
      /\ \A i \in 0..(length - 1) : data[i].state # "DoneProcessing"
      /\ \A i, j \in 0..(length - 1) : i < j => data[i].id < data[j].id
  BY RingAssumption DEF RingInv, RingType, RingIsStack, ProcessInv
<1>2. /\ \A k \in 1..length : Iter[k] = length - k /\ length - k \in Slot
      /\ Active = 0..(length - 1)
  BY IterOrder DEF RingInv
<1>3. Iter[1] = length - 1 /\ length - 1 \in Slot
  BY <1>1, <1>2
<1>4. \A i \in 0..(length - 2) : data[i].id # clid
  <2> TAKE i \in 0..(length - 2)
  <2>1. data[i].id < data[length - 1].id /\ data[i].id \in Nat
    BY <1>1
  <2> QED
    BY <1>1, <2>1
<1>5. marked = [data EXCEPT ![length - 1] =
                  [id |-> clid, state |-> "DoneProcessing"]]
  <2>1. \A i \in Slot : marked[i] =
          IF i = length - 1 THEN [id |-> clid, state |-> "DoneProcessing"]
          ELSE data[i]
    <3> TAKE i \in Slot
    <3>1. CASE i = length - 1
      BY <1>1, <1>2, <3>1 DEF Marked
    <3>2. CASE i # length - 1
      BY <1>1, <1>2, <1>4, <3>2 DEF Marked
    <3> QED
      BY <3>1, <3>2
  <2> QED
    BY <1>1, <2>1 DEF Marked
<1>6. marked[Iter[1]].state = "DoneProcessing"
  BY <1>1, <1>3, <1>5
<1>7. \A k \in 2..length : marked[Iter[k]].state # "DoneProcessing"
  BY <1>1, <1>2, <1>5
<1>8. TopDone(marked) = 1..1
  <2>1. 1 \in TopDone(marked)
    BY <1>1, <1>6 DEF TopDone
  <2>2. \A k \in TopDone(marked) : k = 1
    <3> TAKE k \in TopDone(marked)
    <3>1. k \in 1..length /\ \A j \in 1..k : marked[Iter[j]].state = "DoneProcessing"
      BY DEF TopDone
    <3>2. k \in Int /\ k >= 1 /\ k \in 1..k
      BY <1>1, <3>1
    <3>3. marked[Iter[k]].state = "DoneProcessing"
      BY <3>1, <3>2
    <3>4. k \notin 2..length
      BY <1>7, <3>3
    <3> QED
      BY <1>1, <3>1, <3>4
  <2> QED
    BY <2>1, <2>2
<1> QED
  BY <1>3, <1>5, <1>8

(* create() pushes a list that is newer than those in the ring.             *)
LEMMA CreateStep ==
  ASSUME RingInv, ~InProcess, Create
  PROVE  /\ RingType' /\ RingIsStack'
         /\ length' = length + 1
         /\ data'[length] = [id |-> current_cl_id, state |-> "Processing"]
         /\ \A i \in 0..length : data'[i].state # "DoneProcessing"
<1>1. /\ length \in 0..(NBCL - 1) /\ NBCL \in Nat \ {0}
      /\ insertion_index = length /\ current_cl_id \in Nat
      /\ data \in [Slot -> [id : Nat, state : CopperListState]]
  BY RingAssumption DEF RingInv, RingType, RingIsStack, Create, is_full
<1>2. /\ data' = [data EXCEPT ![length] =
                    [id |-> current_cl_id, state |-> "Processing"]]
      /\ length' = length + 1 /\ current_cl_id' = current_cl_id + 1
      /\ log' = log
      /\ insertion_index' = IF length + 1 = NBCL THEN 0 ELSE length + 1
  BY <1>1, ModNext DEF Create
<1>3. RingType'
  BY <1>1, <1>2 DEF RingInv, RingType, CopperListState
<1>4. \A i \in 0..length : data'[i] =
        IF i = length THEN [id |-> current_cl_id, state |-> "Processing"]
        ELSE data[i]
  BY <1>1, <1>2
<1>5. \A i \in 0..(length - 1) : data[i].id < current_cl_id
  BY DEF RingInv, RingIsStack
<1>6. \A i, j \in 0..(length' - 1) : i < j => data'[i].id < data'[j].id
  <2> TAKE i, j \in 0..(length' - 1)
  <2>1. CASE j = length
    BY <1>1, <1>2, <1>4, <1>5, <2>1
  <2>2. CASE j # length /\ i # length
    BY <1>1, <1>2, <1>4, <2>2 DEF RingInv, RingIsStack
  <2> QED
    BY <1>1, <1>2, <2>1, <2>2
<1>7. \A i \in 0..(length' - 1) : data'[i].id < current_cl_id'
  <2> TAKE i \in 0..(length' - 1)
  <2>1. CASE i = length
    BY <1>1, <1>2, <1>4, <2>1
  <2>2. CASE i # length
    <3>1. i \in 0..(length - 1) /\ data[i].id \in Nat
      BY <1>1, <1>2, <2>2
    <3> QED
      BY <1>1, <1>2, <1>4, <1>5, <2>2, <3>1
  <2> QED
    BY <2>1, <2>2
<1>8. RingIsStack'
  BY <1>1, <1>2, <1>6, <1>7 DEF RingIsStack, IterPanics
<1>9. \A i \in 0..length : data'[i].state # "DoneProcessing"
  BY <1>1, <1>4 DEF RingInv, ProcessInv
<1> QED
  BY <1>1, <1>2, <1>3, <1>4, <1>8, <1>9

(* end_of_processing logs the list in process and pops it, ...              *)
LEMMA EndStep ==
  ASSUME RingInv, InProcess, EndOfProcessing(clid)
  PROVE  /\ RingType' /\ RingIsStack'
         /\ length' = length - 1 /\ current_cl_id' = current_cl_id
         /\ log' = Append(log, clid)
         /\ \A i \in 0..(length' - 1) : data'[i].state # "DoneProcessing"
<1> DEFINE marked == Marked(clid)
<1>1. /\ length \in 1..NBCL /\ NBCL \in Nat \ {0}
      /\ insertion_index = (IF length = NBCL THEN 0 ELSE length)
      /\ current_cl_id \in Nat /\ log \in Seq(Nat)
      /\ data \in [Slot -> [id : Nat, state : CopperListState]]
      /\ data[length - 1] = [id |-> clid, state |-> "Processing"]
  BY RingAssumption DEF RingInv, RingType, RingIsStack, ProcessInv
<1>2. /\ marked = [data EXCEPT ![length - 1] =
                     [id |-> clid, state |-> "DoneProcessing"]]
      /\ TopDone(marked) = 1..1
      /\ Iter[1] = length - 1 /\ length - 1 \in Slot
  BY OneDone
<1> HIDE DEF marked
<1>3. PICK n \in 0..length :
        /\ TopDone(marked) = 1..n
        /\ data' = Freed(marked, TopDone(marked))
        /\ log' = Logged(marked, n)
        /\ length' = length - n
        /\ insertion_index' = Popped(n)
        /\ current_cl_id' = current_cl_id
  BY DEF EndOfProcessing, marked
<1>4. n = 1
  <2>1. 1..n = 1..1
    BY <1>2, <1>3
  <2>2. n \in Nat /\ 1 \in 1..n
    BY <1>1, <2>1
  <2>3. n \in 1..n
    BY <2>2
  <2>4. n \in 1..1
    BY <2>1, <2>3
  <2> QED
    BY <2>4
<1>5. clid \in Nat /\ marked[length - 1].id = clid
  <2>1. data[length - 1] \in [id : Nat, state : CopperListState]
    BY <1>1, <1>2
  <2> QED
    BY <1>1, <1>2, <2>1
<1>6. log' = Append(log, clid)
  <2>1. [k \in 1..1 |-> marked[Iter[k]].id] = <<clid>>
    BY <1>2, <1>5
  <2>2. log' = log \o <<clid>>
    BY <1>3, <1>4, <2>1 DEF Logged
  <2> QED
    BY <1>1, <1>5, <2>2
<1>7. \A i \in Slot : data'[i] =
        IF i = length - 1 THEN [id |-> clid, state |-> "Free"] ELSE data[i]
  <2> TAKE i \in Slot
  <2>1. data'[i] = IF \E k \in 1..1 : Iter[k] = i
                     THEN [marked[i] EXCEPT !.state = "Free"] ELSE marked[i]
    BY <1>2, <1>3 DEF Freed
  <2>2. (\E k \in 1..1 : Iter[k] = i) <=> i = length - 1
    BY <1>2
  <2>3. CASE i = length - 1
    <3>1. marked[i] = [id |-> clid, state |-> "DoneProcessing"]
      BY <1>1, <1>2, <2>3
    <3> QED
      BY <2>1, <2>2, <2>3, <3>1
  <2>4. CASE i # length - 1
    BY <1>1, <1>2, <2>1, <2>2, <2>4
  <2> QED
    BY <2>3, <2>4
<1>8. data' \in [Slot -> [id : Nat, state : CopperListState]]
  <2>1. data' = [i \in Slot |-> data'[i]]
    BY <1>3 DEF Freed
  <2>2. \A i \in Slot : data'[i] \in [id : Nat, state : CopperListState]
    BY <1>1, <1>5, <1>7 DEF CopperListState
  <2> QED
    BY <2>1, <2>2
<1>9. insertion_index' = length - 1
  BY <1>1, <1>3, <1>4 DEF Popped
<1>10. RingType'
  <2>1. log' \in Seq(Nat)
    BY <1>1, <1>5, <1>6
  <2>2. length' \in 0..NBCL /\ insertion_index' \in Slot
        /\ current_cl_id' \in Nat
    BY <1>1, <1>2, <1>3, <1>4, <1>9
  <2> QED
    BY <1>8, <2>1, <2>2 DEF RingType
<1>11. RingIsStack'
  <2>1. \A i \in 0..(length' - 1) :
          i \in 0..(length - 1) /\ i \in Slot /\ data'[i] = data[i]
    BY <1>1, <1>3, <1>4, <1>7
  <2>2. length' = length - 1 /\ length' # NBCL
    BY <1>1, <1>3, <1>4
  <2>3. ~IterPanics' /\ insertion_index' = length'
    BY <1>1, <1>9, <2>2 DEF IterPanics
  <2>4. \A i, j \in 0..(length' - 1) : i < j => data'[i].id < data'[j].id
    BY <2>1 DEF RingInv, RingIsStack
  <2>5. \A i \in 0..(length' - 1) : data'[i].id < current_cl_id'
    BY <1>3, <2>1 DEF RingInv, RingIsStack
  <2> QED
    BY <2>2, <2>3, <2>4, <2>5 DEF RingIsStack
<1>12. \A i \in 0..(length' - 1) : data'[i].state # "DoneProcessing"
  BY <1>1, <1>3, <1>4, <1>7 DEF RingInv, ProcessInv
<1> QED
  BY <1>3, <1>4, <1>6, <1>10, <1>11, <1>12

(* ... or, when it cannot be logged, leaves it where it is for good.        *)
LEMMA EndFailsStep ==
  ASSUME RingInv, InProcess, EndOfProcessingFails(clid)
  PROVE  /\ RingType' /\ RingIsStack'
         /\ length' = length /\ current_cl_id' = current_cl_id
         /\ log' = log
         /\ \A i \in 0..(length' - 1) : data'[i].state # "DoneProcessing"
<1> DEFINE marked == Marked(clid)
<1>1. /\ length \in 1..NBCL /\ NBCL \in Nat \ {0} /\ log \in Seq(Nat)
      /\ data \in [Slot -> [id : Nat, state : CopperListState]]
      /\ data[length - 1] = [id |-> clid, state |-> "Processing"]
  BY RingAssumption DEF RingInv, RingType, RingIsStack, ProcessInv
<1>2. /\ marked = [data EXCEPT ![length - 1] =
                     [id |-> clid, state |-> "DoneProcessing"]]
      /\ TopDone(marked) = 1..1
      /\ Iter[1] = length - 1 /\ length - 1 \in Slot
  BY OneDone
<1> HIDE DEF marked
<1>3. /\ data' = [Freed(marked, 1..0) EXCEPT
                    ![length - 1].state = "BeingSerialized"]
      /\ log' = Logged(marked, 0)
      /\ UNCHANGED <<length, insertion_index, current_cl_id>>
  <2>1. PICK n \in TopDone(marked) :
          /\ data' = [Freed(marked, 1..(n - 1)) EXCEPT
                        ![Iter[n]].state = "BeingSerialized"]
          /\ log' = Logged(marked, n - 1)
          /\ UNCHANGED <<length, insertion_index, current_cl_id>>
    BY DEF EndOfProcessingFails, marked
  <2>2. n \in 1..1
    BY <1>2, <2>1
  <2>3. n = 1 /\ n - 1 = 0
    BY <2>2
  <2> QED
    BY <1>2, <2>1, <2>3
<1>4. Freed(marked, 1..0) = marked
  <2>1. marked = [i \in Slot |-> marked[i]]
    BY <1>1, <1>2
  <2>2. \A i \in Slot : ~ \E k \in 1..0 : Iter[k] = i
    OBVIOUS
  <2> QED
    BY <2>1, <2>2 DEF Freed
<1>5. log' = log
  <2>1. [k \in 1..0 |-> marked[Iter[k]].id] = <<>>
    OBVIOUS
  <2> QED
    BY <1>1, <1>3, <2>1 DEF Logged
<1>6. data' = [data EXCEPT ![length - 1] =
                 [id |-> clid, state |-> "BeingSerialized"]]
  <2> DEFINE done == [id |-> clid, state |-> "DoneProcessing"]
  <2>1. data' = [marked EXCEPT ![length - 1].state = "BeingSerialized"]
    BY <1>3, <1>4
  <2>2. marked[length - 1] = done /\ length - 1 \in Slot
    BY <1>1, <1>2
  <2>3. [done EXCEPT !.state = "BeingSerialized"] =
          [id |-> clid, state |-> "BeingSerialized"]
    OBVIOUS
  <2>4. data' = [marked EXCEPT ![length - 1] =
                   [id |-> clid, state |-> "BeingSerialized"]]
    BY <1>1, <1>2, <2>1, <2>2, <2>3
  <2> QED
    BY <1>1, <1>2, <2>4
<1>7. clid \in Nat
  <2>1. data[length - 1] \in [id : Nat, state : CopperListState]
    BY <1>1, <1>2
  <2> QED
    BY <1>1, <2>1
<1>8. RingType'
  <2>1. data' \in [Slot -> [id : Nat, state : CopperListState]]
    BY <1>1, <1>2, <1>6, <1>7 DEF CopperListState
  <2> QED
    BY <1>3, <1>5, <2>1 DEF RingInv, RingType
<1>9. \A i \in 0..(length - 1) : i \in Slot /\ data'[i].id = data[i].id
  <2> TAKE i \in 0..(length - 1)
  <2>1. i \in Slot
    BY <1>1
  <2>2. CASE i = length - 1
    BY <1>1, <1>6, <2>1, <2>2
  <2>3. CASE i # length - 1
    BY <1>6, <2>1, <2>3
  <2> QED
    BY <2>1, <2>2, <2>3
<1>10. RingIsStack'
  BY <1>3, <1>9 DEF RingInv, RingIsStack, IterPanics
<1>11. \A i \in 0..(length' - 1) : data'[i].state # "DoneProcessing"
  BY <1>1, <1>3, <1>6 DEF RingInv, ProcessInv
<1> QED
  BY <1>3, <1>5, <1>8, <1>10, <1>11

----------------------------------------------------------------------------
(* The iteration keeps the ring a stack with its own list on top, and none  *)
(* waiting to be logged.                                                    *)

LEMMA ClidType ==
  ASSUME RingInv, InProcess
  PROVE  clid \in Nat
<1>1. length - 1 \in Slot /\ length - 1 \in 0..(length - 1)
  BY RingAssumption DEF RingInv, RingType, ProcessInv
<1>2. data[length - 1] \in [id : Nat, state : CopperListState]
  BY <1>1 DEF RingInv, RingType
<1> QED
  BY <1>2 DEF RingInv, ProcessInv

LEMMA RingInvInit ==
  ASSUME SeqInit
  PROVE  RingInv
<1>1. NBCL \in Nat \ {0}
  BY RingAssumption
<1>2. RingType
  BY <1>1 DEF SeqInit, RingInit, RingType, CopperListState
<1>3. RingIsStack
  BY <1>1 DEF SeqInit, RingInit, RingIsStack, IterPanics
<1>4. ProcessInv
  BY DEF SeqInit, RingInit, ProcessInv, InProcess
<1> QED
  BY <1>2, <1>3, <1>4 DEF RingInv

LEMMA RingInvStep ==
  ASSUME RingInv, [SeqNext]_seq_vars
  PROVE  RingInv'
<1>1. CASE Begin
  <2>1. ~InProcess /\ Create
    BY <1>1 DEF Begin, InProcess
  <2>2. /\ RingType' /\ RingIsStack'
        /\ length' = length + 1
        /\ data'[length] = [id |-> current_cl_id, state |-> "Processing"]
        /\ \A i \in 0..length : data'[i].state # "DoneProcessing"
    BY <2>1, CreateStep
  <2>3. length \in Nat /\ current_cl_id \in Nat
        /\ clid' = current_cl_id
    BY <2>1 DEF RingInv, RingType, Create, clid
  <2>4. ProcessInv'
    BY <2>2, <2>3 DEF ProcessInv
  <2> QED
    BY <2>2, <2>4 DEF RingInv
<1>2. CASE Step
  <2>1. UNCHANGED <<ring, log>> /\ InProcess
    BY <1>2 DEF Step, InProcess
  <2> QED
    BY <2>1 DEF RingInv, RingType, RingIsStack, IterPanics, ProcessInv, clid
<1>3. CASE EndList
  <2>1. InProcess /\ EndOfProcessing(clid) /\ ~InProcess'
    BY <1>3 DEF EndList, AfterList, InProcess
  <2>2. /\ RingType' /\ RingIsStack'
        /\ \A i \in 0..(length' - 1) : data'[i].state # "DoneProcessing"
    BY <2>1, EndStep
  <2> QED
    BY <2>1, <2>2 DEF RingInv, ProcessInv
<1>4. CASE EndListFails
  <2>1. InProcess /\ EndOfProcessingFails(clid) /\ ~InProcess'
    BY <1>4 DEF EndListFails, Lose, InProcess
  <2>2. /\ RingType' /\ RingIsStack'
        /\ \A i \in 0..(length' - 1) : data'[i].state # "DoneProcessing"
    BY <2>1, EndFailsStep
  <2> QED
    BY <2>1, <2>2 DEF RingInv, ProcessInv
<1>5. CASE LogKeyframe \/ LogKeyframeFails \/ Postprocess
  <2>1. UNCHANGED <<ring, log>> /\ ~InProcess'
    BY <1>5 DEF LogKeyframe, LogKeyframeFails, Postprocess, InProcess
  <2> QED
    BY <2>1 DEF RingInv, RingType, RingIsStack, IterPanics, ProcessInv
<1>6. CASE UNCHANGED seq_vars
  BY <1>6 DEF seq_vars, RingInv, RingType, RingIsStack, IterPanics, ProcessInv,
              InProcess, clid
<1> QED
  BY <1>1, <1>2, <1>3, <1>4, <1>5, <1>6 DEF SeqNext, RunOutOfSpace, Stopped

(* iter() never panics and the ring is always a stack in id order, whatever *)
(* fails and in whatever state failed iterations leave their lists.         *)
THEOREM RingIsAStack == SeqSpec => []RingIsStack
<1>1. SeqInit => RingInv
  BY RingInvInit
<1>2. RingInv /\ [SeqNext]_seq_vars => RingInv'
  BY RingInvStep
<1>3. RingInv => RingIsStack
  BY DEF RingInv
<1> QED
  BY <1>1, <1>2, <1>3, PTL DEF SeqSpec

(* end_of_processing always finds the list of its iteration, as the newest  *)
(* and in state Processing: its debug assertion never fires.                *)
THEOREM EndsItsOwn == SeqSpec => []EndTarget
<1>1. RingInv => EndTarget
  <2> SUFFICES ASSUME RingInv, InProcess
               PROVE  \E k \in 1..length :
                        /\ data[Iter[k]] = [id |-> clid, state |-> "Processing"]
                        /\ \A j \in 1..length : data[Iter[j]].id = clid => j = k
    BY DEF EndTarget
  <2>1. /\ length \in 1..NBCL /\ NBCL \in Nat \ {0}
        /\ data[length - 1] = [id |-> clid, state |-> "Processing"]
        /\ data \in [Slot -> [id : Nat, state : CopperListState]]
    BY RingAssumption DEF RingInv, RingType, ProcessInv
  <2>2. \A k \in 1..length : Iter[k] = length - k /\ length - k \in Slot
    BY IterOrder DEF RingInv
  <2>3. 1 \in 1..length /\ Iter[1] = length - 1
    BY <2>1, <2>2
  <2>4. ASSUME NEW j \in 1..length, j # 1
        PROVE  data[Iter[j]].id # clid
    <3>1. /\ length - j \in 0..(length - 1) /\ length - 1 \in 0..(length - 1)
          /\ length - j < length - 1
      BY <2>1, <2>4
    <3>2. data[length - j].id < data[length - 1].id
      BY <3>1 DEF RingInv, RingIsStack
    <3>3. data[length - j].id \in Nat
      BY <2>1, <2>2
    <3> QED
      BY <2>1, <2>2, <3>2, <3>3
  <2> QED
    BY <2>1, <2>3, <2>4
<1>2. SeqInit => RingInv
  BY RingInvInit
<1>3. RingInv /\ [SeqNext]_seq_vars => RingInv'
  BY RingInvStep
<1> QED
  BY <1>1, <1>2, <1>3, PTL DEF SeqSpec

----------------------------------------------------------------------------
(* Types. *)

LEMMA FrozenType ==
  ASSUME NEW c \in Component, NEW steps \in [Steps -> SUBSET Nat]
  PROVE  Frozen(c, steps) \in
           [component : Component, state : SUBSET (Steps \X Nat)]
<1>1. StateOf(c, steps) \in SUBSET (Steps \X Nat)
  BY DEF StateOf
<1> QED
  BY <1>1 DEF Frozen

LEMMA TypeInit ==
  ASSUME SeqInit
  PROVE  TypeOK
<1>1. RingType
  BY RingInvInit DEF RingInv
<1>2. step \in Steps
  BY SequentialAssumption DEF SeqInit, Steps
<1>3. kf \in Keyframe /\ kf_log \subseteq Keyframe
  BY DEF SeqInit, Keyframe
<1>4. ran \in [Steps -> SUBSET Nat] /\ lost \subseteq Nat
  BY DEF SeqInit
<1> QED
  BY <1>1, <1>2, <1>3, <1>4 DEF TypeOK, SeqInit

LEMMA TypeStep ==
  ASSUME TypeOK, RingInv, [SeqNext]_seq_vars
  PROVE  TypeOK'
<1> DEFINE Entry == [component : Component, state : SUBSET (Steps \X Nat)]
<1>1. RingType'
  BY RingInvStep DEF RingInv
<1>2. CASE Begin
  <2>1. current_cl_id \in Nat
    BY DEF TypeOK, RingType
  <2>2. KeyframeReset(current_cl_id) \in Keyframe
    BY <2>1 DEF KeyframeReset, Keyframe
  <2>3. kf' \in Keyframe
    BY <1>2, <2>2 DEF Begin, TypeOK
  <2>4. step' \in Steps
    BY <1>2, SequentialAssumption DEF Begin, Steps
  <2> QED
    BY <1>1, <1>2, <2>3, <2>4 DEF Begin, TypeOK
<1>3. CASE Step
  <2>1. clid \in Nat
    BY <1>3, ClidType DEF Step, InProcess
  <2>2. ran' \in [Steps -> SUBSET Nat]
    BY <1>3, <2>1 DEF Step, TypeOK
  <2>3. kf' \in Keyframe
    <3>1. Plan[step] \in Component
      BY DEF TypeOK, Component
    <3>2. Frozen(Plan[step], ran) \in Entry
      BY <3>1, FrozenType DEF TypeOK
    <3>3. kf.frozen \in Seq(Entry)
      BY DEF TypeOK, Keyframe
    <3>4. Append(kf.frozen, Frozen(Plan[step], ran)) \in Seq(Entry)
      BY <3>2, <3>3, AppendProperties
    <3>5. [kf EXCEPT !.frozen = Append(@, Frozen(Plan[step], ran))] \in Keyframe
      BY <3>4 DEF TypeOK, Keyframe
    <3> QED
      BY <1>3, <3>5 DEF Step, TypeOK
  <2>4. /\ pc' \in {"idle", "steps", "abort", "end", "keyframe", "postprocess"}
        /\ step' \in Steps
        /\ lost' \subseteq Nat
    BY <1>3, <2>1, SequentialAssumption DEF Step, Lose, TypeOK, Steps
  <2> QED
    BY <1>1, <1>3, <2>2, <2>3, <2>4 DEF Step, TypeOK
<1>4. CASE EndList
  BY <1>1, <1>4 DEF EndList, AfterList, TypeOK
<1>5. CASE EndListFails
  <2>1. clid \in Nat
    BY <1>5, ClidType DEF EndListFails, InProcess
  <2> QED
    BY <1>1, <1>5, <2>1 DEF EndListFails, Lose, TypeOK
<1>6. CASE LogKeyframe \/ LogKeyframeFails
  BY <1>1, <1>6 DEF LogKeyframe, LogKeyframeFails, TypeOK
<1>7. CASE Postprocess
  <2>1. PICK n \in 0..Len(BridgeOrder) :
          kf' = IF captures_keyframe(clid)
                  THEN [kf EXCEPT !.frozen = @ \o
                          [i \in 1..n |-> Frozen(BridgeOrder[i], ran)]]
                  ELSE kf
    BY <1>7 DEF Postprocess
  <2> DEFINE bridges == [i \in 1..n |-> Frozen(BridgeOrder[i], ran)]
  <2>2. \A i \in 1..n : Frozen(BridgeOrder[i], ran) \in Entry
    <3> TAKE i \in 1..n
    <3>1. BridgeOrder[i] \in Component
      BY SequentialAssumption DEF Bridges
    <3> QED
      BY <3>1, FrozenType DEF TypeOK
  <2>3. n \in Nat /\ bridges \in [1..n -> Entry]
    BY <2>2, SequentialAssumption
  <2>4. bridges \in Seq(Entry)
    BY <2>3, SeqDef
  <2>5. kf.frozen \o bridges \in Seq(Entry)
    <3>1. kf.frozen \in Seq(Entry)
      BY DEF TypeOK, Keyframe
    <3> QED
      BY <2>4, <3>1, ConcatProperties
  <2>6. [kf EXCEPT !.frozen = @ \o bridges] \in Keyframe
    BY <2>5 DEF TypeOK, Keyframe
  <2>7. kf' \in Keyframe
    BY <2>1, <2>6 DEF TypeOK
  <2> QED
    BY <1>1, <1>7, <2>7 DEF Postprocess, TypeOK
<1>8. CASE UNCHANGED seq_vars
  BY <1>1, <1>8 DEF seq_vars, TypeOK
<1> QED
  BY <1>2, <1>3, <1>4, <1>5, <1>6, <1>7, <1>8 DEF SeqNext, RunOutOfSpace, Stopped

(* Type correctness for every plan, number of slots and mix of failures.    *)
THEOREM TypeCorrect == SeqSpec => []TypeOK
<1>1. SeqInit => TypeOK /\ RingInv
  BY TypeInit, RingInvInit
<1>2. TypeOK /\ RingInv /\ [SeqNext]_seq_vars => (TypeOK /\ RingInv)'
  BY TypeStep, RingInvStep
<1> QED
  BY <1>1, <1>2, PTL DEF SeqSpec

----------------------------------------------------------------------------
(* The log. *)

(* A lost list is neither in process nor yet to be created.                 *)
LogInv ==
  /\ LoggedUnlessLost
  /\ \A x \in lost : x \in Nat /\ x < current_cl_id
  /\ InProcess => clid \notin lost

Logs(seq) == {seq[i] : i \in 1..Len(seq)}

LEMMA AppendLog ==
  ASSUME NEW s \in Seq(Nat), NEW x \in Nat
  PROVE  /\ Logs(Append(s, x)) = Logs(s) \cup {x}
         /\ (/\ \A i, j \in 1..Len(s) : i < j => s[i] < s[j]
             /\ \A y \in Logs(s) : y < x)
              => \A i, j \in 1..Len(Append(s, x)) :
                   i < j => Append(s, x)[i] < Append(s, x)[j]
<1> DEFINE t == Append(s, x)
<1>1. /\ Len(t) = Len(s) + 1 /\ Len(s) \in Nat
      /\ \A i \in 1..Len(s) : t[i] = s[i]
      /\ t[Len(s) + 1] = x
  OBVIOUS
<1> HIDE DEF t
<1>2. Logs(t) = Logs(s) \cup {x}
  <2>1. \A y \in Logs(t) : y \in Logs(s) \cup {x}
    BY <1>1 DEF Logs
  <2>2. \A i \in 1..Len(s) : i \in 1..Len(t) /\ t[i] = s[i]
    BY <1>1
  <2>3. Len(s) + 1 \in 1..Len(t)
    BY <1>1
  <2>4. \A y \in Logs(s) \cup {x} : y \in Logs(t)
    BY <1>1, <2>2, <2>3 DEF Logs
  <2> QED
    BY <2>1, <2>4
<1>3. ASSUME \A i, j \in 1..Len(s) : i < j => s[i] < s[j],
             \A y \in Logs(s) : y < x
      PROVE  \A i, j \in 1..Len(t) : i < j => t[i] < t[j]
  <2>1. \A i \in 1..Len(s) : s[i] < x
    BY <1>3 DEF Logs
  <2> TAKE i, j \in 1..Len(t)
  <2>2. CASE j = Len(s) + 1
    BY <1>1, <2>1, <2>2
  <2>3. CASE j # Len(s) + 1
    BY <1>1, <1>3, <2>3
  <2> QED
    BY <2>2, <2>3
<1> QED
  BY <1>2, <1>3 DEF t

Ascending == \A i, j \in 1..Len(log) : i < j => log[i] < log[j]
InHand == IF InProcess THEN {clid} ELSE {}

LEMMA LogInvInit ==
  ASSUME SeqInit
  PROVE  LogInv
<1>1. log = <<>> /\ lost = {} /\ current_cl_id = 0 /\ ~InProcess
  BY DEF SeqInit, RingInit, InProcess
<1>2. {log[i] : i \in 1..Len(log)} = {} /\ 0..(current_cl_id - 1) = {}
  BY <1>1
<1> QED
  BY <1>1, <1>2 DEF LogInv, LoggedUnlessLost

LEMMA LogInvStep ==
  ASSUME TypeOK, RingInv, LogInv, [SeqNext]_seq_vars
  PROVE  LogInv'
<1>1. /\ log \in Seq(Nat) /\ current_cl_id \in Nat
      /\ Ascending /\ Logs(log) = 0..(current_cl_id - 1) \ (lost \cup InHand)
      /\ \A x \in lost : x \in Nat /\ x < current_cl_id
      /\ InProcess => clid \notin lost
  BY DEF TypeOK, RingType, LogInv, LoggedUnlessLost, Ascending, Logs, InHand
<1>2. InProcess => clid \in Nat /\ clid = current_cl_id - 1
  BY ClidType DEF clid
<1>3. SUFFICES /\ Ascending'
               /\ Logs(log') = 0..(current_cl_id' - 1) \ (lost' \cup InHand')
               /\ \A x \in lost' : x \in Nat /\ x < current_cl_id'
               /\ InProcess' => clid' \notin lost'
  BY DEF LogInv, LoggedUnlessLost, Ascending, Logs, InHand
<1>4. CASE Begin
  <2>1. /\ ~InProcess /\ InProcess' /\ log' = log /\ lost' = lost
        /\ current_cl_id' = current_cl_id + 1 /\ clid' = current_cl_id
    BY <1>1, <1>4 DEF Begin, Create, InProcess, clid
  <2>2. InHand = {} /\ InHand' = {current_cl_id}
    BY <2>1 DEF InHand
  <2>3. 0..(current_cl_id - 1) \ lost =
          0..(current_cl_id' - 1) \ (lost \cup {current_cl_id})
    BY <1>1, <2>1
  <2> QED
    BY <1>1, <2>1, <2>2, <2>3 DEF Ascending
<1>5. CASE Step \/ EndListFails
  <2>1. InProcess /\ log' = log /\ current_cl_id' = current_cl_id
        /\ clid' = clid
    <3>1. CASE Step
      BY <3>1 DEF Step, InProcess, clid
    <3>2. CASE EndListFails
      <4>1. InProcess /\ EndOfProcessingFails(clid)
        BY <3>2 DEF EndListFails, InProcess
      <4> QED
        BY <4>1, EndFailsStep DEF clid
    <3> QED
      BY <1>5, <3>1, <3>2
  <2>2. \/ InProcess' /\ lost' = lost
        \/ ~InProcess' /\ lost' = lost \cup {clid}
    BY <1>5 DEF Step, EndListFails, Lose, InProcess
  <2>3. lost' \cup InHand' = lost \cup InHand
    BY <2>1, <2>2 DEF InHand
  <2> QED
    BY <1>1, <1>2, <2>1, <2>2, <2>3 DEF Ascending
<1>6. CASE EndList
  <2>1. InProcess /\ ~InProcess' /\ EndOfProcessing(clid) /\ lost' = lost
    BY <1>6 DEF EndList, AfterList, InProcess
  <2>2. log' = Append(log, clid) /\ current_cl_id' = current_cl_id
    BY <2>1, EndStep
  <2>3. InHand = {clid} /\ InHand' = {}
    BY <2>1 DEF InHand
  <2>4. \A y \in Logs(log) : y < clid
    BY <1>1, <1>2, <2>1, <2>3
  <2>5. Ascending'
    BY <1>1, <1>2, <2>1, <2>2, <2>4, AppendLog DEF Ascending
  <2>6. Logs(log') = Logs(log) \cup {clid}
    BY <1>1, <1>2, <2>1, <2>2, AppendLog
  <2>7. clid \in 0..(current_cl_id - 1) /\ clid \notin lost
    BY <1>1, <1>2, <2>1
  <2> QED
    BY <1>1, <2>1, <2>2, <2>3, <2>5, <2>6, <2>7
<1>7. CASE \/ LogKeyframe \/ LogKeyframeFails \/ Postprocess
           \/ UNCHANGED seq_vars
  <2>1. /\ log' = log /\ lost' = lost /\ current_cl_id' = current_cl_id
        /\ clid' = clid /\ (InProcess' <=> InProcess)
    BY <1>7 DEF LogKeyframe, LogKeyframeFails, Postprocess, seq_vars, InProcess, clid
  <2> QED
    BY <1>1, <2>1 DEF Ascending, InHand
<1> QED
  BY <1>4, <1>5, <1>6, <1>7 DEF SeqNext, RunOutOfSpace, Stopped

Inv == TypeOK /\ RingInv /\ LogInv

LEMMA InvAlways == SeqSpec => []Inv
<1>1. SeqInit => Inv
  BY TypeInit, RingInvInit, LogInvInit DEF Inv
<1>2. Inv /\ [SeqNext]_seq_vars => Inv'
  BY TypeStep, RingInvStep, LogInvStep DEF Inv
<1> QED
  BY <1>1, <1>2, PTL DEF SeqSpec

(* The log holds every list once and in order, but for those whose          *)
(* iteration returned early and the one in process.                         *)
THEOREM LogComplete == SeqSpec => []LoggedUnlessLost
<1>1. Inv => LoggedUnlessLost
  BY DEF Inv, LogInv
<1> QED
  BY <1>1, InvAlways, PTL

----------------------------------------------------------------------------
(* The slots. *)

SlotInv == SlotsLostToErrors /\ IsFiniteSet(lost)

LEMMA SlotInvStep ==
  ASSUME Inv, SlotInv, [SeqNext]_seq_vars
  PROVE  SlotInv'
<1>1. /\ length \in Nat /\ IsFiniteSet(lost) /\ Cardinality(lost) \in Nat
      /\ length = Cardinality(lost) + (IF InProcess THEN 1 ELSE 0)
      /\ InProcess => clid \notin lost
  <2>1. NBCL \in Nat /\ length \in 0..NBCL
    BY RingAssumption DEF Inv, TypeOK, RingType
  <2> QED
    BY <2>1, FS_CardinalityType
      DEF Inv, LogInv, SlotInv, SlotsLostToErrors
<1>2. /\ IsFiniteSet(lost \cup {clid})
      /\ InProcess => Cardinality(lost \cup {clid}) = Cardinality(lost) + 1
  BY <1>1, FS_AddElement
<1>3. CASE Begin
  BY <1>1, <1>3 DEF Begin, Create, InProcess, SlotInv, SlotsLostToErrors
<1>4. CASE Step
  <2>1. InProcess /\ length' = length
    BY <1>4 DEF Step, InProcess
  <2>2. \/ InProcess' /\ lost' = lost
        \/ ~InProcess' /\ lost' = lost \cup {clid}
    BY <1>4 DEF Step, Lose, InProcess
  <2>3. CASE InProcess' /\ lost' = lost
    BY <1>1, <2>1, <2>3 DEF SlotInv, SlotsLostToErrors
  <2>4. CASE ~InProcess' /\ lost' = lost \cup {clid}
    <3>1. length' = Cardinality(lost') + 0 /\ IsFiniteSet(lost')
      BY <1>1, <1>2, <2>1, <2>4
    <3> QED
      BY <2>4, <3>1 DEF SlotInv, SlotsLostToErrors
  <2> QED
    BY <2>2, <2>3, <2>4
<1>5. CASE EndList
  <2>1. InProcess /\ ~InProcess' /\ EndOfProcessing(clid) /\ lost' = lost
    BY <1>5 DEF EndList, AfterList, InProcess
  <2>2. length' = length - 1
    BY <2>1, EndStep DEF Inv
  <2> QED
    BY <1>1, <2>1, <2>2 DEF SlotInv, SlotsLostToErrors
<1>6. CASE EndListFails
  <2>1. /\ InProcess /\ ~InProcess' /\ EndOfProcessingFails(clid)
        /\ lost' = lost \cup {clid}
    BY <1>6 DEF EndListFails, Lose, InProcess
  <2>2. length' = length
    BY <2>1, EndFailsStep DEF Inv
  <2> QED
    BY <1>1, <1>2, <2>1, <2>2 DEF SlotInv, SlotsLostToErrors
<1>7. CASE \/ LogKeyframe \/ LogKeyframeFails \/ Postprocess
           \/ UNCHANGED seq_vars
  <2>1. /\ length' = length /\ lost' = lost /\ (InProcess' <=> InProcess)
    BY <1>7 DEF LogKeyframe, LogKeyframeFails, Postprocess, seq_vars, InProcess
  <2> QED
    BY <1>1, <2>1 DEF SlotInv, SlotsLostToErrors
<1> QED
  BY <1>3, <1>4, <1>5, <1>6, <1>7 DEF SeqNext, RunOutOfSpace, Stopped

(* The ring holds the lost lists and the one in process: an application     *)
(* that loses none never runs out of CopperLists.                           *)
THEOREM SlotsAccounted == SeqSpec => []SlotsLostToErrors
<1>1. SeqInit => SlotInv
  BY FS_EmptySet DEF SeqInit, RingInit, InProcess, SlotInv, SlotsLostToErrors
<1>2. Inv /\ SlotInv /\ [SeqNext]_seq_vars => SlotInv'
  BY SlotInvStep
<1>3. SlotInv => SlotsLostToErrors
  BY DEF SlotInv
<1> QED
  BY <1>1, <1>2, <1>3, InvAlways, PTL DEF SeqSpec

----------------------------------------------------------------------------
(* Keyframes. *)

(* The keyframe at hand is that of the list in process, and once that list  *)
(* has ended it is in the log.                                              *)
KeyframeInv ==
  /\ KeyframeHasList
  /\ (InProcess \/ pc = "keyframe") /\ captures_keyframe(clid)
       => kf.culistid = clid
  /\ pc = "keyframe" => clid \in Logs(log)

LEMMA KeyframeInvStep ==
  ASSUME Inv, KeyframeInv, [SeqNext]_seq_vars
  PROVE  KeyframeInv'
<1>1. /\ log \in Seq(Nat) /\ current_cl_id \in Nat
      /\ \A f \in kf_log : f.culistid \in Logs(log)
      /\ (InProcess \/ pc = "keyframe") /\ captures_keyframe(clid)
           => kf.culistid = clid
      /\ pc = "keyframe" => clid \in Logs(log)
  BY DEF Inv, TypeOK, RingType, KeyframeInv, KeyframeHasList, Logs
<1>2. SUFFICES
      /\ \A f \in kf_log' : f.culistid \in Logs(log')
      /\ (InProcess' \/ pc' = "keyframe") /\ captures_keyframe(clid')
           => kf'.culistid = clid'
      /\ pc' = "keyframe" => clid' \in Logs(log')
  BY DEF KeyframeInv, KeyframeHasList, Logs, captures_keyframe
<1>3. CASE Begin
  <2>1. /\ pc' = "steps" /\ log' = log /\ kf_log' = kf_log
        /\ clid' = current_cl_id
        /\ captures_keyframe(current_cl_id) => kf'.culistid = current_cl_id
    BY <1>1, <1>3 DEF Begin, Create, clid, KeyframeReset
  <2> QED
    BY <1>1, <2>1
<1>4. CASE Step
  <2>1. /\ InProcess /\ log' = log /\ kf_log' = kf_log /\ clid' = clid
        /\ pc' # "keyframe"
    BY <1>4 DEF Step, Lose, InProcess, clid
  <2>2. kf'.culistid = kf.culistid
    BY <1>4 DEF Step, Inv, TypeOK, Keyframe
  <2> QED
    BY <1>1, <2>1, <2>2
<1>5. CASE EndList
  <2>1. /\ InProcess /\ EndOfProcessing(clid) /\ ~InProcess'
        /\ kf_log' = kf_log /\ kf' = kf
    BY <1>5 DEF EndList, AfterList, InProcess
  <2>2. log' = Append(log, clid) /\ clid' = clid
    BY <2>1, EndStep DEF Inv, clid
  <2>3. Logs(log') = Logs(log) \cup {clid}
    BY <1>1, <2>1, <2>2, ClidType, AppendLog DEF Inv
  <2> QED
    BY <1>1, <2>1, <2>2, <2>3
<1>6. CASE EndListFails
  <2>1. /\ InProcess /\ EndOfProcessingFails(clid) /\ pc' = "idle"
        /\ kf_log' = kf_log
    BY <1>6 DEF EndListFails, Lose, InProcess
  <2>2. log' = log
    BY <2>1, EndFailsStep DEF Inv
  <2> QED
    BY <1>1, <2>1, <2>2 DEF InProcess
<1>7. CASE LogKeyframe
  <2>1. /\ pc = "keyframe" /\ log' = log
        /\ ~InProcess' /\ pc' # "keyframe"
        /\ kf_log' = IF captures_keyframe(clid) THEN kf_log \cup {kf}
                     ELSE kf_log
    BY <1>7 DEF LogKeyframe, InProcess
  <2> QED
    BY <1>1, <2>1
<1>8. CASE LogKeyframeFails \/ Postprocess
  <2>1. /\ log' = log /\ kf_log' = kf_log
        /\ ~InProcess' /\ pc' # "keyframe"
    BY <1>8 DEF LogKeyframeFails, Postprocess, InProcess
  <2> QED
    BY <1>1, <2>1
<1>9. CASE UNCHANGED seq_vars
  <2>1. /\ log' = log /\ kf_log' = kf_log /\ kf' = kf /\ pc' = pc
        /\ clid' = clid /\ (InProcess' <=> InProcess)
    BY <1>9 DEF seq_vars, InProcess, clid
  <2> QED
    BY <1>1, <2>1
<1> QED
  BY <1>3, <1>4, <1>5, <1>6, <1>7, <1>8, <1>9 DEF SeqNext, RunOutOfSpace, Stopped

(* A keyframe is logged only for a list that is in the log.                 *)
THEOREM KeyframesHaveLists == SeqSpec => []KeyframeHasList
<1>1. SeqInit => KeyframeInv
  BY DEF SeqInit, InProcess, KeyframeInv, KeyframeHasList
<1>2. Inv /\ KeyframeInv /\ [SeqNext]_seq_vars => KeyframeInv'
  BY KeyframeInvStep
<1>3. KeyframeInv => KeyframeHasList
  BY DEF KeyframeInv
<1> QED
  BY <1>1, <1>2, <1>3, InvAlways, PTL DEF SeqSpec
----------------------------------------------------------------------------
(* What keyframes hold. *)

\* A plan executes a task at one step; only a bridge has several.
TasksOnce ==
  \A s, t \in Steps : Plan[s] = Plan[t] /\ Plan[s] \notin Bridges => s = t

\* What the lists before k made of the component of step s.
Before(s, k, steps) == {x \in StateOf(Plan[s], steps) : x[2] < k}

\* The tasks up to step n are in f, as the lists before it left them.
Captured(f, n, steps) ==
  /\ Len(f.frozen) = Cardinality(TaskSteps(n))
  /\ \A s \in TaskSteps(n) :
       f.frozen[Cardinality(TaskSteps(s))] =
         [component |-> Plan[s], state |-> Before(s, f.culistid, steps)]

\* How many steps the list in hand has been through.
StepsDone == IF pc = "steps" THEN step - 1 ELSE Len(Plan)

(* No step has seen a list yet to be created, nor one ahead of step the     *)
(* list in process; the keyframe at hand, and every logged one, holds the   *)
(* tasks that its list has been through.                                    *)
FrozenInv ==
  /\ \A s \in Steps : \A k \in ran[s] : k < current_cl_id
  /\ pc = "steps" => \A s \in Steps : s >= step => clid \notin ran[s]
  /\ pc \in {"steps", "end", "keyframe"} /\ captures_keyframe(clid)
       => Captured(kf, StepsDone, ran)
  /\ \A f \in kf_log : f.culistid < current_cl_id /\ Captured(f, Len(Plan), ran)

LEMMA TaskStepsCount ==
  ASSUME NEW n \in Nat
  PROVE  /\ IsFiniteSet(TaskSteps(n)) /\ Cardinality(TaskSteps(n)) \in Nat
         /\ TaskSteps(n) \subseteq 1..n
         /\ \A s \in TaskSteps(n) :
              Cardinality(TaskSteps(s)) \in 1..Cardinality(TaskSteps(n))
<1>1. \A m \in Nat : IsFiniteSet(TaskSteps(m))
  <2> TAKE m \in Nat
  <2>1. IsFiniteSet(1..m) /\ TaskSteps(m) \in SUBSET (1..m)
    BY FS_Interval DEF TaskSteps
  <2> QED
    BY <2>1, FS_Subset
<1>2. \A m \in Nat : Cardinality(TaskSteps(m)) \in Nat
  BY <1>1, FS_CardinalityType
<1>3. ASSUME NEW s \in TaskSteps(n)
      PROVE  Cardinality(TaskSteps(s)) \in 1..Cardinality(TaskSteps(n))
  <2>1. s \in Nat /\ s \in TaskSteps(s) /\ TaskSteps(s) \in SUBSET TaskSteps(n)
    BY DEF TaskSteps
  <2>2. Cardinality(TaskSteps(s)) <= Cardinality(TaskSteps(n))
    BY <1>1, <2>1, FS_Subset
  <2>3. Cardinality(TaskSteps(s)) # 0
    BY <1>1, <2>1, FS_EmptySet
  <2> QED
    BY <1>2, <2>1, <2>2, <2>3
<1> QED
  BY <1>1, <1>2, <1>3 DEF TaskSteps

(* A step adds itself to the tasks that have been through, if it is one.    *)
LEMMA TaskStepsNext ==
  ASSUME NEW n \in Nat \ {0}
  PROVE  /\ Plan[n] \in Bridges => TaskSteps(n) = TaskSteps(n - 1)
         /\ Plan[n] \notin Bridges =>
              /\ TaskSteps(n) = TaskSteps(n - 1) \cup {n}
              /\ Cardinality(TaskSteps(n)) = Cardinality(TaskSteps(n - 1)) + 1
<1>1. Plan[n] \in Bridges => TaskSteps(n) = TaskSteps(n - 1)
  BY DEF TaskSteps
<1>2. Plan[n] \notin Bridges => TaskSteps(n) = TaskSteps(n - 1) \cup {n}
  BY DEF TaskSteps
<1>3. /\ IsFiniteSet(TaskSteps(n - 1)) /\ n \notin TaskSteps(n - 1)
      /\ Cardinality(TaskSteps(n - 1)) \in Nat
  <2>1. n - 1 \in Nat
    OBVIOUS
  <2> QED
    BY <2>1, TaskStepsCount
<1>4. Cardinality(TaskSteps(n - 1) \cup {n}) = Cardinality(TaskSteps(n - 1)) + 1
  BY <1>3, FS_AddElement
<1> QED
  BY <1>1, <1>2, <1>4

(* What has been captured of earlier lists does not change when a list runs *)
(* through a step.                                                          *)
LEMMA CapturedKept ==
  ASSUME NEW steps \in [Steps -> SUBSET Nat], NEW at \in Steps, NEW k \in Nat,
         NEW f \in Keyframe, f.culistid <= k, NEW n \in 0..Len(Plan),
         Captured(f, n, steps)
  PROVE  Captured(f, n, [steps EXCEPT ![at] = @ \cup {k}])
<1> DEFINE later == [steps EXCEPT ![at] = @ \cup {k}]
<1>1. f.culistid \in Nat /\ later \in [Steps -> SUBSET Nat]
  BY DEF Keyframe
<1>2. \A s \in Steps : \A x \in Nat :
        x < f.culistid => (x \in later[s] <=> x \in steps[s])
  BY <1>1
<1> HIDE DEF later
<1>3. ASSUME NEW s \in TaskSteps(n)
      PROVE  Before(s, f.culistid, later) = Before(s, f.culistid, steps)
  BY <1>1, <1>2 DEF Before, StateOf
<1> QED
  BY <1>3 DEF Captured, later

(* The next task joins those captured.                                      *)
LEMMA CapturedNext ==
  ASSUME NEW steps \in [Steps -> SUBSET Nat], NEW at \in Steps,
         NEW f \in Keyframe, Captured(f, at - 1, steps),
         Plan[at] \notin Bridges,
         NEW g \in Keyframe, g.culistid = f.culistid,
         g.frozen = Append(f.frozen, [component |-> Plan[at],
                                      state |-> Before(at, f.culistid, steps)])
  PROVE  Captured(g, at, steps)
<1>1. /\ at \in Nat \ {0} /\ at - 1 \in Nat
      /\ f.frozen \in Seq([component : Component, state : SUBSET (Steps \X Nat)])
  BY SequentialAssumption DEF Steps, Keyframe
<1>2. /\ TaskSteps(at) = TaskSteps(at - 1) \cup {at}
      /\ Cardinality(TaskSteps(at)) = Cardinality(TaskSteps(at - 1)) + 1
  BY <1>1, TaskStepsNext
<1> DEFINE c == Cardinality(TaskSteps(at - 1))
<1>3. c \in Nat /\ Len(f.frozen) = c
  BY <1>1, TaskStepsCount DEF Captured
<1>4. \A s \in TaskSteps(at - 1) : Cardinality(TaskSteps(s)) \in 1..c
  BY <1>1, TaskStepsCount
<1>5. /\ Len(g.frozen) = c + 1
      /\ \A i \in 1..c : g.frozen[i] = f.frozen[i]
      /\ g.frozen[c + 1] = [component |-> Plan[at],
                            state |-> Before(at, f.culistid, steps)]
  BY <1>1, <1>3
<1>6. ASSUME NEW s \in TaskSteps(at)
      PROVE  g.frozen[Cardinality(TaskSteps(s))] =
               [component |-> Plan[s], state |-> Before(s, g.culistid, steps)]
  <2>1. CASE s = at
    BY <1>2, <1>5, <2>1
  <2>2. CASE s \in TaskSteps(at - 1)
    BY <1>4, <1>5, <2>2 DEF Captured
  <2> QED
    BY <1>2, <2>1, <2>2
<1> QED
  BY <1>2, <1>5, <1>6 DEF Captured

LEMMA FrozenInvStep ==
  ASSUME TasksOnce, Inv, KeyframeInv, FrozenInv, [SeqNext]_seq_vars
  PROVE  FrozenInv'
<1>1. /\ current_cl_id \in Nat /\ kf \in Keyframe /\ kf_log \subseteq Keyframe
      /\ ran \in [Steps -> SUBSET Nat] /\ Len(Plan) \in Nat \ {0}
      /\ step \in Steps
  BY SequentialAssumption DEF Inv, TypeOK, RingType
<1>2. /\ InProcess => clid \in Nat
      /\ clid = current_cl_id - 1
      /\ (InProcess \/ pc = "keyframe") /\ captures_keyframe(clid)
           => kf.culistid = clid
  BY ClidType DEF Inv, KeyframeInv, clid
<1>3. /\ \A s \in Steps : \A k \in ran[s] : k < current_cl_id
      /\ pc = "steps" => \A s \in Steps : s >= step => clid \notin ran[s]
      /\ pc \in {"steps", "end", "keyframe"} /\ captures_keyframe(clid)
           => Captured(kf, StepsDone, ran)
      /\ \A f \in kf_log :
           f.culistid < current_cl_id /\ Captured(f, Len(Plan), ran)
  BY DEF FrozenInv
<1>4. CASE Begin
  <2>1. /\ pc' = "steps" /\ step' = 1 /\ ran' = ran /\ kf_log' = kf_log
        /\ current_cl_id' = current_cl_id + 1 /\ clid' = current_cl_id
        /\ captures_keyframe(current_cl_id) =>
             kf' = [culistid |-> current_cl_id, frozen |-> <<>>]
    BY <1>1, <1>4 DEF Begin, Create, clid, KeyframeReset
  <2>2. TaskSteps(0) = {} /\ Cardinality({}) = 0
    BY FS_EmptySet DEF TaskSteps
  <2>3. captures_keyframe(clid') => Captured(kf', 0, ran')
    BY <2>1, <2>2 DEF Captured
  <2>4. StepsDone' = 0
    BY <2>1 DEF StepsDone
  <2>5. \A s \in Steps : \A k \in ran'[s] : k < current_cl_id'
    BY <1>1, <1>3, <2>1
  <2>6. \A s \in Steps : clid' \notin ran'[s]
    BY <1>1, <1>3, <2>1
  <2>7. \A f \in kf_log' :
          f.culistid < current_cl_id' /\ Captured(f, Len(Plan), ran')
    BY <1>1, <1>3, <2>1 DEF Keyframe
  <2> QED
    BY <2>3, <2>4, <2>5, <2>6, <2>7 DEF FrozenInv, captures_keyframe
<1>5. CASE Step
  <2>1. /\ InProcess /\ pc = "steps" /\ kf_log' = kf_log
        /\ current_cl_id' = current_cl_id /\ clid' = clid
        /\ ran' = [ran EXCEPT ![step] = @ \cup {clid}]
        /\ kf' = IF Freezes(step)
                   THEN [kf EXCEPT !.frozen = Append(@, Frozen(Plan[step], ran))]
                   ELSE kf
    BY <1>5 DEF Step, InProcess, clid
  <2>2. clid \in Nat /\ StepsDone = step - 1 /\ step - 1 \in 0..Len(Plan)
    BY <1>1, <1>2, <2>1 DEF StepsDone, Steps
  <2>3. \A s \in Steps : \A k \in ran'[s] : k < current_cl_id'
    BY <1>1, <1>2, <1>3, <2>1
  <2>4. pc' = "steps" => \A s \in Steps : s >= step' => clid' \notin ran'[s]
    <3> SUFFICES ASSUME pc' = "steps", NEW s \in Steps, s >= step'
                 PROVE  clid \notin ran'[s]
      BY <2>1
    <3>1. step' = step + 1
      BY <1>5 DEF Step, Lose
    <3>2. s >= step /\ s # step
      BY <1>1, <3>1 DEF Steps
    <3> QED
      BY <1>1, <1>3, <2>1, <3>2
  <2>5. \A f \in kf_log' :
          f.culistid < current_cl_id' /\ Captured(f, Len(Plan), ran')
    <3> TAKE f \in kf_log'
    <3>1. f \in Keyframe /\ f.culistid < current_cl_id
          /\ Captured(f, Len(Plan), ran)
      BY <1>1, <1>3, <2>1
    <3>2. f.culistid <= clid
      BY <1>1, <1>2, <3>1 DEF Keyframe
    <3>3. Len(Plan) \in 0..Len(Plan)
      BY <1>1
    <3> QED
      BY <1>1, <2>1, <2>2, <3>1, <3>2, <3>3, CapturedKept
  <2>6. captures_keyframe(clid) => Captured(kf', step, ran')
    <3> SUFFICES ASSUME captures_keyframe(clid)
                 PROVE  Captured(kf', step, ran')
      OBVIOUS
    <3>1. kf.culistid = clid /\ Captured(kf, step - 1, ran)
      BY <1>2, <1>3, <2>1, <2>2
    <3>2. kf' \in Keyframe
      BY TypeStep DEF Inv, TypeOK
    <3>3. Captured(kf', step, ran)
      <4>1. CASE Plan[step] \in Bridges
        <5>1. kf' = kf /\ TaskSteps(step) = TaskSteps(step - 1)
          BY <1>1, <2>1, <4>1, TaskStepsNext DEF Freezes, Steps
        <5> QED
          BY <3>1, <5>1 DEF Captured
      <4>2. CASE Plan[step] \notin Bridges
        <5>1. kf' = [kf EXCEPT !.frozen = Append(@, Frozen(Plan[step], ran))]
          BY <2>1, <4>2 DEF Freezes
        <5>2. Before(step, clid, ran) = StateOf(Plan[step], ran)
          <6>1. ASSUME NEW x \in StateOf(Plan[step], ran)
                PROVE  x[2] < clid
            <7>1. x[1] \in Steps /\ Plan[x[1]] = Plan[step] /\ x[2] \in ran[x[1]]
              BY DEF StateOf
            <7>2. x[1] = step
              BY <1>1, <4>2, <7>1 DEF TasksOnce
            <7>3. x[2] \in Nat /\ x[2] < current_cl_id /\ x[2] # clid
              BY <1>1, <1>3, <2>1, <7>1, <7>2 DEF Steps
            <7> QED
              BY <1>1, <1>2, <2>2, <7>3
          <6> QED
            BY <6>1 DEF Before
        <5>3. /\ kf'.culistid = kf.culistid
              /\ kf'.frozen = Append(kf.frozen,
                                [component |-> Plan[step],
                                 state |-> Before(step, kf.culistid, ran)])
          BY <1>1, <3>1, <5>1, <5>2 DEF Keyframe, Frozen
        <5> QED
          BY <1>1, <3>1, <3>2, <4>2, <5>3, CapturedNext
      <4> QED
        BY <4>1, <4>2
    <3>4. kf'.culistid <= clid /\ step \in 0..Len(Plan)
      BY <1>1, <2>1, <2>2, <3>1 DEF Keyframe, Steps
    <3> QED
      BY <1>1, <2>1, <2>2, <3>2, <3>3, <3>4, CapturedKept
  <2>7. pc' \in {"steps", "end", "keyframe"} => StepsDone' = step
    <3>1. \/ pc' = "steps" /\ step' = step + 1
          \/ pc' = "end" /\ step = Len(Plan)
          \/ pc' \in {"abort", "idle"}
      BY <1>5 DEF Step, Lose
    <3> QED
      BY <1>1, <3>1 DEF StepsDone, Steps
  <2> QED
    BY <2>1, <2>3, <2>4, <2>5, <2>6, <2>7 DEF FrozenInv, captures_keyframe
<1>6. CASE EndList \/ EndListFails
  <2>1. /\ ran' = ran /\ kf' = kf /\ kf_log' = kf_log
        /\ current_cl_id' = current_cl_id /\ clid' = clid
        /\ pc' = "keyframe" => pc = "end"
        /\ pc' \in {"keyframe", "idle"} /\ pc \in {"abort", "end"}
    BY <1>6 DEF EndList, EndListFails, AfterList, Lose, EndOfProcessing,
                EndOfProcessingFails, clid
  <2>2. pc' = "keyframe" => StepsDone' = StepsDone
    BY <2>1 DEF StepsDone
  <2> QED
    BY <1>3, <2>1, <2>2 DEF FrozenInv, captures_keyframe
<1>7. CASE LogKeyframe \/ LogKeyframeFails \/ Postprocess
  <2>1. /\ ran' = ran
        /\ current_cl_id' = current_cl_id /\ clid' = clid
        /\ pc' \in {"postprocess", "idle"}
        /\ \/ kf_log' = kf_log
           \/ /\ pc = "keyframe" /\ captures_keyframe(clid)
              /\ kf_log' = kf_log \cup {kf}
    BY <1>7 DEF LogKeyframe, LogKeyframeFails, Postprocess, clid
  <2>2. \A f \in kf_log' :
          f.culistid < current_cl_id' /\ Captured(f, Len(Plan), ran')
    <3>1. pc = "keyframe" /\ captures_keyframe(clid) =>
            kf.culistid < current_cl_id /\ Captured(kf, Len(Plan), ran)
      BY <1>1, <1>2, <1>3 DEF StepsDone
    <3> QED
      BY <1>3, <2>1, <3>1
  <2> QED
    BY <1>3, <2>1, <2>2 DEF FrozenInv
<1>8. CASE UNCHANGED seq_vars
  <2>1. /\ ran' = ran /\ kf' = kf /\ kf_log' = kf_log /\ pc' = pc /\ step' = step
        /\ current_cl_id' = current_cl_id /\ clid' = clid
        /\ StepsDone' = StepsDone
    BY <1>8 DEF seq_vars, clid, StepsDone
  <2> QED
    BY <1>3, <2>1 DEF FrozenInv, captures_keyframe
<1> QED
  BY <1>4, <1>5, <1>6, <1>7, <1>8 DEF SeqNext, RunOutOfSpace, Stopped

(* A logged keyframe holds every task in plan order, each in the state the  *)
(* lists before its own left it in, however iterations end and whatever a   *)
(* failed one left in the manager.                                          *)
THEOREM KeyframesArePrefixes ==
  ASSUME TasksOnce
  PROVE  SeqSpec => []KeyframeIsPrefix
<1>1. SeqInit => KeyframeInv
  BY DEF SeqInit, InProcess, KeyframeInv, KeyframeHasList
<1>2. SeqInit => FrozenInv
  BY DEF SeqInit, FrozenInv
<1>3. Inv /\ KeyframeInv /\ [SeqNext]_seq_vars => KeyframeInv'
  BY KeyframeInvStep
<1>4. Inv /\ KeyframeInv /\ FrozenInv /\ [SeqNext]_seq_vars => FrozenInv'
  BY FrozenInvStep
<1>5. FrozenInv => KeyframeIsPrefix
  <2> SUFFICES ASSUME FrozenInv, NEW f \in kf_log
               PROVE  /\ Len(f.frozen) >= Cardinality(TaskSteps(Len(Plan)))
                      /\ \A s \in TaskSteps(Len(Plan)) :
                           f.frozen[Cardinality(TaskSteps(s))] =
                             [component |-> Plan[s],
                              state |-> {x \in StateOf(Plan[s], ran) :
                                           x[2] < f.culistid}]
    BY DEF KeyframeIsPrefix
  <2>1. Captured(f, Len(Plan), ran) /\ Len(Plan) \in Nat
    BY SequentialAssumption DEF FrozenInv
  <2>2. Cardinality(TaskSteps(Len(Plan))) \in Nat
    BY <2>1, TaskStepsCount
  <2> QED
    BY <2>1, <2>2 DEF Captured, Before
<1> QED
  BY <1>1, <1>2, <1>3, <1>4, <1>5, InvAlways, PTL DEF SeqSpec
=============================================================================
