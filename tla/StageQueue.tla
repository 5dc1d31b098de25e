----------------------------- MODULE StageQueue -----------------------------
(***************************************************************************)
(* parallel_queue.rs: the bounded single-producer single-consumer queue    *)
(* between two stages.  The ring is the rtrb crate's; around it the two    *)
(* threads park while it is full or empty and wake each other through two  *)
(* `waiting` flags.  One action is one access to shared memory.            *)
(*                                                                         *)
(* The flags are stored with Release and the ring's cursors loaded with    *)
(* Acquire, which lets a processor perform the load before the store is    *)
(* seen.  With memory "tso" each thread has a FIFO store buffer as on x86;  *)
(* with "sc" memory is sequentially consistent.                            *)
(***************************************************************************)
EXTENDS Integers, Sequences

CONSTANTS
  Capacity,      \* slots of the ring
  Memories,      \* the memories the machine may have
  MaxItems       \* bound: how many items are sent

ASSUME StageQueueAssumption ==
  Capacity \in Nat \ {0} /\ Memories \subseteq {"sc", "tso"} /\ MaxItems \in Nat

Thread == {"sender", "receiver"}
Flag == {"sender_waiting", "receiver_waiting", "sender_alive",
         "receiver_alive"}
Cell == Flag \cup {"head", "tail"}

VARIABLES
  memory,     \* "sc", or "tso": stores wait in a buffer before they are seen
  mem,        \* the atomics, as every thread sees them
  buffer,     \* thread -> its stores that are not in mem yet
  slots,      \* the items of the ring
  tail,       \* the producer's own cursor: items pushed
  head,       \* the consumer's own cursor: items popped
  token,      \* thread -> the token of park / unpark
  pc,         \* thread -> where it is in send, recv or drop
  \* history
  received,   \* the items recv() returned
  seen_tail   \* mem.tail when the last recv() was called

vars == <<memory, mem, buffer, slots, tail, head, token, pc, received, seen_tail>>

Init ==
  /\ memory \in Memories
  /\ mem = [c \in Cell |->
              IF c \in {"head", "tail"} THEN 0
              ELSE c \in {"sender_alive", "receiver_alive"}]
  /\ buffer = [t \in Thread |-> <<>>]
  /\ slots = [i \in 0..(Capacity - 1) |-> 0]
  /\ tail = 0 /\ head = 0
  /\ token = [t \in Thread |-> FALSE]
  /\ pc = [t \in Thread |-> "idle"]
  /\ received = <<>> /\ seen_tail = 0

----------------------------------------------------------------------------
(* Memory. *)

Peer(t) == IF t = "sender" THEN "receiver" ELSE "sender"
Waiting(t) == IF t = "sender" THEN "sender_waiting" ELSE "receiver_waiting"
Alive(t) == IF t = "sender" THEN "sender_alive" ELSE "receiver_alive"

Store(t, cell, value) ==
  IF memory = "tso"
    THEN /\ buffer' = [buffer EXCEPT ![t] = Append(@, <<cell, value>>)]
         /\ UNCHANGED mem
    ELSE /\ mem' = [mem EXCEPT ![cell] = value]
         /\ UNCHANGED buffer

\* The oldest store of a thread becomes visible.
Flush(t) ==
  /\ buffer[t] # <<>>
  /\ mem' = [mem EXCEPT ![Head(buffer[t])[1]] = Head(buffer[t])[2]]
  /\ buffer' = [buffer EXCEPT ![t] = Tail(@)]
  /\ UNCHANGED <<memory, slots, tail, head, token, pc, received, seen_tail>>

Goto(t, label) == pc' = [pc EXCEPT ![t] = label]

\* A load that only decides where the thread goes.
Branch(t, from, cond, yes, no) ==
  /\ pc[t] = from
  /\ Goto(t, IF cond THEN yes ELSE no)
  /\ UNCHANGED <<memory, mem, buffer, slots, tail, head, token, received, seen_tail>>

\* A store of a flag.
SetFlag(t, from, flag, value, to) ==
  /\ pc[t] = from
  /\ Store(t, flag, value)
  /\ Goto(t, to)
  /\ UNCHANGED <<memory, slots, tail, head, token, received, seen_tail>>

----------------------------------------------------------------------------
(* wake_sender, wake_receiver, park: read-modify-writes, which a thread     *)
(* performs with its store buffer empty.                                    *)

\* swap(false) on the peer's flag; then unpark() if it was set.
Wake(t, from, to, unpark) ==
  /\ pc[t] = from /\ buffer[t] = <<>>
  /\ mem' = [mem EXCEPT ![Waiting(Peer(t))] = FALSE]
  /\ Goto(t, IF mem[Waiting(Peer(t))] THEN unpark ELSE to)
  /\ UNCHANGED <<memory, buffer, slots, tail, head, token, received, seen_tail>>

Unpark(t, from, to) ==
  /\ pc[t] = from
  /\ token' = [token EXCEPT ![Peer(t)] = TRUE]
  /\ Goto(t, to)
  /\ UNCHANGED <<memory, mem, buffer, slots, tail, head, received, seen_tail>>

Park(t, to) ==
  /\ pc[t] = "park" /\ buffer[t] = <<>> /\ token[t]
  /\ token' = [token EXCEPT ![t] = FALSE]
  /\ Goto(t, to)
  /\ UNCHANGED <<memory, mem, buffer, slots, tail, head, received, seen_tail>>

\* park() may also return for no reason.
SpuriousWakeup(t) ==
  /\ pc[t] = "park" /\ buffer[t] = <<>> /\ ~token[t]
  /\ Goto(t, "woken")
  /\ UNCHANGED <<memory, mem, buffer, slots, tail, head, token, received, seen_tail>>

----------------------------------------------------------------------------
(* StageSender::send and its drop. *)

\* rtrb push: against the consumer's cursor as this thread sees it.
HasRoom_off(h) == tail - h <= Capacity
HasRoom(h) == tail - h < Capacity

Push(from, pushed, full) ==
  /\ pc["sender"] = from
  /\ IF HasRoom(mem["head"])
       THEN /\ slots' = [slots EXCEPT ![tail % Capacity] = tail]
            /\ tail' = tail + 1
            /\ Store("sender", "tail", tail + 1)
            /\ Goto("sender", pushed)
       ELSE /\ Goto("sender", full)
            /\ UNCHANGED <<mem, buffer, slots, tail>>
  /\ UNCHANGED <<memory, head, token, received, seen_tail>>

StartSend == tail < MaxItems /\ Branch("sender", "idle", TRUE, "check", "")

Send ==
  \/ Branch("sender", "check", mem["receiver_alive"], "push", "idle")
  \/ Push("push", "wake", "flag")
  \/ SetFlag("sender", "flag", "sender_waiting", TRUE, "recheck")
  \/ Branch("sender", "recheck", mem["receiver_alive"], "repush", "fail")
  \/ SetFlag("sender", "fail", "sender_waiting", FALSE, "idle")
  \/ Push("repush", "unflag", "park")
  \/ SetFlag("sender", "unflag", "sender_waiting", FALSE, "wake")
  \/ Park("sender", "woken")
  \/ SetFlag("sender", "woken", "sender_waiting", FALSE, "lastcheck")
  \/ Branch("sender", "lastcheck", mem["receiver_alive"], "check", "idle")
  \/ Wake("sender", "wake", "idle", "unpark")
  \/ Unpark("sender", "unpark", "idle")

----------------------------------------------------------------------------
(* StageReceiver::recv and its drop. *)

Pop(from, popped, empty) ==
  /\ pc["receiver"] = from
  /\ IF head < mem["tail"]
       THEN /\ received' = Append(received, slots[head % Capacity])
            /\ head' = head + 1
            /\ Store("receiver", "head", head + 1)
            /\ Goto("receiver", popped)
       ELSE /\ Goto("receiver", empty)
            /\ UNCHANGED <<mem, buffer, head, received>>
  /\ UNCHANGED <<memory, slots, tail, token, seen_tail>>

StartRecv ==
  /\ pc["receiver"] = "idle"
  /\ seen_tail' = mem["tail"]
  /\ Goto("receiver", "pop")
  /\ UNCHANGED <<memory, mem, buffer, slots, tail, head, token, received>>

\* The second look at the ring, after the flag is up.
RePop_skipped == Branch("receiver", "repop", TRUE, "check", "")
RePop == Pop("repop", "unflag", "check")

\* Is there anyone left to wait for?
FirstPop_checked ==
  Branch("receiver", "pop", mem["sender_alive"], "repop", "fail")
FirstPop == Pop("pop", "wake", "flag")

Recv ==
  \/ FirstPop
  \/ SetFlag("receiver", "flag", "receiver_waiting", TRUE, "repop")
  \/ RePop
  \/ SetFlag("receiver", "unflag", "receiver_waiting", FALSE, "wake")
  \/ Branch("receiver", "check", mem["sender_alive"], "park", "fail")
  \/ SetFlag("receiver", "fail", "receiver_waiting", FALSE, "disconnected")
  \/ Park("receiver", "woken")
  \/ SetFlag("receiver", "woken", "receiver_waiting", FALSE, "pop")
  \/ Wake("receiver", "wake", "idle", "unpark")
  \/ Unpark("receiver", "unpark", "idle")

----------------------------------------------------------------------------
(* The two ends leave: a worker whose recv() failed drops its end.          *)

StartDrop(t) ==
  SetFlag(t, "idle", Alive(t), FALSE, "dropped")

DropWake_forgotten(t) == Branch(t, "dropped", TRUE, "gone", "")
DropWake(t) == Wake(t, "dropped", "gone", "dropunpark")

Drop(t) ==
  \/ SetFlag(t, "disconnected", Alive(t), FALSE, "dropped")
  \/ DropWake(t)
  \/ Unpark(t, "dropunpark", "gone")

Terminated ==
  /\ \A t \in Thread : pc[t] = "gone" /\ buffer[t] = <<>>
  /\ UNCHANGED vars

Next ==
  \/ StartSend \/ Send \/ StartRecv \/ Recv
  \/ \E t \in Thread :
       StartDrop(t) \/ Drop(t) \/ Flush(t) \/ SpuriousWakeup(t)
  \/ Terminated

Spec == Init /\ [][Next]_vars

\* Threads run, buffers drain, and a worker receives in a loop; nobody has
\* to send another item or to leave.
Fairness ==
  /\ WF_vars(Send) /\ WF_vars(Recv) /\ WF_vars(StartRecv)
  /\ \A t \in Thread : WF_vars(Drop(t)) /\ WF_vars(Flush(t))

FairSpec == Spec /\ Fairness

----------------------------------------------------------------------------
(* Properties. *)

Label == {"idle", "check", "push", "flag", "recheck", "repush", "unflag",
          "wake", "unpark", "park", "woken", "lastcheck", "pop", "repop",
          "fail", "disconnected", "dropped", "dropunpark", "gone"}

Update == ({"head", "tail"} \X Nat) \cup (Flag \X BOOLEAN)

TypeOK ==
  /\ memory \in Memories
  /\ mem = [c \in Cell |-> mem[c]]
  /\ \A c \in Flag : mem[c] \in BOOLEAN
  /\ mem["head"] \in 0..head /\ mem["tail"] \in 0..tail
  /\ buffer \in [Thread -> Seq(Update)]
  /\ slots \in [0..(Capacity - 1) -> Nat]
  /\ tail \in Nat /\ head \in Nat /\ tail - head \in 0..Capacity
  /\ token \in [Thread -> BOOLEAN] /\ pc \in [Thread -> Label]
  /\ received \in Seq(Nat) /\ seen_tail \in Nat

(* The ring and its two cursors, however late the other side sees them,     *)
(* are a bounded FIFO channel: no item is lost, duplicated, overwritten or  *)
(* reordered.                                                               *)
SC == INSTANCE StageChannel WITH
        chan <- [i \in 1..(tail - head) |-> head + i - 1],
        sent <- tail,
        open <- [t \in Thread |->
                   pc[t] \notin {"dropped", "dropunpark", "gone"}]
ImplementsChannel == SC!SCSpec

(* A recv() that fails leaves no item behind that was in the ring when it   *)
(* was called.                                                              *)
FailsOnlyEmpty ==
  pc["receiver"] \in {"fail", "disconnected"} => seen_tail <= head

(* An item that was sent is received, or the receiver leaves: no wake-up    *)
(* is lost between its second look at the ring and park().                  *)
Delivered ==
  \A n \in 1..MaxItems : tail >= n ~> (head >= n \/ pc["receiver"] = "gone")

(* The same where stores are seen in the order of the program.              *)
DeliveredInOrder == (memory = "sc") => Delivered

(* send() returns, with room or with an error.                              *)
SendReturns ==
  (memory = "sc" /\ pc["sender"] = "check") ~> (pc["sender"] = "idle")
=============================================================================
