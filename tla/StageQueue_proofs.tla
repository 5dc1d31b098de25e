-------------------------- MODULE StageQueue_proofs --------------------------
(***************************************************************************)
(* Proofs about StageQueue, for every capacity and both kinds of memory:   *)
(* types, that recv() fails only when what it could see is taken, and that *)
(* the queue is a bounded FIFO channel however late stores are seen.       *)
(***************************************************************************)
EXTENDS StageQueue, SequenceTheorems, TLAPS

LEMMA Cells ==
  /\ "head" \in Cell /\ "tail" \in Cell /\ "head" \notin Flag /\ "tail" \notin Flag
  /\ \A c \in Cell : c \in Flag \/ c = "head" \/ c = "tail"
  /\ \A t \in Thread : Waiting(t) \in Flag /\ Alive(t) \in Flag /\ Peer(t) \in Thread
BY DEF Cell, Flag, Thread, Waiting, Alive, Peer

----------------------------------------------------------------------------
(* What a step does to the memory. *)

Ring == <<slots, tail, head, received>>

Idles == UNCHANGED <<mem, buffer, Ring>>
Stores(t) == (\E flag \in Flag, v \in BOOLEAN : Store(t, flag, v)) /\ UNCHANGED Ring
Swaps == (\E flag \in Flag : mem' = [mem EXCEPT ![flag] = FALSE])
         /\ UNCHANGED <<buffer, Ring>>
Pushes ==
  /\ HasRoom(mem["head"])
  /\ slots' = [slots EXCEPT ![tail % Capacity] = tail]
  /\ tail' = tail + 1 /\ Store("sender", "tail", tail + 1)
  /\ UNCHANGED <<head, received>>
Pops ==
  /\ head < mem["tail"]
  /\ received' = Append(received, slots[head % Capacity])
  /\ head' = head + 1 /\ Store("receiver", "head", head + 1)
  /\ UNCHANGED <<slots, tail>>

LEMMA BranchEffect ==
  ASSUME NEW t, NEW from, NEW cond, NEW yes, NEW no, Branch(t, from, cond, yes, no)
  PROVE  Idles
BY DEF Branch, Idles, Ring

LEMMA SetFlagEffect ==
  ASSUME NEW t \in Thread, NEW from, NEW flag \in Flag, NEW v \in BOOLEAN, NEW to,
         SetFlag(t, from, flag, v, to)
  PROVE  Stores(t)
BY DEF SetFlag, Stores, Ring

LEMMA WakeEffect ==
  ASSUME NEW t \in Thread, NEW from, NEW to, NEW unpark, Wake(t, from, to, unpark)
  PROVE  Swaps
BY Cells DEF Wake, Swaps, Ring

LEMMA PushEffect ==
  ASSUME NEW from, NEW pushed, NEW full, Push(from, pushed, full)
  PROVE  Pushes \/ Idles
BY DEF Push, Pushes, Idles, Ring

LEMMA PopEffect ==
  ASSUME NEW from, NEW popped, NEW empty, Pop(from, popped, empty)
  PROVE  Pops \/ Idles
BY DEF Pop, Pops, Idles, Ring

LEMMA StepEffects ==
  ASSUME [Next]_vars
  PROVE  \/ Idles \/ Swaps \/ Pushes \/ Pops
         \/ \E t \in Thread : Stores(t) \/ Flush(t)
<1>0. /\ "sender" \in Thread /\ "receiver" \in Thread
      /\ TRUE \in BOOLEAN /\ FALSE \in BOOLEAN
      /\ "sender_waiting" \in Flag /\ "receiver_waiting" \in Flag
  BY DEF Thread, Flag
<1>1. CASE Terminated \/ UNCHANGED vars
  BY <1>1 DEF Terminated, vars, Idles, Ring
<1>2. CASE StartSend
  BY <1>2, BranchEffect DEF StartSend
<1>3. CASE Send
  <2>1. ASSUME Park("sender", "woken") \/ Unpark("sender", "unpark", "idle")
        PROVE  Idles
    BY <2>1 DEF Park, Unpark, Idles, Ring
  <2> QED
    BY <1>0, <1>3, <2>1, BranchEffect, SetFlagEffect, WakeEffect, PushEffect DEF Send
<1>4. CASE StartRecv
  BY <1>4 DEF StartRecv, Idles, Ring
<1>5. CASE Recv
  <2>1. ASSUME Park("receiver", "woken") \/ Unpark("receiver", "unpark", "idle")
        PROVE  Idles
    BY <2>1 DEF Park, Unpark, Idles, Ring
  <2> QED
    BY <1>0, <1>5, <2>1, BranchEffect, SetFlagEffect, WakeEffect, PopEffect
       DEF Recv, RePop, FirstPop
<1>6. ASSUME NEW t \in Thread,
             StartDrop(t) \/ Drop(t) \/ Flush(t) \/ SpuriousWakeup(t)
      PROVE  Stores(t) \/ Flush(t) \/ Swaps \/ Idles
  <2>1. CASE StartDrop(t) \/ SetFlag(t, "disconnected", Alive(t), FALSE, "dropped")
    BY <1>0, <2>1, Cells, SetFlagEffect DEF StartDrop
  <2>2. CASE DropWake(t)
    BY <2>2, WakeEffect DEF DropWake
  <2>3. CASE Unpark(t, "dropunpark", "gone") \/ SpuriousWakeup(t)
    BY <2>3 DEF Unpark, SpuriousWakeup, Idles, Ring
  <2> QED
    BY <1>6, <2>1, <2>2, <2>3 DEF Drop
<1> QED
  BY <1>1, <1>2, <1>3, <1>4, <1>5, <1>6 DEF Next

----------------------------------------------------------------------------
(* Types. *)

MemTypes ==
  /\ mem = [c \in Cell |-> mem[c]]
  /\ \A c \in Flag : mem[c] \in BOOLEAN
  /\ mem["head"] \in Nat /\ mem["tail"] \in Nat
  /\ buffer \in [Thread -> Seq(Update)]

RingTypes ==
  /\ slots \in [0..(Capacity - 1) -> Nat] /\ tail \in Nat /\ head \in Nat
  /\ received \in Seq(Nat)

\* No cursor, seen or still to be seen, is ahead of its owner's.
CursorBounds ==
  /\ mem["head"] <= head /\ mem["tail"] <= tail
  /\ \A t \in Thread : \A k \in DOMAIN buffer[t] :
       /\ buffer[t][k][1] = "head" => buffer[t][k][2] <= head
       /\ buffer[t][k][1] = "tail" => buffer[t][k][2] <= tail
RingBounds == tail - head \in 0..Capacity

LEMMA ModType ==
  ASSUME NEW n \in Nat
  PROVE  n % Capacity \in 0..(Capacity - 1)
BY StageQueueAssumption

LEMMA UpdateKinds ==
  ASSUME NEW w \in Update
  PROVE  /\ w[1] \in Cell
         /\ w[1] \in Flag => w[2] \in BOOLEAN
         /\ w[1] \in {"head", "tail"} => w[2] \in Nat
BY DEF Update, Cell, Flag

LEMMA MemWrite ==
  ASSUME MemTypes, NEW c \in Cell, NEW v, <<c, v>> \in Update,
         mem' = [mem EXCEPT ![c] = v]
  PROVE  /\ \A d \in Cell : mem'[d] = IF d = c THEN v ELSE mem[d]
         /\ mem' = [d \in Cell |-> mem'[d]]
         /\ \A d \in Flag : mem'[d] \in BOOLEAN
         /\ mem'["head"] \in Nat /\ mem'["tail"] \in Nat
<1>1. \A d \in Cell : mem'[d] = IF d = c THEN v ELSE mem[d]
  BY DEF MemTypes
<1>2. mem' = [d \in Cell |-> mem'[d]]
  BY DEF MemTypes
<1>3. /\ c \in Flag => v \in BOOLEAN
      /\ c \in {"head", "tail"} => v \in Nat
  BY UpdateKinds
<1>4. ASSUME NEW d \in Flag PROVE mem'[d] \in BOOLEAN
  <2>1. d \in Cell
    BY DEF Cell
  <2>2. CASE d = c
    BY <1>1, <1>3, <2>1, <2>2, Zenon
  <2>3. CASE d # c
    BY <1>1, <2>1, <2>3, Zenon DEF MemTypes
  <2> QED
    BY <2>2, <2>3
<1>5. mem'["head"] \in Nat /\ mem'["tail"] \in Nat
  BY <1>1, <1>3, Cells DEF MemTypes
<1> QED
  BY <1>1, <1>2, <1>4, <1>5

LEMMA StoreTypes ==
  ASSUME MemTypes, NEW t \in Thread, NEW c \in Cell, NEW v, <<c, v>> \in Update,
         Store(t, c, v)
  PROVE  MemTypes'
<1>1. CASE memory = "tso"
  <2>1. mem' = mem /\ buffer' = [buffer EXCEPT ![t] = Append(@, <<c, v>>)]
    BY <1>1 DEF Store
  <2>2. Append(buffer[t], <<c, v>>) \in Seq(Update)
    BY AppendProperties DEF MemTypes
  <2>3. buffer' \in [Thread -> Seq(Update)]
    BY <2>1, <2>2 DEF MemTypes
  <2> QED
    BY <2>1, <2>3 DEF MemTypes
<1>2. CASE memory # "tso"
  <2>1. buffer' = buffer /\ mem' = [mem EXCEPT ![c] = v]
    BY <1>2 DEF Store
  <2> QED
    BY <2>1, MemWrite DEF MemTypes
<1> QED
  BY <1>1, <1>2

LEMMA FlushFacts ==
  ASSUME MemTypes, NEW t \in Thread, Flush(t)
  PROVE  /\ buffer[t] # <<>> /\ Head(buffer[t]) = buffer[t][1]
         /\ 1 \in DOMAIN buffer[t] /\ buffer[t][1] \in Update
         /\ mem' = [mem EXCEPT ![buffer[t][1][1]] = buffer[t][1][2]]
         /\ buffer' = [buffer EXCEPT ![t] = Tail(@)]
         /\ Tail(buffer[t]) \in Seq(Update)
         /\ \A k \in DOMAIN Tail(buffer[t]) :
              k + 1 \in DOMAIN buffer[t] /\ Tail(buffer[t])[k] = buffer[t][k + 1]
         /\ UNCHANGED <<memory, slots, tail, head, token, pc, received, seen_tail>>
<1>1. buffer[t] \in Seq(Update) /\ buffer[t] # <<>>
  BY DEF MemTypes, Flush
<1>2. Len(buffer[t]) \in Nat \ {0} /\ DOMAIN buffer[t] = 1..Len(buffer[t])
  BY <1>1, EmptySeq, LenProperties
<1>3. 1 \in DOMAIN buffer[t] /\ buffer[t][1] \in Update /\ Head(buffer[t]) = buffer[t][1]
  BY <1>1, <1>2, ElementOfSeq
<1>4. /\ Tail(buffer[t]) \in Seq(Update) /\ Len(Tail(buffer[t])) = Len(buffer[t]) - 1
      /\ \A k \in 1..Len(Tail(buffer[t])) : Tail(buffer[t])[k] = buffer[t][k + 1]
  BY <1>1, HeadTailProperties
<1>5. \A k \in DOMAIN Tail(buffer[t]) :
        k + 1 \in DOMAIN buffer[t] /\ Tail(buffer[t])[k] = buffer[t][k + 1]
  BY <1>2, <1>4, LenProperties
<1> QED
  BY <1>1, <1>3, <1>4, <1>5 DEF Flush

LEMMA FlagUpdates ==
  /\ \A flag \in Flag, v \in BOOLEAN : flag \in Cell /\ <<flag, v>> \in Update
  /\ \A n \in Nat : <<"head", n>> \in Update /\ <<"tail", n>> \in Update
BY DEF Update, Cell

LEMMA MemStep ==
  ASSUME MemTypes, RingTypes, [Next]_vars
  PROVE  MemTypes'
<1>1. CASE Idles
  BY <1>1 DEF Idles, MemTypes
<1>2. CASE Swaps
  <2>1. PICK flag \in Flag : mem' = [mem EXCEPT ![flag] = FALSE]
    BY <1>2 DEF Swaps
  <2>2. flag \in Cell /\ <<flag, FALSE>> \in Update
    BY FlagUpdates
  <2> QED
    BY <1>2, <2>1, <2>2, MemWrite DEF Swaps, MemTypes
<1>3. CASE Pushes \/ Pops
  <2>1. head + 1 \in Nat /\ tail + 1 \in Nat
    BY DEF RingTypes
  <2>2. /\ <<"head", head + 1>> \in Update /\ <<"tail", tail + 1>> \in Update
        /\ "sender" \in Thread /\ "receiver" \in Thread
    BY <2>1, FlagUpdates DEF Thread
  <2> QED
    BY <1>3, <2>2, StoreTypes, Cells DEF Pushes, Pops
<1>4. ASSUME NEW t \in Thread, Stores(t) PROVE MemTypes'
  <2>1. PICK flag \in Flag, v \in BOOLEAN : Store(t, flag, v)
    BY <1>4 DEF Stores
  <2> QED
    BY <2>1, FlagUpdates, StoreTypes
<1>5. ASSUME NEW t \in Thread, Flush(t) PROVE MemTypes'
  <2> DEFINE c == buffer[t][1][1]
             v == buffer[t][1][2]
  <2>1. /\ buffer[t][1] \in Update /\ mem' = [mem EXCEPT ![c] = v]
        /\ buffer' = [buffer EXCEPT ![t] = Tail(@)]
        /\ Tail(buffer[t]) \in Seq(Update)
    BY <1>5, FlushFacts
  <2>2. c \in Cell /\ <<c, v>> \in Update
    BY <2>1, UpdateKinds DEF Update
  <2>3. buffer' \in [Thread -> Seq(Update)]
    BY <2>1 DEF MemTypes
  <2> HIDE DEF c, v
  <2> QED
    BY <2>1, <2>2, <2>3, MemWrite DEF MemTypes
<1> QED
  BY <1>1, <1>2, <1>3, <1>4, <1>5, StepEffects

LEMMA RingStep ==
  ASSUME RingTypes, [Next]_vars
  PROVE  RingTypes'
<1>1. CASE UNCHANGED Ring
  BY <1>1 DEF Ring, RingTypes
<1>2. CASE Pushes
  <2>1. tail % Capacity \in 0..(Capacity - 1)
    BY ModType DEF RingTypes
  <2> QED
    BY <1>2, <2>1 DEF Pushes, RingTypes
<1>3. CASE Pops
  <2>1. slots[head % Capacity] \in Nat
    BY ModType DEF RingTypes
  <2>2. received' \in Seq(Nat)
    BY <1>3, <2>1, AppendProperties DEF Pops, RingTypes
  <2> QED
    BY <1>3, <2>2 DEF Pops, RingTypes
<1> QED
  BY <1>1, <1>2, <1>3, StepEffects DEF Idles, Swaps, Stores, Flush, Ring

----------------------------------------------------------------------------
(* Cursors. *)

\* Where a store goes: to the end of its thread's buffer, or to the memory.
LEMMA StoreGoes ==
  ASSUME MemTypes, NEW t \in Thread, NEW c \in Cell, NEW v, <<c, v>> \in Update,
         Store(t, c, v)
  PROVE  \/ /\ mem' = mem
            /\ \A u \in Thread : u # t => buffer'[u] = buffer[u]
            /\ DOMAIN buffer[t] = 1..Len(buffer[t]) /\ Len(buffer[t]) \in Nat
            /\ DOMAIN buffer'[t] = 1..(Len(buffer[t]) + 1)
            /\ \A k \in 1..Len(buffer[t]) : buffer'[t][k] = buffer[t][k]
            /\ buffer'[t][Len(buffer[t]) + 1] = <<c, v>>
         \/ /\ buffer' = buffer
            /\ \A d \in Cell : mem'[d] = IF d = c THEN v ELSE mem[d]
<1>1. CASE memory = "tso"
  <2>1. /\ mem' = mem /\ buffer' = [buffer EXCEPT ![t] = Append(@, <<c, v>>)]
        /\ buffer[t] \in Seq(Update)
    BY <1>1 DEF Store, MemTypes
  <2>2. /\ buffer'[t] = Append(buffer[t], <<c, v>>)
        /\ \A u \in Thread : u # t => buffer'[u] = buffer[u]
    BY <2>1 DEF MemTypes
  <2>3. /\ Append(buffer[t], <<c, v>>) \in Seq(Update)
        /\ Len(Append(buffer[t], <<c, v>>)) = Len(buffer[t]) + 1
        /\ \A k \in 1..Len(buffer[t]) : Append(buffer[t], <<c, v>>)[k] = buffer[t][k]
        /\ Append(buffer[t], <<c, v>>)[Len(buffer[t]) + 1] = <<c, v>>
    BY <2>1, AppendProperties
  <2> QED
    BY <2>1, <2>2, <2>3, LenProperties
<1>2. CASE memory # "tso"
  BY <1>2, MemWrite DEF Store
<1> QED
  BY <1>1, <1>2

\* Cursors only grow, and what is stored is within them.
LEMMA CursorStore ==
  ASSUME MemTypes, RingTypes, CursorBounds, NEW t \in Thread, NEW c \in Cell, NEW v,
         <<c, v>> \in Update, Store(t, c, v), head' \in Nat, tail' \in Nat,
         head <= head', tail <= tail',
         c = "head" => v <= head', c = "tail" => v <= tail'
  PROVE  CursorBounds'
<1>1. ASSUME NEW u \in Thread, NEW k \in DOMAIN buffer[u]
      PROVE  /\ buffer[u][k] \in Update
             /\ buffer[u][k][1] = "head" => buffer[u][k][2] <= head'
             /\ buffer[u][k][1] = "tail" => buffer[u][k][2] <= tail'
  <2>1. buffer[u][k] \in Update
    BY ElementOfSeq, LenProperties DEF MemTypes
  <2>2. /\ buffer[u][k][1] = "head" => buffer[u][k][2] <= head
        /\ buffer[u][k][1] = "tail" => buffer[u][k][2] <= tail
        /\ buffer[u][k][1] \in {"head", "tail"} => buffer[u][k][2] \in Nat
    BY <2>1, UpdateKinds DEF CursorBounds
  <2> QED
    BY <2>1, <2>2 DEF RingTypes
<1>2. mem["head"] <= head' /\ mem["tail"] <= tail'
  BY DEF CursorBounds, MemTypes, RingTypes
<1>3. CASE /\ mem' = mem
           /\ \A u \in Thread : u # t => buffer'[u] = buffer[u]
           /\ DOMAIN buffer[t] = 1..Len(buffer[t]) /\ Len(buffer[t]) \in Nat
           /\ DOMAIN buffer'[t] = 1..(Len(buffer[t]) + 1)
           /\ \A k \in 1..Len(buffer[t]) : buffer'[t][k] = buffer[t][k]
           /\ buffer'[t][Len(buffer[t]) + 1] = <<c, v>>
  <2>1. ASSUME NEW u \in Thread, NEW k \in DOMAIN buffer'[u]
        PROVE  /\ buffer'[u][k][1] = "head" => buffer'[u][k][2] <= head'
               /\ buffer'[u][k][1] = "tail" => buffer'[u][k][2] <= tail'
    <3>1. CASE u # t
      BY <1>1, <1>3, <3>1
    <3>2. CASE u = t /\ k \in 1..Len(buffer[t])
      BY <1>1, <1>3, <3>2
    <3>3. CASE u = t /\ k = Len(buffer[t]) + 1
      BY <1>3, <3>3
    <3> QED
      BY <1>3, <3>1, <3>2, <3>3
  <2> QED
    BY <1>2, <1>3, <2>1 DEF CursorBounds
<1>4. CASE /\ buffer' = buffer
           /\ \A d \in Cell : mem'[d] = IF d = c THEN v ELSE mem[d]
  BY <1>1, <1>2, <1>4, Cells DEF CursorBounds
<1> QED
  BY <1>3, <1>4, StoreGoes

LEMMA CursorStep ==
  ASSUME MemTypes, RingTypes, CursorBounds, RingTypes', [Next]_vars
  PROVE  CursorBounds'
<1>1. CASE Idles
  BY <1>1 DEF Idles, Ring, CursorBounds
<1>2. CASE Swaps
  <2>1. PICK flag \in Flag : mem' = [mem EXCEPT ![flag] = FALSE]
    BY <1>2 DEF Swaps
  <2>2. mem'["head"] = mem["head"] /\ mem'["tail"] = mem["tail"]
    BY <2>1, Cells DEF MemTypes
  <2> QED
    BY <1>2, <2>2 DEF Swaps, Ring, CursorBounds
<1>3. CASE Pushes
  <2>1. /\ tail' = tail + 1 /\ head' = head /\ tail + 1 \in Nat
        /\ "sender" \in Thread /\ Store("sender", "tail", tail + 1)
    BY <1>3 DEF Pushes, RingTypes, Thread
  <2>2. head' \in Nat /\ tail' \in Nat /\ head <= head' /\ tail <= tail'
    BY <2>1 DEF RingTypes
  <2>3. "tail" \in Cell /\ <<"tail", tail + 1>> \in Update
    BY <2>1, FlagUpdates, Cells
  <2>4. tail + 1 <= tail'
    BY <2>1, <2>2
  <2> QED
    BY <2>1, <2>2, <2>3, <2>4, CursorStore
<1>4. CASE Pops
  <2>1. /\ head' = head + 1 /\ tail' = tail /\ head + 1 \in Nat
        /\ "receiver" \in Thread /\ Store("receiver", "head", head + 1)
    BY <1>4 DEF Pops, RingTypes, Thread
  <2>2. head' \in Nat /\ tail' \in Nat /\ head <= head' /\ tail <= tail'
    BY <2>1 DEF RingTypes
  <2>3. "head" \in Cell /\ <<"head", head + 1>> \in Update
    BY <2>1, FlagUpdates, Cells
  <2>4. head + 1 <= head'
    BY <2>1, <2>2
  <2> QED
    BY <2>1, <2>2, <2>3, <2>4, CursorStore
<1>5. ASSUME NEW t \in Thread, Stores(t) PROVE CursorBounds'
  <2>1. PICK flag \in Flag, v \in BOOLEAN : Store(t, flag, v)
    BY <1>5 DEF Stores
  <2>2. head' = head /\ tail' = tail
    BY <1>5 DEF Stores, Ring
  <2>3. head' \in Nat /\ tail' \in Nat /\ head <= head' /\ tail <= tail'
    BY <2>2 DEF RingTypes
  <2>4. flag \in Cell /\ <<flag, v>> \in Update /\ flag # "head" /\ flag # "tail"
    BY FlagUpdates, Cells
  <2> QED
    BY <2>1, <2>3, <2>4, CursorStore
<1>6. ASSUME NEW t \in Thread, Flush(t) PROVE CursorBounds'
  <2>1. /\ 1 \in DOMAIN buffer[t] /\ buffer[t][1] \in Update
        /\ mem' = [mem EXCEPT ![buffer[t][1][1]] = buffer[t][1][2]]
        /\ buffer' = [buffer EXCEPT ![t] = Tail(@)]
        /\ \A k \in DOMAIN Tail(buffer[t]) :
             k + 1 \in DOMAIN buffer[t] /\ Tail(buffer[t])[k] = buffer[t][k + 1]
        /\ head' = head /\ tail' = tail
    BY <1>6, FlushFacts
  <2>2. /\ \A d \in Cell : mem'[d] = IF d = buffer[t][1][1] THEN buffer[t][1][2]
                                     ELSE mem[d]
        /\ \A u \in Thread : buffer'[u] = IF u = t THEN Tail(buffer[t]) ELSE buffer[u]
    BY <2>1, UpdateKinds DEF MemTypes
  <2>3. mem'["head"] <= head' /\ mem'["tail"] <= tail'
    BY <2>1, <2>2, Cells DEF CursorBounds
  <2>4. ASSUME NEW u \in Thread, NEW k \in DOMAIN buffer'[u]
        PROVE  \E j \in DOMAIN buffer[u] : buffer'[u][k] = buffer[u][j]
    BY <2>1, <2>2
  <2> QED
    BY <2>1, <2>3, <2>4 DEF CursorBounds
<1> QED
  BY <1>1, <1>2, <1>3, <1>4, <1>5, <1>6, StepEffects

LEMMA RingBoundsStep ==
  ASSUME MemTypes, RingTypes, CursorBounds, RingBounds, [Next]_vars
  PROVE  RingBounds'
<1>0. Capacity \in Nat
  BY StageQueueAssumption
<1>1. CASE UNCHANGED Ring
  BY <1>1 DEF Ring, RingBounds
<1>2. CASE Pushes
  <2>1. /\ tail' = tail + 1 /\ head' = head /\ tail - mem["head"] < Capacity
        /\ mem["head"] <= head
    BY <1>2 DEF Pushes, HasRoom, CursorBounds
  <2> QED
    BY <1>0, <2>1 DEF RingBounds, RingTypes, MemTypes
<1>3. CASE Pops
  <2>1. head' = head + 1 /\ tail' = tail /\ head < mem["tail"] /\ mem["tail"] <= tail
    BY <1>3 DEF Pops, CursorBounds
  <2> QED
    BY <1>0, <2>1 DEF RingBounds, RingTypes, MemTypes
<1> QED
  BY <1>1, <1>2, <1>3, StepEffects DEF Idles, Swaps, Stores, Flush, Ring

----------------------------------------------------------------------------
(* Where the threads are. *)

Left == {"dropped", "dropunpark", "gone"}

ControlTypes ==
  /\ memory \in Memories
  /\ token \in [Thread -> BOOLEAN] /\ pc \in [Thread -> Label] /\ seen_tail \in Nat

\* A thread that has left its end does not come back to it.
Moves(t) ==
  \E l \in Label : pc' = [pc EXCEPT ![t] = l] /\ (pc[t] \in Left => l \in Left)

Keeps == UNCHANGED <<memory, token, seen_tail>>
Elsewhere == UNCHANGED Ring /\ (UNCHANGED pc \/ \E t \in Thread : Moves(t))
Pushing ==
  Pushes /\ pc["sender"] \notin Left
  /\ \E l \in Label \ Left : pc' = [pc EXCEPT !["sender"] = l]
Popping ==
  Pops /\ pc["receiver"] \notin Left
  /\ \E l \in Label \ Left : pc' = [pc EXCEPT !["receiver"] = l]

LEMMA Labels ==
  /\ \A l \in {"idle", "check", "push", "flag", "recheck", "repush", "unflag",
               "wake", "unpark", "park", "woken", "lastcheck", "pop", "repop",
               "fail", "disconnected"} : l \in Label /\ l \notin Left
  /\ \A l \in Left : l \in Label
BY DEF Label, Left

LEMMA BranchMoves ==
  ASSUME NEW t \in Thread, NEW from, from \notin Left, NEW cond, NEW yes \in Label,
         NEW no \in Label, Branch(t, from, cond, yes, no)
  PROVE  Elsewhere /\ Keeps
BY DEF Branch, Goto, Elsewhere, Moves, Ring, Keeps

LEMMA SetFlagMoves ==
  ASSUME NEW t \in Thread, NEW from, from \notin Left, NEW flag, NEW v,
         NEW to \in Label, SetFlag(t, from, flag, v, to)
  PROVE  Elsewhere /\ Keeps
BY DEF SetFlag, Goto, Elsewhere, Moves, Ring, Keeps

LEMMA WakeMoves ==
  ASSUME NEW t \in Thread, NEW from, NEW to \in Label, NEW unpark \in Label,
         from \in Left => to \in Left /\ unpark \in Left,
         Wake(t, from, to, unpark)
  PROVE  Elsewhere /\ Keeps
BY DEF Wake, Goto, Elsewhere, Moves, Ring, Keeps

LEMMA UnparkMoves ==
  ASSUME ControlTypes, NEW t \in Thread, NEW from, NEW to \in Label,
         from \in Left => to \in Left, Unpark(t, from, to)
  PROVE  /\ Elsewhere /\ memory' = memory /\ seen_tail' = seen_tail
         /\ token' \in [Thread -> BOOLEAN]
BY DEF Unpark, Goto, Elsewhere, Moves, Ring, ControlTypes

LEMMA ParkMoves ==
  ASSUME ControlTypes, NEW t \in Thread, NEW to \in Label, Park(t, to)
  PROVE  /\ Elsewhere /\ memory' = memory /\ seen_tail' = seen_tail
         /\ token' \in [Thread -> BOOLEAN]
BY Labels DEF Park, Goto, Elsewhere, Moves, Ring, ControlTypes

LEMMA PushMoves ==
  ASSUME NEW from, from \notin Left, NEW pushed \in Label \ Left,
         NEW full \in Label \ Left, Push(from, pushed, full)
  PROVE  (Pushing \/ Elsewhere) /\ Keeps
BY DEF Push, Pushes, Pushing, Goto, Elsewhere, Moves, Ring, Keeps, Thread

LEMMA PopMoves ==
  ASSUME NEW from, from \notin Left, NEW popped \in Label \ Left,
         NEW empty \in Label \ Left, Pop(from, popped, empty)
  PROVE  (Popping \/ Elsewhere) /\ Keeps
BY DEF Pop, Pops, Popping, Goto, Elsewhere, Moves, Ring, Keeps, Thread

LEMMA ControlStep ==
  ASSUME MemTypes, ControlTypes, [Next]_vars
  PROVE  /\ Pushing \/ Popping \/ Elsewhere
         /\ memory' = memory /\ token' \in [Thread -> BOOLEAN] /\ seen_tail' \in Nat
<1> DEFINE Goal == /\ Pushing \/ Popping \/ Elsewhere
                   /\ memory' = memory
                   /\ token' \in [Thread -> BOOLEAN] /\ seen_tail' \in Nat
<1>0. "sender" \in Thread /\ "receiver" \in Thread
  BY DEF Thread
<1>k. ASSUME Keeps PROVE /\ memory' = memory
                         /\ token' \in [Thread -> BOOLEAN] /\ seen_tail' \in Nat
  BY <1>k DEF Keeps, ControlTypes
<1>1. CASE Terminated \/ UNCHANGED vars
  BY <1>1 DEF Terminated, vars, Elsewhere, Ring, ControlTypes
<1>2. CASE StartSend
  <2>1. Branch("sender", "idle", TRUE, "check", "check")
    BY <1>2 DEF StartSend, Branch, Goto
  <2> QED
    BY <1>0, <1>k, <2>1, BranchMoves, Labels
<1>3. CASE Send
  <2>1. ASSUME Unpark("sender", "unpark", "idle") PROVE Goal
    BY <1>0, <2>1, UnparkMoves, Labels DEF ControlTypes
  <2>2. ASSUME Park("sender", "woken") PROVE Goal
    BY <1>0, <2>2, ParkMoves, Labels DEF ControlTypes
  <2>3. ASSUME Wake("sender", "wake", "idle", "unpark") PROVE Goal
    BY <1>0, <1>k, <2>3, WakeMoves, Labels
  <2>4. ASSUME \/ Push("push", "wake", "flag")
               \/ Push("repush", "unflag", "park")
        PROVE  Goal
    BY <1>k, <2>4, PushMoves, Labels
  <2>5. ASSUME \/ Branch("sender", "check", mem["receiver_alive"], "push", "idle")
               \/ Branch("sender", "recheck", mem["receiver_alive"], "repush", "fail")
               \/ Branch("sender", "lastcheck", mem["receiver_alive"], "check", "idle")
        PROVE  Goal
    BY <1>0, <1>k, <2>5, BranchMoves, Labels
  <2>6. ASSUME \/ SetFlag("sender", "flag", "sender_waiting", TRUE, "recheck")
               \/ SetFlag("sender", "fail", "sender_waiting", FALSE, "idle")
               \/ SetFlag("sender", "unflag", "sender_waiting", FALSE, "wake")
               \/ SetFlag("sender", "woken", "sender_waiting", FALSE, "lastcheck")
        PROVE  Goal
    BY <1>0, <1>k, <2>6, SetFlagMoves, Labels
  <2> QED
    BY <1>3, <2>1, <2>2, <2>3, <2>4, <2>5, <2>6 DEF Send
<1>4. CASE StartRecv
  <2>1. /\ UNCHANGED Ring /\ memory' = memory /\ token' = token
        /\ seen_tail' = mem["tail"] /\ pc' = [pc EXCEPT !["receiver"] = "pop"]
        /\ pc["receiver"] = "idle"
    BY <1>4 DEF StartRecv, Goto, Ring
  <2>2. Moves("receiver")
    BY <2>1, Labels DEF Moves
  <2> QED
    BY <1>0, <2>1, <2>2 DEF Elsewhere, ControlTypes, MemTypes
<1>5. CASE Recv
  <2>1. ASSUME Unpark("receiver", "unpark", "idle") PROVE Goal
    BY <1>0, <2>1, UnparkMoves, Labels DEF ControlTypes
  <2>2. ASSUME Park("receiver", "woken") PROVE Goal
    BY <1>0, <2>2, ParkMoves, Labels DEF ControlTypes
  <2>3. ASSUME Wake("receiver", "wake", "idle", "unpark") PROVE Goal
    BY <1>0, <1>k, <2>3, WakeMoves, Labels
  <2>4. ASSUME Pop("pop", "wake", "flag") \/ Pop("repop", "unflag", "check")
        PROVE  Goal
    BY <1>k, <2>4, PopMoves, Labels
  <2>5. ASSUME Branch("receiver", "check", mem["sender_alive"], "park", "fail")
        PROVE  Goal
    BY <1>0, <1>k, <2>5, BranchMoves, Labels
  <2>6. ASSUME \/ SetFlag("receiver", "flag", "receiver_waiting", TRUE, "repop")
               \/ SetFlag("receiver", "unflag", "receiver_waiting", FALSE, "wake")
               \/ SetFlag("receiver", "fail", "receiver_waiting", FALSE, "disconnected")
               \/ SetFlag("receiver", "woken", "receiver_waiting", FALSE, "pop")
        PROVE  Goal
    BY <1>0, <1>k, <2>6, SetFlagMoves, Labels
  <2> QED
    BY <1>5, <2>1, <2>2, <2>3, <2>4, <2>5, <2>6 DEF Recv, FirstPop, RePop
<1>6. ASSUME NEW t \in Thread,
             StartDrop(t) \/ Drop(t) \/ Flush(t) \/ SpuriousWakeup(t)
      PROVE  Goal
  <2>0. "dropped" \in Left /\ "dropunpark" \in Left /\ "gone" \in Left
    BY DEF Left
  <2>1. CASE StartDrop(t) \/ SetFlag(t, "disconnected", Alive(t), FALSE, "dropped")
    BY <1>k, <2>0, <2>1, SetFlagMoves, Labels DEF StartDrop
  <2>2. CASE DropWake(t)
    BY <1>k, <2>0, <2>2, WakeMoves, Labels DEF DropWake
  <2>3. CASE Unpark(t, "dropunpark", "gone")
    BY <2>0, <2>3, UnparkMoves, Labels DEF ControlTypes
  <2>4. CASE SpuriousWakeup(t)
    BY <2>4, Labels DEF SpuriousWakeup, Goto, Elsewhere, Moves, Ring, ControlTypes
  <2>5. CASE Flush(t)
    BY <2>5 DEF Flush, Elsewhere, Ring, ControlTypes
  <2> QED
    BY <1>6, <2>1, <2>2, <2>3, <2>4, <2>5 DEF Drop
<1> QED
  BY <1>1, <1>2, <1>3, <1>4, <1>5, <1>6 DEF Next

LEMMA PcTypes ==
  ASSUME ControlTypes, Pushing \/ Popping \/ Elsewhere
  PROVE  pc' \in [Thread -> Label]
<1>1. CASE Pushing
  BY <1>1 DEF Pushing, ControlTypes
<1>2. CASE Popping
  BY <1>2 DEF Popping, ControlTypes
<1>3. CASE Elsewhere
  BY <1>3 DEF Elsewhere, Moves, ControlTypes
<1> QED
  BY <1>1, <1>2, <1>3

Types == MemTypes /\ RingTypes /\ CursorBounds /\ RingBounds /\ ControlTypes

LEMMA InitTypes ==
  ASSUME Init
  PROVE  Types
<1>1. Capacity \in Nat \ {0}
  BY StageQueueAssumption
<1>2. mem["head"] = 0 /\ mem["tail"] = 0
  <2>1. /\ "head" \in Cell /\ "tail" \in Cell
        /\ "head" \in {"head", "tail"} /\ "tail" \in {"head", "tail"}
    BY Cells
  <2> QED
    BY <2>1, Zenon DEF Init
<1>3. \A c \in Flag : mem[c] \in BOOLEAN
  <2>1. \A c \in Flag : c \in Cell /\ c \notin {"head", "tail"}
    BY Cells DEF Cell
  <2>2. \A c \in Flag : mem[c] = (c \in {"sender_alive", "receiver_alive"})
    BY <2>1, Zenon DEF Init
  <2>3. \A c : (c \in {"sender_alive", "receiver_alive"}) \in BOOLEAN
    OBVIOUS
  <2> QED
    BY <2>2, <2>3, Zenon
<1>4. mem = [c \in Cell |-> mem[c]]
  BY DEF Init
<1>5. \A t \in Thread : buffer[t] = <<>>
  BY DEF Init
<1>6. MemTypes
  <2>1. buffer = [t \in Thread |-> <<>>]
    BY DEF Init
  <2>2. <<>> \in Seq(Update)
    BY EmptySeq
  <2>3. buffer \in [Thread -> Seq(Update)]
    BY <2>1, <2>2
  <2>4. mem["head"] \in Nat /\ mem["tail"] \in Nat
    BY <1>2
  <2> QED
    BY <1>3, <1>4, <2>3, <2>4, Zenon DEF MemTypes
<1>7. RingTypes /\ RingBounds
  BY <1>1, EmptySeq DEF Init, RingTypes, RingBounds
<1>8. CursorBounds
  BY <1>2, <1>5 DEF Init, CursorBounds
<1>9. ControlTypes
  BY DEF Init, ControlTypes, Label
<1> QED
  BY <1>6, <1>7, <1>8, <1>9 DEF Types

LEMMA TypesStep ==
  ASSUME Types, [Next]_vars
  PROVE  Types'
<1>1. MemTypes' /\ RingTypes'
  BY MemStep, RingStep DEF Types
<1>2. CursorBounds' /\ RingBounds'
  BY <1>1, CursorStep, RingBoundsStep DEF Types
<1>3. ControlTypes'
  BY ControlStep, PcTypes DEF Types, ControlTypes
<1> QED
  BY <1>1, <1>2, <1>3 DEF Types

LEMMA TypesKept == Spec => []Types
BY InitTypes, TypesStep, PTL DEF Spec

(* What a thread reads of the other's cursor is never ahead of it, and the *)
(* ring never holds more than its slots, whatever the capacity, the number *)
(* of items and the order stores are seen in (parallel_queue.rs, rtrb).    *)
THEOREM TypeCorrect == Spec => []TypeOK
<1>1. ASSUME Types PROVE TypeOK
  <2>1. mem["head"] \in 0..head /\ mem["tail"] \in 0..tail
    BY <1>1 DEF Types, MemTypes, RingTypes, CursorBounds
  <2>2. /\ memory \in Memories
        /\ token \in [Thread -> BOOLEAN] /\ pc \in [Thread -> Label]
        /\ seen_tail \in Nat
    BY <1>1 DEF Types, ControlTypes
  <2>3. /\ slots \in [0..(Capacity - 1) -> Nat]
        /\ tail \in Nat /\ head \in Nat /\ tail - head \in 0..Capacity
        /\ received \in Seq(Nat)
    BY <1>1 DEF Types, RingTypes, RingBounds
  <2>4. /\ mem = [c \in Cell |-> mem[c]]
        /\ \A c \in Flag : mem[c] \in BOOLEAN
        /\ buffer \in [Thread -> Seq(Update)]
    BY <1>1 DEF Types, MemTypes
  <2> QED
    BY <2>1, <2>2, <2>3, <2>4 DEF TypeOK
<1> QED
  BY <1>1, TypesKept, PTL

----------------------------------------------------------------------------
(* The channel. *)

\* Every item between the cursors is in its slot.
SlotsHold == \A n \in head..(tail - 1) : slots[n % Capacity] = n

LEMMA SlotsApart ==
  ASSUME NEW n \in Nat, NEW m \in Nat, n < m, m - n < Capacity
  PROVE  n % Capacity # m % Capacity
<1>1. Capacity \in Nat \ {0}
  BY StageQueueAssumption
<1>2. PICK a \in Int, b \in Int :
        /\ n = a * Capacity + (n % Capacity)
        /\ m = b * Capacity + (m % Capacity)
  <2>1. /\ n = (n \div Capacity) * Capacity + (n % Capacity)
        /\ m = (m \div Capacity) * Capacity + (m % Capacity)
        /\ n \div Capacity \in Int /\ m \div Capacity \in Int
    BY <1>1
  <2> QED
    BY <2>1
<1>3. SUFFICES ASSUME n % Capacity = m % Capacity PROVE FALSE
  OBVIOUS
<1>4. m - n = (b - a) * Capacity
  BY <1>1, <1>2, <1>3
<1>5. CASE b - a <= 0
  BY <1>1, <1>4, <1>5
<1>6. CASE b - a >= 1
  BY <1>1, <1>4, <1>6
<1> QED
  BY <1>5, <1>6

LEMMA SlotsStep ==
  ASSUME Types, SlotsHold, [Next]_vars
  PROVE  SlotsHold'
<1>1. CASE UNCHANGED Ring
  BY <1>1 DEF Ring, SlotsHold
<1>2. CASE Pops
  BY <1>2 DEF Pops, SlotsHold, Types, RingTypes
<1>3. CASE Pushes
  <2>1. /\ slots' = [slots EXCEPT ![tail % Capacity] = tail]
        /\ tail' = tail + 1 /\ head' = head /\ tail - mem["head"] < Capacity
    BY <1>3 DEF Pushes, HasRoom
  <2>2. /\ head \in Nat /\ tail \in Nat /\ mem["head"] \in Nat /\ mem["head"] <= head
        /\ Capacity \in Nat \ {0} /\ slots \in [0..(Capacity - 1) -> Nat]
    BY StageQueueAssumption DEF Types, RingTypes, MemTypes, CursorBounds
  <2>3. ASSUME NEW n \in head..tail PROVE slots'[n % Capacity] = n
    <3>0. n \in Nat
      BY <2>2
    <3>1. n % Capacity \in 0..(Capacity - 1)
      BY <3>0, ModType
    <3>2. CASE n = tail
      BY <2>1, <2>2, <3>1, <3>2
    <3>3. CASE n < tail
      <4>1. n \in Nat /\ n \in head..(tail - 1) /\ tail - n < Capacity
        BY <2>1, <2>2, <3>3
      <4>2. n % Capacity # tail % Capacity
        BY <2>2, <3>3, <4>1, SlotsApart
      <4> QED
        BY <2>1, <2>2, <3>1, <4>1, <4>2 DEF SlotsHold
    <3> QED
      BY <2>2, <3>2, <3>3
  <2>4. head'..(tail' - 1) = head..tail
    BY <2>1, <2>2
  <2> QED
    BY <2>3, <2>4 DEF SlotsHold
<1> QED
  BY <1>1, <1>2, <1>3, StepEffects DEF Idles, Swaps, Stores, Flush, Ring

LEMMA SlotsKept == Spec => []SlotsHold
<1>1. Init => SlotsHold
  BY DEF Init, SlotsHold
<1> QED
  BY <1>1, SlotsStep, TypesKept, PTL DEF Spec

\* The items between the cursors, oldest first.
Chan == [i \in 1..(tail - head) |-> head + i - 1]
Open == [t \in Thread |-> pc[t] \notin {"dropped", "dropunpark", "gone"}]

LEMMA ChanFacts ==
  ASSUME Types
  PROVE  /\ Chan \in Seq(Nat) /\ Len(Chan) = tail - head
         /\ \A i \in 1..(tail - head) : Chan[i] = head + i - 1
         /\ head \in Nat /\ tail \in Nat /\ tail - head \in Nat
<1>1. head \in Nat /\ tail \in Nat /\ tail - head \in Nat
  BY StageQueueAssumption DEF Types, RingTypes, RingBounds
<1>2. \A i \in 1..(tail - head) : head + i - 1 \in Nat
  BY <1>1
<1>3. Chan \in [1..(tail - head) -> Nat]
  BY <1>2 DEF Chan
<1>4. Chan \in Seq(Nat)
  BY <1>1, <1>3, SeqDef
<1>5. Len(Chan) = tail - head
  BY <1>1, <1>3, <1>4, LenProperties
<1> QED
  BY <1>1, <1>2, <1>4, <1>5 DEF Chan

LEMMA ChanPush ==
  ASSUME Types, Types', Pushes
  PROVE  Chan' = Append(Chan, tail) /\ Len(Chan) < Capacity
<1>1. /\ tail' = tail + 1 /\ head' = head /\ tail - mem["head"] < Capacity
      /\ mem["head"] \in Nat /\ mem["head"] <= head /\ Capacity \in Nat
  BY StageQueueAssumption DEF Pushes, HasRoom, Types, MemTypes, CursorBounds
<1>2. /\ Chan \in Seq(Nat) /\ Len(Chan) = tail - head
      /\ \A i \in 1..(tail - head) : Chan[i] = head + i - 1
      /\ head \in Nat /\ tail \in Nat /\ tail - head \in Nat
  BY ChanFacts
<1>3. Chan' = [i \in 1..(tail' - head') |-> head' + i - 1]
  BY DEF Chan
<1>4. Chan' \in Seq(Nat) /\ Len(Chan') = tail - head + 1
  <2>1. \A i \in 1..(tail' - head') : head' + i - 1 \in Nat
    BY <1>1, <1>2
  <2>2. /\ Chan' \in [1..(tail' - head') -> Nat]
        /\ tail' - head' \in Nat /\ tail' - head' = tail - head + 1
    BY <1>1, <1>2, <1>3, <2>1
  <2>3. Chan' \in Seq(Nat)
    BY <2>2, SeqDef
  <2> QED
    BY <2>2, <2>3, LenProperties
<1>5. /\ Append(Chan, tail) \in Seq(Nat) /\ Len(Append(Chan, tail)) = tail - head + 1
      /\ \A i \in 1..(tail - head) : Append(Chan, tail)[i] = Chan[i]
      /\ Append(Chan, tail)[tail - head + 1] = tail
  BY <1>2, AppendProperties
<1>6. ASSUME NEW i \in 1..(tail - head + 1)
      PROVE  Chan'[i] = Append(Chan, tail)[i]
  <2>1. Chan'[i] = head + i - 1
    BY <1>1, <1>2, <1>3
  <2>2. CASE i = tail - head + 1
    BY <1>2, <1>5, <2>1, <2>2
  <2>3. CASE i \in 1..(tail - head)
    BY <1>2, <1>5, <2>1, <2>3
  <2> QED
    BY <1>2, <2>2, <2>3
<1>7. Chan' = Append(Chan, tail)
  <2>1. Len(Chan') = Len(Append(Chan, tail))
    BY <1>4, <1>5
  <2>2. \A i \in 1..Len(Chan') : Chan'[i] = Append(Chan, tail)[i]
    BY <1>4, <1>6
  <2> QED
    BY <1>4, <1>5, <2>1, <2>2, SeqEqual
<1> QED
  BY <1>1, <1>2, <1>7

LEMMA ChanPop ==
  ASSUME Types, SlotsHold, Pops
  PROVE  /\ Chan # <<>> /\ Chan' = Tail(Chan)
         /\ slots[head % Capacity] = Head(Chan)
<1>1. /\ tail' = tail /\ head' = head + 1 /\ head < mem["tail"]
      /\ mem["tail"] \in Nat /\ mem["tail"] <= tail
  BY DEF Pops, Types, MemTypes, CursorBounds
<1>2. /\ Chan \in Seq(Nat) /\ Len(Chan) = tail - head
      /\ \A i \in 1..(tail - head) : Chan[i] = head + i - 1
      /\ head \in Nat /\ tail \in Nat /\ tail - head \in Nat
  BY ChanFacts
<1>3. head < tail
  BY <1>1, <1>2
<1>4. Chan # <<>> /\ Head(Chan) = head
  <2>1. Chan # <<>>
    BY <1>2, <1>3, EmptySeq
  <2>2. Head(Chan) = Chan[1]
    BY <1>2, <2>1, HeadTailProperties
  <2> QED
    BY <1>2, <1>3, <2>1, <2>2
<1>5. slots[head % Capacity] = head
  BY <1>2, <1>3 DEF SlotsHold
<1>6. Chan' = [i \in 1..(tail - (head + 1)) |-> head + 1 + i - 1]
  BY <1>1 DEF Chan
<1>7. Chan' \in Seq(Nat) /\ Len(Chan') = tail - head - 1
  <2>1. \A i \in 1..(tail - (head + 1)) : head + 1 + i - 1 \in Nat
    BY <1>2
  <2>2. Chan' \in [1..(tail - (head + 1)) -> Nat] /\ tail - (head + 1) \in Nat
    BY <1>2, <1>3, <1>6, <2>1
  <2>3. Chan' \in Seq(Nat)
    BY <2>2, SeqDef
  <2>4. Len(Chan') = tail - (head + 1)
    BY <2>2, <2>3, LenProperties
  <2> QED
    BY <1>2, <2>3, <2>4
<1>8. /\ Tail(Chan) \in Seq(Nat) /\ Len(Tail(Chan)) = tail - head - 1
      /\ \A i \in 1..(tail - head - 1) : Tail(Chan)[i] = Chan[i + 1]
  BY <1>2, <1>4, HeadTailProperties
<1>9. ASSUME NEW i \in 1..(tail - head - 1)
      PROVE  Chan'[i] = Tail(Chan)[i]
  <2>1. Chan'[i] = head + 1 + i - 1
    BY <1>2, <1>6
  <2>2. i + 1 \in 1..(tail - head)
    BY <1>2
  <2> QED
    BY <1>2, <1>8, <2>1, <2>2
<1>10. Chan' = Tail(Chan)
  BY <1>7, <1>8, <1>9, SeqEqual
<1> QED
  BY <1>4, <1>5, <1>10

LEMMA OpenKept ==
  ASSUME Types, NEW t \in Thread, NEW l \in Label, pc' = [pc EXCEPT ![t] = l],
         pc[t] \notin Left, l \notin Left
  PROVE  Open' = Open
<1>1. \A u \in Thread : (pc'[u] \notin Left) = (pc[u] \notin Left)
  BY DEF Types, ControlTypes
<1> QED
  BY <1>1, Zenon DEF Open, Left

LEMMA OpenStep ==
  ASSUME Types, Elsewhere
  PROVE  \/ Open' = Open
         \/ \E t \in Thread : Open[t] /\ Open' = [Open EXCEPT ![t] = FALSE]
<1>1. CASE pc' = pc
  BY <1>1 DEF Open
<1>2. ASSUME NEW t \in Thread, Moves(t)
      PROVE  Open' = Open \/ (Open[t] /\ Open' = [Open EXCEPT ![t] = FALSE])
  <2>1. PICK l \in Label : /\ pc' = [pc EXCEPT ![t] = l]
                           /\ pc[t] \in Left => l \in Left
    BY <1>2 DEF Moves
  <2>2. pc'[t] = l /\ \A u \in Thread : u # t => pc'[u] = pc[u]
    BY <2>1 DEF Types, ControlTypes
  <2>3. CASE pc[t] \in Left
    <3>1. \A u \in Thread : pc'[u] \in Left <=> pc[u] \in Left
      BY <2>1, <2>2, <2>3
    <3>2. \A u \in Thread : (pc'[u] \notin Left) = (pc[u] \notin Left)
      BY <3>1
    <3> QED
      BY <3>2, Zenon DEF Open, Left
  <2>4. CASE pc[t] \notin Left /\ l \notin Left
    BY <2>1, <2>4, OpenKept
  <2>5. CASE pc[t] \notin Left /\ l \in Left
    <3>1. Open[t]
      BY <2>5 DEF Open, Left
    <3>2. \A u \in Thread :
            (pc'[u] \notin Left) = (IF u = t THEN FALSE ELSE pc[u] \notin Left)
      BY <2>2, <2>5
    <3>3. Open' = [u \in Thread |-> IF u = t THEN FALSE ELSE pc[u] \notin Left]
      BY <3>2, Zenon DEF Open, Left
    <3>4. [Open EXCEPT ![t] = FALSE]
            = [u \in Thread |-> IF u = t THEN FALSE ELSE pc[u] \notin Left]
      BY DEF Open, Left
    <3> QED
      BY <3>1, <3>3, <3>4
  <2> QED
    BY <2>3, <2>4, <2>5
<1> QED
  BY <1>1, <1>2 DEF Elsewhere

(* The ring, its two cursors and the buffers they may wait in implement a  *)
(* bounded FIFO channel (parallel_queue.rs: send, recv and the two drops).  *)
THEOREM ChannelRefinement == Spec => ImplementsChannel
<1>0. /\ SC!End = Thread /\ "sender" \in Thread /\ "receiver" \in Thread
  BY DEF SC!End, Thread
<1>1. ASSUME Init PROVE SC!SCInit
  <2>1. tail = 0 /\ head = 0 /\ received = <<>>
    BY <1>1 DEF Init
  <2>2. Chan = <<>>
    <3>1. Types
      BY <1>1, InitTypes
    <3>2. Chan \in Seq(Nat) /\ Len(Chan) = 0
      BY <2>1, <3>1, ChanFacts
    <3> QED
      BY <3>2, EmptySeq
  <2>3. Open = [t \in Thread |-> TRUE]
    <3>1. \A t \in Thread : (pc[t] \notin Left) = TRUE
      BY <1>1 DEF Init, Left
    <3> QED
      BY <3>1, Zenon DEF Open, Left
  <2> QED
    BY <1>0, <2>1, <2>2, <2>3 DEF SC!SCInit, Chan, Open
<1>2. ASSUME Types, Types', SlotsHold, [Next]_vars PROVE [SC!SCNext]_SC!scVars
  <2>1. CASE Pushing
    <3>1. Chan' = Append(Chan, tail) /\ Len(Chan) < Capacity
      BY <1>2, <2>1, ChanPush DEF Pushing
    <3>2. Open' = Open /\ Open["sender"]
      BY <1>0, <1>2, <2>1, OpenKept DEF Pushing, Open, Left
    <3>3. tail' = tail + 1 /\ received' = received
      BY <2>1 DEF Pushing, Pushes
    <3> QED
      BY <3>1, <3>2, <3>3 DEF SC!SCNext, SC!Send, Chan, Open
  <2>2. CASE Popping
    <3>1. /\ Chan # <<>> /\ Chan' = Tail(Chan)
          /\ slots[head % Capacity] = Head(Chan)
      BY <1>2, <2>2, ChanPop DEF Popping
    <3>2. Open' = Open /\ Open["receiver"]
      BY <1>0, <1>2, <2>2, OpenKept DEF Popping, Open, Left
    <3>3. tail' = tail /\ received' = Append(received, slots[head % Capacity])
      BY <2>2 DEF Popping, Pops
    <3> QED
      BY <3>1, <3>2, <3>3 DEF SC!SCNext, SC!Receive, Chan, Open
  <2>3. CASE Elsewhere
    <3>1. tail' = tail /\ head' = head /\ received' = received /\ Chan' = Chan
      BY <2>3 DEF Elsewhere, Ring, Chan
    <3>2. \/ Open' = Open
          \/ \E t \in Thread : Open[t] /\ Open' = [Open EXCEPT ![t] = FALSE]
      BY <1>2, <2>3, OpenStep
    <3>3. CASE Open' = Open
      BY <3>1, <3>3 DEF SC!scVars, Chan, Open
    <3>4. CASE \E t \in Thread : Open[t] /\ Open' = [Open EXCEPT ![t] = FALSE]
      BY <1>0, <3>1, <3>4 DEF SC!SCNext, SC!Leave, Chan, Open
    <3> QED
      BY <3>2, <3>3, <3>4
  <2> QED
    BY <1>2, <2>1, <2>2, <2>3, ControlStep DEF Types
<1> QED
  BY <1>1, <1>2, TypesKept, SlotsKept, PTL DEF Spec, ImplementsChannel, SC!SCSpec

----------------------------------------------------------------------------
(* What the receiver has seen of the sender's cursor. *)

\* The tails still to be seen come in order after the one that is, and only
\* from the sender.
TailsInOrder ==
  /\ memory # "tso" => \A t \in Thread : DOMAIN buffer[t] = {}
  /\ \A k \in DOMAIN buffer["receiver"] : buffer["receiver"][k][1] # "tail"
  /\ \A k \in DOMAIN buffer["sender"] :
       buffer["sender"][k][1] = "tail" => mem["tail"] <= buffer["sender"][k][2]
  /\ \A j, k \in DOMAIN buffer["sender"] :
       j < k /\ buffer["sender"][j][1] = "tail" /\ buffer["sender"][k][1] = "tail"
         => buffer["sender"][j][2] <= buffer["sender"][k][2]

LEMMA FlagStoreTails ==
  ASSUME Types, TailsInOrder, NEW t \in Thread, NEW c \in Cell, NEW v,
         <<c, v>> \in Update, c # "tail", Store(t, c, v), memory' = memory
  PROVE  TailsInOrder' /\ mem'["tail"] = mem["tail"]
<1>0. "sender" \in Thread /\ "receiver" \in Thread /\ "tail" \in Cell
  BY Cells DEF Thread
<1>1. CASE memory = "tso"
  <2>1. /\ mem' = mem
        /\ \A u \in Thread : u # t => buffer'[u] = buffer[u]
        /\ DOMAIN buffer[t] = 1..Len(buffer[t]) /\ Len(buffer[t]) \in Nat
        /\ DOMAIN buffer'[t] = 1..(Len(buffer[t]) + 1)
        /\ \A k \in 1..Len(buffer[t]) : buffer'[t][k] = buffer[t][k]
        /\ buffer'[t][Len(buffer[t]) + 1] = <<c, v>>
    <3>1. mem' = mem /\ buffer' = [buffer EXCEPT ![t] = Append(@, <<c, v>>)]
      BY <1>1 DEF Store
    <3>2. buffer[t] \in Seq(Update)
      BY DEF Types, MemTypes
    <3>3. /\ Append(buffer[t], <<c, v>>) \in Seq(Update)
          /\ Len(Append(buffer[t], <<c, v>>)) = Len(buffer[t]) + 1
          /\ \A k \in 1..Len(buffer[t]) : Append(buffer[t], <<c, v>>)[k] = buffer[t][k]
          /\ Append(buffer[t], <<c, v>>)[Len(buffer[t]) + 1] = <<c, v>>
      BY <3>2, AppendProperties
    <3>4. /\ buffer'[t] = Append(buffer[t], <<c, v>>)
          /\ \A u \in Thread : u # t => buffer'[u] = buffer[u]
      BY <3>1 DEF Types, MemTypes
    <3> QED
      BY <3>1, <3>2, <3>3, <3>4, LenProperties
  <2>2. \A u \in Thread : \A k \in DOMAIN buffer'[u] :
          buffer'[u][k][1] = "tail"
            => k \in DOMAIN buffer[u] /\ buffer'[u][k] = buffer[u][k]
    <3>1. ASSUME NEW u \in Thread, NEW k \in DOMAIN buffer'[u],
                 buffer'[u][k][1] = "tail"
          PROVE  k \in DOMAIN buffer[u] /\ buffer'[u][k] = buffer[u][k]
      <4>1. CASE u # t
        BY <2>1, <4>1
      <4>2. CASE u = t /\ k = Len(buffer[t]) + 1
        BY <2>1, <3>1, <4>2
      <4>3. CASE u = t /\ k \in 1..Len(buffer[t])
        BY <2>1, <4>3
      <4> QED
        BY <2>1, <4>1, <4>2, <4>3
    <3> QED
      BY <3>1
  <2> QED
    BY <1>0, <1>1, <2>1, <2>2 DEF TailsInOrder
<1>2. CASE memory # "tso"
  <2>1. buffer' = buffer /\ mem' = [mem EXCEPT ![c] = v]
    BY <1>2 DEF Store
  <2>2. mem'["tail"] = mem["tail"]
    BY <1>0, <2>1 DEF Types, MemTypes
  <2> QED
    BY <2>1, <2>2 DEF TailsInOrder
<1> QED
  BY <1>1, <1>2

LEMMA PushTails ==
  ASSUME Types, TailsInOrder, Pushes, memory' = memory
  PROVE  TailsInOrder' /\ mem["tail"] <= mem'["tail"]
<1>0. "sender" \in Thread /\ "receiver" \in Thread /\ "tail" \in Cell
  BY Cells DEF Thread
<1>1. /\ tail \in Nat /\ mem["tail"] \in Nat /\ mem["tail"] <= tail
      /\ <<"tail", tail + 1>> \in Update
      /\ Store("sender", "tail", tail + 1)
      /\ buffer["sender"] \in Seq(Update)
  <2>1. tail \in Nat /\ tail + 1 \in Nat
    BY DEF Types, RingTypes
  <2>2. <<"tail", tail + 1>> \in Update
    BY <2>1, FlagUpdates
  <2>3. mem["tail"] \in Nat /\ mem["tail"] <= tail /\ buffer["sender"] \in Seq(Update)
    BY <1>0 DEF Types, MemTypes, CursorBounds
  <2> QED
    BY <2>1, <2>2, <2>3 DEF Pushes
<1>2. ASSUME NEW k \in DOMAIN buffer["sender"], buffer["sender"][k][1] = "tail"
      PROVE  buffer["sender"][k][2] \in Nat /\ buffer["sender"][k][2] <= tail
  <2>1. buffer["sender"][k] \in Update
    BY <1>1, LenProperties, ElementOfSeq
  <2> QED
    BY <1>0, <1>2, <2>1, UpdateKinds DEF Types, CursorBounds
<1>3. CASE memory = "tso"
  <2> DEFINE new == Append(buffer["sender"], <<"tail", tail + 1>>)
             n == Len(buffer["sender"])
  <2>1. mem' = mem /\ buffer' = [buffer EXCEPT !["sender"] = new]
    BY <1>1, <1>3 DEF Store
  <2>2. /\ new \in Seq(Update) /\ Len(new) = n + 1 /\ n \in Nat
        /\ \A k \in 1..n : new[k] = buffer["sender"][k]
        /\ new[n + 1] = <<"tail", tail + 1>>
        /\ DOMAIN buffer["sender"] = 1..n
    BY <1>1, AppendProperties, LenProperties
  <2>3. DOMAIN new = 1..(n + 1)
    BY <2>2, LenProperties
  <2>4. buffer'["sender"] = new /\ buffer'["receiver"] = buffer["receiver"]
    BY <1>0, <2>1 DEF Types, MemTypes
  <2> HIDE DEF new, n
  <2>5. \A k \in 1..(n + 1) : k \in 1..n \/ k = n + 1
    BY <2>2
  <2>6. ASSUME NEW k \in 1..(n + 1), new[k][1] = "tail"
        PROVE  mem["tail"] <= new[k][2] /\ new[k][2] \in Nat /\ new[k][2] <= tail + 1
    <3>1. CASE k \in 1..n
      <4>1. /\ k \in DOMAIN buffer["sender"] /\ new[k] = buffer["sender"][k]
            /\ buffer["sender"][k][1] = "tail"
        BY <2>2, <2>6, <3>1
      <4>2. buffer["sender"][k][2] \in Nat /\ buffer["sender"][k][2] <= tail
        BY <1>2, <4>1
      <4>3. mem["tail"] <= buffer["sender"][k][2]
        BY <4>1 DEF TailsInOrder
      <4> QED
        BY <1>1, <4>1, <4>2, <4>3
    <3>2. CASE k = n + 1
      BY <1>1, <2>2, <3>2
    <3> QED
      BY <2>5, <3>1, <3>2
  <2>7. ASSUME NEW j \in 1..(n + 1), NEW k \in 1..(n + 1), j < k,
               new[j][1] = "tail", new[k][1] = "tail"
        PROVE  new[j][2] <= new[k][2]
    <3>1. CASE k = n + 1
      BY <2>2, <2>6, <2>7, <3>1
    <3>2. CASE k \in 1..n
      <4>1. j \in 1..n
        BY <2>2, <2>7, <3>2
      <4> QED
        BY <2>2, <2>7, <3>2, <4>1 DEF TailsInOrder
    <3> QED
      BY <2>5, <3>1, <3>2
  <2>8. TailsInOrder'
    BY <1>3, <2>1, <2>3, <2>4, <2>6, <2>7 DEF TailsInOrder
  <2> QED
    BY <1>1, <2>1, <2>8
<1>4. CASE memory # "tso"
  <2>1. buffer' = buffer /\ mem' = [mem EXCEPT !["tail"] = tail + 1]
    BY <1>1, <1>4 DEF Store
  <2>2. mem'["tail"] = tail + 1
    BY <1>0, <2>1 DEF Types, MemTypes
  <2>3. DOMAIN buffer["sender"] = {} /\ DOMAIN buffer["receiver"] = {}
    BY <1>0, <1>4 DEF TailsInOrder
  <2> QED
    BY <1>1, <2>1, <2>2, <2>3 DEF TailsInOrder
<1> QED
  BY <1>3, <1>4

LEMMA FlushTails ==
  ASSUME Types, TailsInOrder, NEW t \in Thread, Flush(t)
  PROVE  TailsInOrder' /\ mem["tail"] <= mem'["tail"]
<1>0. "sender" \in Thread /\ "receiver" \in Thread /\ "tail" \in Cell
  BY Cells DEF Thread
<1>1. /\ 1 \in DOMAIN buffer[t] /\ buffer[t][1] \in Update
      /\ mem' = [mem EXCEPT ![buffer[t][1][1]] = buffer[t][1][2]]
      /\ buffer' = [buffer EXCEPT ![t] = Tail(@)]
      /\ \A k \in DOMAIN Tail(buffer[t]) :
           k + 1 \in DOMAIN buffer[t] /\ Tail(buffer[t])[k] = buffer[t][k + 1]
      /\ memory' = memory
  BY FlushFacts DEF Types
<1>2. /\ mem'["tail"] = IF buffer[t][1][1] = "tail" THEN buffer[t][1][2]
                        ELSE mem["tail"]
      /\ \A u \in Thread : buffer'[u] = IF u = t THEN Tail(buffer[t]) ELSE buffer[u]
      /\ mem["tail"] \in Nat
  BY <1>0, <1>1, UpdateKinds DEF Types, MemTypes
<1>3. memory = "tso"
  BY <1>1 DEF TailsInOrder
<1>4. \A u \in Thread : DOMAIN buffer'[u] \subseteq Nat /\ DOMAIN buffer[u] \subseteq Nat
  <2>1. MemTypes'
    BY MemStep DEF Types, Next
  <2>2. \A u \in Thread : buffer[u] \in Seq(Update) /\ buffer'[u] \in Seq(Update)
    BY <2>1 DEF Types, MemTypes
  <2> QED
    BY <2>2, LenProperties
<1>5. CASE t = "receiver"
  <2>1. mem'["tail"] = mem["tail"] /\ buffer'["sender"] = buffer["sender"]
    BY <1>0, <1>1, <1>2, <1>5 DEF TailsInOrder
  <2>2. \A k \in DOMAIN buffer'["receiver"] : buffer'["receiver"][k][1] # "tail"
    BY <1>0, <1>1, <1>2, <1>5 DEF TailsInOrder
  <2> QED
    BY <1>1, <1>2, <1>3, <2>1, <2>2 DEF TailsInOrder
<1>6. CASE t = "sender"
  <2>1. /\ buffer'["receiver"] = buffer["receiver"]
        /\ \A k \in DOMAIN buffer'["sender"] :
             /\ k \in Nat /\ k + 1 \in DOMAIN buffer["sender"]
             /\ buffer'["sender"][k] = buffer["sender"][k + 1]
    BY <1>0, <1>1, <1>2, <1>4, <1>6
  <2>2. ASSUME NEW k \in DOMAIN buffer'["sender"], buffer'["sender"][k][1] = "tail"
        PROVE  mem'["tail"] <= buffer'["sender"][k][2]
    <3>1. /\ k + 1 \in DOMAIN buffer["sender"] /\ 1 \in DOMAIN buffer["sender"]
          /\ buffer["sender"][k + 1][1] = "tail"
          /\ buffer'["sender"][k][2] = buffer["sender"][k + 1][2]
      BY <1>1, <1>6, <2>1, <2>2
    <3>2. 1 < k + 1
      <4>1. k # 0
        BY <1>1, <1>2, <1>6, <2>1, <2>2, <1>0, LenProperties DEF Types, MemTypes
      <4> QED
        BY <2>1, <4>1
    <3>3. CASE buffer["sender"][1][1] = "tail"
      BY <1>2, <1>6, <3>1, <3>2, <3>3 DEF TailsInOrder
    <3>4. CASE buffer["sender"][1][1] # "tail"
      BY <1>2, <1>6, <3>1, <3>4 DEF TailsInOrder
    <3> QED
      BY <3>3, <3>4
  <2>3. ASSUME NEW j \in DOMAIN buffer'["sender"], NEW k \in DOMAIN buffer'["sender"],
               j < k, buffer'["sender"][j][1] = "tail", buffer'["sender"][k][1] = "tail"
        PROVE  buffer'["sender"][j][2] <= buffer'["sender"][k][2]
    <3>1. j + 1 < k + 1
      BY <2>1, <2>3
    <3> QED
      BY <2>1, <2>3, <3>1 DEF TailsInOrder
  <2>4. mem["tail"] <= mem'["tail"]
    BY <1>1, <1>2, <1>6 DEF TailsInOrder
  <2> QED
    BY <1>0, <1>1, <1>3, <2>1, <2>2, <2>3, <2>4 DEF TailsInOrder
<1> QED
  BY <1>5, <1>6 DEF Thread

LEMMA TailsStep ==
  ASSUME Types, TailsInOrder, [Next]_vars
  PROVE  TailsInOrder' /\ mem["tail"] <= mem'["tail"]
<1>0. /\ "sender" \in Thread /\ "receiver" \in Thread /\ memory' = memory
      /\ mem["tail"] \in Nat /\ "tail" \in Cell
  BY ControlStep, Cells DEF Types, MemTypes, Thread
<1>1. CASE Idles
  BY <1>0, <1>1 DEF Idles, TailsInOrder
<1>2. CASE Swaps
  <2>1. PICK flag \in Flag : mem' = [mem EXCEPT ![flag] = FALSE]
    BY <1>2 DEF Swaps
  <2>2. mem'["tail"] = mem["tail"] /\ buffer' = buffer
    BY <1>2, <2>1, Cells DEF Types, MemTypes, Swaps
  <2> QED
    BY <1>0, <2>2 DEF TailsInOrder
<1>3. CASE Pushes
  BY <1>0, <1>3, PushTails
<1>4. CASE Pops
  <2>1. head + 1 \in Nat
    BY DEF Types, RingTypes
  <2>2. <<"head", head + 1>> \in Update /\ "head" \in Cell
    BY <2>1, FlagUpdates, Cells
  <2>3. Store("receiver", "head", head + 1)
    BY <1>4 DEF Pops
  <2> QED
    BY <1>0, <2>2, <2>3, FlagStoreTails
<1>5. ASSUME NEW t \in Thread, Stores(t)
      PROVE  TailsInOrder' /\ mem["tail"] <= mem'["tail"]
  <2>1. PICK flag \in Flag, v \in BOOLEAN : Store(t, flag, v)
    BY <1>5 DEF Stores
  <2>2. flag \in Cell /\ flag # "tail" /\ <<flag, v>> \in Update
    BY FlagUpdates, Cells
  <2> QED
    BY <1>0, <2>1, <2>2, FlagStoreTails
<1> QED
  BY <1>1, <1>2, <1>3, <1>4, <1>5, FlushTails, StepEffects

----------------------------------------------------------------------------
(* The receiver that has found the ring empty. *)

Looked == {"flag", "repop", "check", "fail", "disconnected"}

\* What was in the ring when recv() was called is seen, and taken before the
\* receiver believes the ring empty.
SeenTaken ==
  /\ seen_tail \in Nat /\ seen_tail <= mem["tail"]
  /\ pc["receiver"] \in Looked => seen_tail <= head

\* The receiver gets to those labels from one of them, or by finding nothing.
Looks ==
  pc'["receiver"] \in Looked =>
    pc["receiver"] \in Looked \/ (~(head < mem["tail"]) /\ head' = head)

LEMMA SenderLooks ==
  ASSUME Types, NEW l, Goto("sender", l)
  PROVE  Looks
BY DEF Goto, Looks, Types, ControlTypes, Thread

LEMMA ReceiverLooks ==
  ASSUME Types, NEW l, Goto("receiver", l), l \in Looked => pc["receiver"] \in Looked
  PROVE  Looks
BY DEF Goto, Looks, Types, ControlTypes, Thread

LEMMA ReceiverPops ==
  ASSUME Types, NEW from, NEW popped, popped \notin Looked, NEW empty,
         Pop(from, popped, empty)
  PROVE  Looks
BY DEF Pop, Goto, Looks, Types, ControlTypes, Thread

LEMMA LooksStep ==
  ASSUME Types, [Next]_vars
  PROVE  /\ Looks
         /\ \/ seen_tail' = seen_tail
            \/ seen_tail' = mem["tail"] /\ mem' = mem /\ pc'["receiver"] \notin Looked
<1>0. "sender" \in Thread /\ "receiver" \in Thread
  BY DEF Thread
<1> DEFINE Goal == Looks /\ seen_tail' = seen_tail
<1>1. CASE Terminated \/ UNCHANGED vars
  BY <1>1 DEF Terminated, vars, Looks
<1>2. CASE StartSend \/ Send
  <2>1. \E l : Goto("sender", l)
    BY <1>2 DEF StartSend, Send, Branch, SetFlag, Push, Park, Wake, Unpark
  <2>2. seen_tail' = seen_tail
    BY <1>2 DEF StartSend, Send, Branch, SetFlag, Push, Park, Wake, Unpark
  <2> QED
    BY <2>1, <2>2, SenderLooks
<1>3. CASE StartRecv
  <2>1. /\ seen_tail' = mem["tail"] /\ mem' = mem /\ pc'["receiver"] = "pop"
    BY <1>0, <1>3 DEF StartRecv, Goto, Types, ControlTypes
  <2> QED
    BY <2>1 DEF Looks, Looked
<1>4. CASE Recv
  <2>1. seen_tail' = seen_tail
    BY <1>4 DEF Recv, FirstPop, RePop, Branch, SetFlag, Pop, Park, Wake, Unpark
  <2>2. ASSUME Pop("pop", "wake", "flag") \/ Pop("repop", "unflag", "check")
        PROVE  Looks
    BY <2>2, ReceiverPops DEF Looked
  <2>3. ASSUME \/ SetFlag("receiver", "flag", "receiver_waiting", TRUE, "repop")
               \/ Branch("receiver", "check", mem["sender_alive"], "park", "fail")
               \/ SetFlag("receiver", "fail", "receiver_waiting", FALSE, "disconnected")
        PROVE  Looks
    BY <2>3, ReceiverLooks DEF SetFlag, Branch, Looked
  <2>4. ASSUME \/ SetFlag("receiver", "unflag", "receiver_waiting", FALSE, "wake")
               \/ SetFlag("receiver", "woken", "receiver_waiting", FALSE, "pop")
               \/ Park("receiver", "woken")
               \/ Wake("receiver", "wake", "idle", "unpark")
               \/ Unpark("receiver", "unpark", "idle")
        PROVE  Looks
    BY <2>4, ReceiverLooks DEF SetFlag, Park, Wake, Unpark, Looked
  <2> QED
    BY <1>4, <2>1, <2>2, <2>3, <2>4 DEF Recv, FirstPop, RePop
<1>5. ASSUME NEW t \in Thread,
             StartDrop(t) \/ Drop(t) \/ Flush(t) \/ SpuriousWakeup(t)
      PROVE  Goal
  <2>1. seen_tail' = seen_tail
    BY <1>5 DEF StartDrop, Drop, DropWake, Flush, SpuriousWakeup, SetFlag, Wake, Unpark
  <2>2. CASE Flush(t)
    BY <2>1, <2>2 DEF Flush, Looks
  <2>3. CASE ~Flush(t)
    <3>1. \E l : l \notin Looked /\ Goto(t, l)
      BY <1>5, <2>3 DEF StartDrop, Drop, DropWake, SpuriousWakeup, SetFlag, Wake,
                        Unpark, Looked
    <3> QED
      BY <2>1, <3>1, SenderLooks, ReceiverLooks DEF Thread
  <2> QED
    BY <2>2, <2>3
<1> QED
  BY <1>1, <1>2, <1>3, <1>4, <1>5 DEF Next

LEMMA SeenStep ==
  ASSUME Types, TailsInOrder, SeenTaken, [Next]_vars
  PROVE  SeenTaken'
<1>1. /\ mem["tail"] <= mem'["tail"] /\ mem["tail"] \in Nat
      /\ mem'["tail"] \in Nat /\ Types'
  BY TailsStep, TypesStep DEF Types, MemTypes
<1>2. head \in Nat /\ head' \in Nat /\ head <= head'
  <2>1. head' = head \/ head' = head + 1
    BY StepEffects DEF Idles, Swaps, Stores, Flush, Pushes, Pops, Ring
  <2> QED
    BY <2>1 DEF Types, RingTypes
<1>3. CASE seen_tail' = seen_tail
  BY <1>1, <1>2, <1>3, LooksStep DEF Looks, SeenTaken
<1>4. CASE /\ seen_tail' = mem["tail"] /\ mem' = mem
           /\ pc'["receiver"] \notin Looked
  BY <1>1, <1>4 DEF SeenTaken
<1> QED
  BY <1>3, <1>4, LooksStep

LEMMA InitSeen ==
  ASSUME Init
  PROVE  TailsInOrder /\ SeenTaken
<1>1. /\ \A t \in Thread : DOMAIN buffer[t] = {}
      /\ seen_tail = 0 /\ head = 0 /\ "sender" \in Thread /\ "receiver" \in Thread
  BY DEF Init, Thread
<1>2. mem["tail"] \in Nat
  BY InitTypes DEF Types, MemTypes
<1> QED
  BY <1>1, <1>2 DEF TailsInOrder, SeenTaken

(* recv() reports that its sender is gone only when it has taken all that   *)
(* was in the ring when it was called, however late it sees the sender's    *)
(* stores (parallel_queue.rs, StageReceiver::recv).                         *)
THEOREM FailsOnlyEmptyCorrect == Spec => []FailsOnlyEmpty
<1>1. Spec => [](TailsInOrder /\ SeenTaken)
  BY InitSeen, TailsStep, SeenStep, TypesKept, PTL DEF Spec
<1>2. ASSUME SeenTaken PROVE FailsOnlyEmpty
  BY <1>2 DEF SeenTaken, FailsOnlyEmpty, Looked
<1> QED
  BY <1>1, <1>2, PTL
=============================================================================
