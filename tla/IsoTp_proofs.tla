---------------------------- MODULE IsoTp_proofs ----------------------------
(***************************************************************************)
(* The ISO-TP codec implements PduChannel: for every size of PDU, timer,   *)
(* block size, mix of what may go wrong and number of lost frames, PDUs    *)
(* come out once and in order, and whole unless MayMix.                    *)
(***************************************************************************)
EXTENDS IsoTp, SequenceTheorems, TLAPS

Chunk == Nat \X Nat
Frame ==
  [type : {"SF"}, chunk : Chunk]
    \cup [type : {"FF"}, len : Nat, chunk : Chunk]
    \cup [type : {"CF"}, sn : Nat, chunk : Chunk]
    \cup [type : {"FC"}, fs : {"continue", "wait", "overflow"}, bs : Nat, st : Nat]

RxState ==
  [receiving : BOOLEAN, expected_len : Nat, buffer : Seq(Chunk),
   next_sn : Nat, age : Nat]
TxState ==
  [sending : BOOLEAN, pdu : Nat, total_len : Nat, offset : Nat,
   next_sn : Nat, block_remaining : Nat, bs : Nat,
   waiting_fc : BOOLEAN, stmin : Nat, cf_age : Nat, fc_age : Nat,
   wait_fc_count : Nat]

TransportTypeOK ==
  /\ mode \in Modes
  /\ rx \in [Node -> RxState] /\ tx \in [Node -> TxState]
  /\ bus \in [Node -> Seq(Frame)]
  /\ faults \in Nat /\ ran \subseteq Node /\ lost \in BOOLEAN
  /\ handed \in [Node -> Nat] /\ refused \in [Node -> SUBSET Nat]
  /\ delivered \in [Node -> Seq(Int)]

----------------------------------------------------------------------------
(* Sequences. *)

LEMMA TailAt ==
  ASSUME NEW S, NEW q \in Seq(S), q # <<>>
  PROVE  /\ Tail(q) \in Seq(S) /\ Head(q) = q[1] /\ q[1] \in S
         /\ Len(q) \in Nat /\ Len(q) >= 1
         /\ Len(Tail(q)) = Len(q) - 1
         /\ \A i \in 1..(Len(q) - 1) : Tail(q)[i] = q[i + 1]
BY HeadTailProperties, EmptySeq, LenProperties, ElementOfSeq

LEMMA AppendAt ==
  ASSUME NEW S, NEW q \in Seq(S), NEW e \in S
  PROVE  /\ Append(q, e) \in Seq(S) /\ Len(q) \in Nat
         /\ Len(Append(q, e)) = Len(q) + 1
         /\ Append(q, e)[Len(q) + 1] = e
         /\ \A i \in 1..Len(q) : Append(q, e)[i] = q[i]
BY AppendProperties, LenProperties

LEMMA ConcatOne ==
  ASSUME NEW S, NEW q \in Seq(S), NEW e \in S
  PROVE  q \o <<>> = q /\ q \o <<e>> = Append(q, e)
BY AppendIsConcat, ConcatEmptySeq

LEMMA FrameKinds ==
  ASSUME NEW f \in Frame
  PROVE  /\ f.type \in {"SF", "FF", "CF", "FC"}
         /\ f.type # "FC" => /\ f.chunk \in Chunk /\ f.chunk = <<f.chunk[1], f.chunk[2]>>
                             /\ f.chunk[1] \in Nat /\ f.chunk[2] \in Nat
         /\ f.type = "FF" => f.len \in Nat
         /\ f.type = "FC" => /\ f.fs \in {"continue", "wait", "overflow"}
                             /\ f.bs \in Nat /\ f.st \in Nat
BY DEF Frame, Chunk

----------------------------------------------------------------------------
(* What holds of a channel, seen from its receiver: q is the bus to it and  *)
(* r its RxState; t is the sender's TxState and back the bus to the sender; *)
(* hi PDUs were handed over, the latest that came out is lo.  How much is   *)
(* known depends on the kind of the channel: on an "ordered" one nothing    *)
(* was lost so far, on a "lossy" one no PDU comes before the one before it  *)
(* is done with, and of a "torn" one only the order of the PDUs is known.   *)

Data(f) == f.type # "FC"
Starts(f) == f.type \in {"SF", "FF"}
HasFC(b) == \E i \in 1..Len(b) : b[i].type = "FC"
OneFC(b) == \A i, j \in 1..Len(b) : b[i].type = "FC" /\ b[j].type = "FC" => i = j
NoStart(q) == \A i \in 1..Len(q) : ~Starts(q[i])
AwaitsFC(t) == t.sending /\ t.waiting_fc /\ t.fc_age = 0
LastIndex(buffer) == buffer[Len(buffer)][2]

\* Chunk c is the next one for the receiver, but for lost ones before it.
ContinuesAt(r, kind, c) ==
  (r.receiving /\ kind # "torn") =>
    /\ c[1] = r.buffer[1][1] /\ LastIndex(r.buffer) < c[2]
    /\ kind # "lossy" => c[2] = LastIndex(r.buffer) + 1

\* Chunk c follows what the first m frames of the bus carry.
Follows(q, m, r, kind, c) ==
  /\ \A i \in 1..m : (Data(q[i]) /\ \A x \in (i + 1)..m : ~Data(q[x])) =>
       \/ q[i].type = "SF"
       \/ c = <<q[i].chunk[1], q[i].chunk[2] + 1>>
  /\ (\A x \in 1..m : ~Data(q[x])) => ContinuesAt(r, kind, c)

Fits(q, m, r, kind, c) == kind # "torn" => Follows(q, m, r, kind, c)

\* The PDUs that start on the bus are younger than any received, in order.
StartsOK(q, r, lo, hi) ==
  \A j \in 1..Len(q) : Starts(q[j]) =>
    /\ q[j].chunk[2] = 1 /\ lo < q[j].chunk[1] /\ q[j].chunk[1] <= hi
    /\ r.receiving => r.buffer[1][1] < q[j].chunk[1]
    /\ \A i \in 1..(j - 1) : Starts(q[i]) => q[i].chunk[1] < q[j].chunk[1]

FollowOK(q, r, kind) ==
  \A j \in 1..Len(q) : q[j].type = "CF" => Fits(q, j - 1, r, kind, q[j].chunk)

\* The buffer has no hole, unless its last chunk tells that some were lost.
RxOK(r, lo, hi, kind) ==
  r.receiving =>
    /\ Len(r.buffer) >= 1 /\ lo < r.buffer[1][1] /\ r.buffer[1][1] <= hi
    /\ kind # "torn" =>
         /\ Len(r.buffer) <= LastIndex(r.buffer)
         /\ LastIndex(r.buffer) = Len(r.buffer) =>
              r.buffer = Chunks(r.buffer[1][1], Len(r.buffer))
         /\ kind # "lossy" => LastIndex(r.buffer) = Len(r.buffer)

\* The next chunk to be sent follows what the bus carries; where frames are
\* lost, once the first frame was answered.
TxOK(q, r, t, back, kind) ==
  (t.sending /\ (kind # "lossy" \/ ~t.waiting_fc \/ HasFC(back))) =>
    Fits(q, Len(q), r, kind, <<t.pdu, t.offset + 1>>)

\* Where frames are lost no PDU comes while another is being sent: no frame
\* of a PDU is behind the start of the next, and none exceeds its length.
LossyOK(q, r, t, back) ==
  /\ \A j \in 1..Len(q) : q[j].type = "CF" =>
       /\ \A i \in 1..j : ~Starts(q[i])
       /\ r.receiving => q[j].chunk[2] <= r.expected_len
  /\ \A j \in 1..Len(q) : q[j].type = "FF" =>
       /\ AwaitsFC(t) /\ ~HasFC(back)
       /\ t.offset = 1 /\ q[j].chunk[1] = t.pdu /\ q[j].len = t.total_len
       /\ \A i \in (j + 1)..Len(q) : ~Data(q[i])
  /\ HasFC(back) => AwaitsFC(t) /\ OneFC(back)
  /\ (HasFC(back) \/ (t.sending /\ ~t.waiting_fc)) =>
       NoStart(q) /\ (r.receiving => r.expected_len = t.total_len)

Channel(q, r, t, back, lo, hi, kind) ==
  /\ StartsOK(q, r, lo, hi) /\ FollowOK(q, r, kind)
  /\ RxOK(r, lo, hi, kind) /\ TxOK(q, r, t, back, kind)
  /\ (kind = "lossy" => LossyOK(q, r, t, back))

----------------------------------------------------------------------------
(* What a chunk follows, when the bus or the receiver changes.              *)

LEMMA FollowsPrefix ==
  ASSUME NEW q, NEW p, NEW m \in Nat, NEW r, NEW kind, NEW c,
         Follows(q, m, r, kind, c), \A i \in 1..m : p[i] = q[i]
  PROVE  Follows(p, m, r, kind, c)
<1>1. \A i \in 1..m : \A x \in (i + 1)..m : x \in 1..m
  OBVIOUS
<1> QED
  BY <1>1 DEF Follows

LEMMA FollowsNone ==
  ASSUME NEW q, NEW r, NEW kind, NEW c, Follows(q, 0, r, kind, c)
  PROVE  ContinuesAt(r, kind, c)
BY DEF Follows

LEMMA FollowsIdle ==
  ASSUME NEW q, NEW m, NEW r, NEW kind, NEW c, NEW r2,
         Follows(q, m, r, kind, c), ContinuesAt(r, kind, c) => ContinuesAt(r2, kind, c)
  PROVE  Follows(q, m, r2, kind, c)
BY DEF Follows

\* The first frame is taken from the bus.
LEMMA FollowsTail ==
  ASSUME NEW q \in Seq(Frame), q # <<>>, NEW m \in 1..Len(q),
         NEW r, NEW kind, NEW r2, NEW c, Follows(q, m, r, kind, c),
         q[1].type \in {"FF", "CF"} =>
           ContinuesAt(r2, kind, <<q[1].chunk[1], q[1].chunk[2] + 1>>),
         q[1].type = "SF" => ~r2.receiving,
         q[1].type = "FC" => (ContinuesAt(r, kind, c) => ContinuesAt(r2, kind, c))
  PROVE  Follows(Tail(q), m - 1, r2, kind, c)
<1>1. /\ Len(q) \in Nat /\ m \in Nat /\ m >= 1 /\ q[1] \in Frame
      /\ \A i \in 1..(m - 1) : Tail(q)[i] = q[i + 1]
  BY TailAt
<1>2. ASSUME NEW i \in 1..(m - 1), Data(Tail(q)[i]),
             \A x \in (i + 1)..(m - 1) : ~Data(Tail(q)[x])
      PROVE  \/ Tail(q)[i].type = "SF"
             \/ c = <<Tail(q)[i].chunk[1], Tail(q)[i].chunk[2] + 1>>
  <2>1. i + 1 \in 1..m /\ Data(q[i + 1])
    BY <1>1, <1>2
  <2>2. ASSUME NEW x \in (i + 2)..m PROVE ~Data(q[x])
    <3>1. x - 1 \in (i + 1)..(m - 1) /\ x - 1 \in 1..(m - 1) /\ (x - 1) + 1 = x
      BY <1>1
    <3> QED
      BY <1>1, <1>2, <3>1
  <2>3. (i + 1) + 1 = i + 2
    BY <1>1
  <2> QED
    BY <1>1, <2>1, <2>2, <2>3 DEF Follows
<1>3. ASSUME \A x \in 1..(m - 1) : ~Data(Tail(q)[x])
      PROVE  ContinuesAt(r2, kind, c)
  <2>1. ASSUME NEW x \in 2..m PROVE ~Data(q[x])
    <3>1. x - 1 \in 1..(m - 1) /\ (x - 1) + 1 = x
      BY <1>1
    <3> QED
      BY <1>1, <1>3, <3>1
  <2>2. CASE Data(q[1])
    <3>1. 1 \in 1..m /\ 1 + 1 = 2
      BY <1>1
    <3>2. q[1].type = "SF" \/ c = <<q[1].chunk[1], q[1].chunk[2] + 1>>
      BY <2>1, <2>2, <3>1 DEF Follows
    <3>3. q[1].type \in {"SF", "FF", "CF"}
      BY <1>1, <2>2, FrameKinds DEF Data
    <3> QED
      BY <3>2, <3>3 DEF ContinuesAt
  <2>3. CASE ~Data(q[1])
    <3>1. \A x \in 1..m : x = 1 \/ x \in 2..m
      BY <1>1
    <3> QED
      BY <2>1, <2>3, <3>1 DEF Follows, Data
  <2> QED
    BY <2>2, <2>3
<1> QED
  BY <1>2, <1>3 DEF Follows

\* A frame is put on the bus.
LEMMA FollowsAppend ==
  ASSUME NEW q \in Seq(Frame), NEW f \in Frame, NEW r, NEW kind, NEW c,
         \/ ~Data(f) /\ Follows(q, Len(q), r, kind, c)
         \/ f.type = "SF"
         \/ Data(f) /\ c = <<f.chunk[1], f.chunk[2] + 1>>
  PROVE  Follows(Append(q, f), Len(q) + 1, r, kind, c)
<1> DEFINE p == Append(q, f)
           n == Len(q)
<1>1. /\ n \in Nat /\ p[n + 1] = f /\ \A i \in 1..n : p[i] = q[i]
      /\ n + 1 \in 1..(n + 1) /\ \A i \in 1..(n + 1) : i \in 1..n \/ i = n + 1
      /\ \A i \in 1..n : n + 1 \in (i + 1)..(n + 1)
      /\ \A i \in 1..n : \A x \in (i + 1)..n : x \in (i + 1)..(n + 1) /\ x \in 1..n
      /\ \A x \in 1..n : x \in 1..(n + 1)
  BY AppendAt
<1> HIDE DEF p, n
<1>2. ASSUME Data(f) PROVE Follows(p, n + 1, r, kind, c)
  BY <1>1, <1>2 DEF Follows, Data
<1>3. ASSUME ~Data(f) PROVE Follows(p, n + 1, r, kind, c)
  <2>1. Follows(q, n, r, kind, c)
    BY <1>3 DEF Data, n
  <2>2. ASSUME NEW i \in 1..(n + 1), Data(p[i]),
               \A x \in (i + 1)..(n + 1) : ~Data(p[x])
        PROVE  p[i].type = "SF" \/ c = <<p[i].chunk[1], p[i].chunk[2] + 1>>
    <3>1. i \in 1..n
      BY <1>1, <1>3, <2>2
    <3>2. \A x \in (i + 1)..n : ~Data(q[x])
      BY <1>1, <2>2, <3>1
    <3> QED
      BY <1>1, <2>1, <2>2, <3>1, <3>2 DEF Follows
  <2>3. ASSUME \A x \in 1..(n + 1) : ~Data(p[x])
        PROVE  ContinuesAt(r, kind, c)
    <3>1. \A x \in 1..n : ~Data(q[x])
      BY <1>1, <2>3
    <3> QED
      BY <2>1, <3>1 DEF Follows
  <2> QED
    BY <2>2, <2>3 DEF Follows
<1> QED
  BY <1>2, <1>3 DEF p, n

LEMMA FitsPrefix ==
  ASSUME NEW q, NEW p, NEW m \in Nat, NEW r, NEW kind, NEW c,
         Fits(q, m, r, kind, c), \A i \in 1..m : p[i] = q[i]
  PROVE  Fits(p, m, r, kind, c)
BY FollowsPrefix DEF Fits

LEMMA FitsNone ==
  ASSUME NEW q, NEW r, NEW kind, NEW c, Fits(q, 0, r, kind, c)
  PROVE  ContinuesAt(r, kind, c)
BY FollowsNone DEF Fits, ContinuesAt

LEMMA FitsIdle ==
  ASSUME NEW q, NEW m, NEW r, NEW kind, NEW c, NEW r2,
         Fits(q, m, r, kind, c), ContinuesAt(r, kind, c) => ContinuesAt(r2, kind, c)
  PROVE  Fits(q, m, r2, kind, c)
BY FollowsIdle DEF Fits

LEMMA FitsTail ==
  ASSUME NEW q \in Seq(Frame), q # <<>>, NEW m \in 1..Len(q),
         NEW r, NEW kind, NEW r2, NEW c, Fits(q, m, r, kind, c),
         q[1].type \in {"FF", "CF"} =>
           ContinuesAt(r2, kind, <<q[1].chunk[1], q[1].chunk[2] + 1>>),
         q[1].type = "SF" => ~r2.receiving,
         q[1].type = "FC" => (ContinuesAt(r, kind, c) => ContinuesAt(r2, kind, c))
  PROVE  Fits(Tail(q), m - 1, r2, kind, c)
BY FollowsTail DEF Fits

LEMMA FitsAppend ==
  ASSUME NEW q \in Seq(Frame), NEW f \in Frame, NEW r, NEW kind, NEW c,
         \/ ~Data(f) /\ Fits(q, Len(q), r, kind, c)
         \/ f.type = "SF"
         \/ Data(f) /\ c = <<f.chunk[1], f.chunk[2] + 1>>
  PROVE  Fits(Append(q, f), Len(q) + 1, r, kind, c)
BY FollowsAppend DEF Fits

LEMMA ChunksAt ==
  ASSUME NEW p \in Nat, NEW n \in Nat, NEW b \in Seq(Chunk), Len(b) = n,
         \A k \in 1..n : b[k] = <<p, k>>
  PROVE  b = Chunks(p, n)
<1>1. Chunks(p, n) \in Seq(Chunk)
  BY IsASeq DEF Chunks, Chunk
<1>2. Len(Chunks(p, n)) = n /\ \A k \in 1..n : Chunks(p, n)[k] = <<p, k>>
  <2>1. /\ DOMAIN Chunks(p, n) = 1..n /\ DOMAIN Chunks(p, n) = 1..Len(Chunks(p, n))
        /\ Len(Chunks(p, n)) \in Nat
    BY <1>1, LenProperties DEF Chunks
  <2>2. Len(Chunks(p, n)) = n
    <3>1. \A m \in Nat : 1..n = 1..m => m = n
      OBVIOUS
    <3> QED
      BY <2>1, <3>1
  <2> QED
    BY <2>2 DEF Chunks
<1> QED
  BY <1>1, <1>2, SeqEqual

----------------------------------------------------------------------------
(* A step of the receiver, or a frame that is lost on the way to it.        *)

LEMMA HasFCTail ==
  ASSUME NEW q \in Seq(Frame), q # <<>>
  PROVE  /\ HasFC(Tail(q)) => HasFC(q)
         /\ OneFC(q) => OneFC(Tail(q))
         /\ OneFC(q) /\ q[1].type = "FC" => ~HasFC(Tail(q))
         /\ NoStart(q) => NoStart(Tail(q))
         /\ q[1].type = "FC" => HasFC(q)
<1>1. /\ Len(q) \in Nat /\ Len(q) >= 1 /\ Len(Tail(q)) = Len(q) - 1
      /\ \A i \in 1..(Len(q) - 1) : Tail(q)[i] = q[i + 1] /\ i + 1 \in 1..Len(q) /\ i + 1 # 1
      /\ 1 \in 1..Len(q)
      /\ \A i, j \in 1..(Len(q) - 1) : i + 1 = j + 1 => i = j
  BY TailAt
<1> QED
  BY <1>1 DEF HasFC, OneFC, NoStart

LEMMA HasFCAppend ==
  ASSUME NEW q \in Seq(Frame), NEW f \in Frame
  PROVE  /\ HasFC(Append(q, f)) <=> HasFC(q) \/ f.type = "FC"
         /\ ~HasFC(q) => OneFC(Append(q, f))
         /\ OneFC(q) /\ f.type # "FC" => OneFC(Append(q, f))
         /\ NoStart(q) /\ ~Starts(f) => NoStart(Append(q, f))
<1>1. /\ Len(q) \in Nat /\ Len(Append(q, f)) = Len(q) + 1
      /\ Append(q, f)[Len(q) + 1] = f /\ \A i \in 1..Len(q) : Append(q, f)[i] = q[i]
      /\ \A i \in 1..(Len(q) + 1) : i \in 1..Len(q) \/ i = Len(q) + 1
      /\ \A i \in 1..Len(q) : i \in 1..(Len(q) + 1)
      /\ Len(q) + 1 \in 1..(Len(q) + 1)
  BY AppendAt
<1> QED
  BY <1>1 DEF HasFC, OneFC, NoStart

\* The reassembly ends.
LEMMA RxStops ==
  ASSUME NEW q, NEW r, NEW t, NEW back, NEW lo, NEW hi, NEW kind,
         Channel(q, r, t, back, lo, hi, kind), NEW r2, ~r2.receiving
  PROVE  Channel(q, r2, t, back, lo, hi, kind)
<1>1. StartsOK(q, r2, lo, hi) /\ RxOK(r2, lo, hi, kind)
  BY DEF Channel, StartsOK, RxOK
<1>2. \A m, c : Fits(q, m, r, kind, c) => Fits(q, m, r2, kind, c)
  BY DEF Fits, Follows, ContinuesAt
<1>3. FollowOK(q, r2, kind) /\ TxOK(q, r2, t, back, kind)
  BY <1>2 DEF Channel, FollowOK, TxOK
<1>4. kind = "lossy" => LossyOK(q, r2, t, back)
  BY DEF Channel, LossyOK
<1> QED
  BY <1>1, <1>3, <1>4 DEF Channel

\* Frames other than the new flow control come to the sender, or leave.
LEMMA BackShrinks ==
  ASSUME NEW q, NEW r, NEW t, NEW back, NEW lo, NEW hi, NEW kind,
         Channel(q, r, t, back, lo, hi, kind), NEW back2,
         kind = "lossy" => (HasFC(back2) => HasFC(back)) /\ (OneFC(back) => OneFC(back2))
  PROVE  Channel(q, r, t, back2, lo, hi, kind)
<1>1. TxOK(q, r, t, back2, kind)
  BY DEF Channel, TxOK
<1>2. kind = "lossy" => LossyOK(q, r, t, back2)
  BY DEF Channel, LossyOK
<1> QED
  BY <1>1, <1>2 DEF Channel

LEMMA StartsTail ==
  ASSUME NEW q \in Seq(Frame), q # <<>>, NEW r, NEW r2, NEW lo, NEW lo2, NEW hi,
         StartsOK(q, r, lo, hi),
         \A j \in 2..Len(q) : Starts(q[j]) =>
           lo2 < q[j].chunk[1] /\ (r2.receiving => r2.buffer[1][1] < q[j].chunk[1])
  PROVE  StartsOK(Tail(q), r2, lo2, hi)
<1>1. /\ Len(q) \in Nat /\ Len(Tail(q)) = Len(q) - 1
      /\ \A i \in 1..(Len(q) - 1) : /\ Tail(q)[i] = q[i + 1]
                                    /\ i + 1 \in 1..Len(q) /\ i + 1 \in 2..Len(q)
  BY TailAt
<1>2. SUFFICES ASSUME NEW j \in 1..(Len(q) - 1), Starts(Tail(q)[j])
               PROVE  /\ Tail(q)[j].chunk[2] = 1 /\ lo2 < Tail(q)[j].chunk[1]
                      /\ Tail(q)[j].chunk[1] <= hi
                      /\ r2.receiving => r2.buffer[1][1] < Tail(q)[j].chunk[1]
                      /\ \A i \in 1..(j - 1) : Starts(Tail(q)[i]) =>
                           Tail(q)[i].chunk[1] < Tail(q)[j].chunk[1]
  BY <1>1 DEF StartsOK
<1>3. \A i \in 1..(j - 1) : i \in 1..(Len(q) - 1) /\ i + 1 \in 1..((j + 1) - 1)
  BY <1>1
<1> QED
  BY <1>1, <1>2, <1>3 DEF StartsOK

LEMMA FollowTail ==
  ASSUME NEW q \in Seq(Frame), q # <<>>, NEW r, NEW r2, NEW kind,
         FollowOK(q, r, kind),
         q[1].type \in {"FF", "CF"} =>
           ContinuesAt(r2, kind, <<q[1].chunk[1], q[1].chunk[2] + 1>>),
         q[1].type = "SF" => ~r2.receiving,
         q[1].type = "FC" =>
           \A c : ContinuesAt(r, kind, c) => ContinuesAt(r2, kind, c)
  PROVE  FollowOK(Tail(q), r2, kind)
<1>1. /\ Len(q) \in Nat /\ Len(Tail(q)) = Len(q) - 1
      /\ \A i \in 1..(Len(q) - 1) : Tail(q)[i] = q[i + 1] /\ i + 1 \in 1..Len(q)
  BY TailAt
<1>2. ASSUME NEW j \in 1..(Len(q) - 1), Tail(q)[j].type = "CF"
      PROVE  Fits(Tail(q), j - 1, r2, kind, Tail(q)[j].chunk)
  <2>1. (j + 1) - 1 = j /\ j \in 1..Len(q)
    BY <1>1
  <2>2. Fits(q, j, r, kind, q[j + 1].chunk)
    BY <1>1, <1>2, <2>1 DEF FollowOK
  <2> QED
    BY <1>1, <2>1, <2>2, FitsTail
<1> QED
  BY <1>1, <1>2 DEF FollowOK

LEMMA LossyTail ==
  ASSUME NEW q \in Seq(Frame), q # <<>>, NEW r, NEW r2, NEW t, NEW back,
         LossyOK(q, r, t, back),
         r2.receiving => r.receiving /\ r2.expected_len = r.expected_len
  PROVE  LossyOK(Tail(q), r2, t, back)
<1>1. /\ Len(q) \in Nat /\ Len(Tail(q)) = Len(q) - 1
      /\ \A i \in 1..(Len(q) - 1) : Tail(q)[i] = q[i + 1] /\ i + 1 \in 1..Len(q)
  BY TailAt
<1>2. \A j \in 1..(Len(q) - 1) : \A i \in 1..j :
        i \in 1..(Len(q) - 1) /\ i + 1 \in 1..(j + 1)
  BY <1>1
<1>3. \A j \in 1..(Len(q) - 1) : \A i \in (j + 1)..(Len(q) - 1) :
        i \in 1..(Len(q) - 1) /\ i + 1 \in ((j + 1) + 1)..Len(q)
  BY <1>1
<1>4. NoStart(q) => NoStart(Tail(q))
  BY HasFCTail
<1> QED
  BY <1>1, <1>2, <1>3, <1>4 DEF LossyOK

\* The receiver takes a frame that asks for no answer.
LEMMA TailChannel ==
  ASSUME NEW q \in Seq(Frame), q # <<>>, NEW r, NEW r2, NEW t, NEW back,
         NEW lo, NEW lo2, NEW hi, NEW kind,
         Channel(q, r, t, back, lo, hi, kind), RxOK(r2, lo2, hi, kind),
         \A j \in 2..Len(q) : Starts(q[j]) =>
           lo2 < q[j].chunk[1] /\ (r2.receiving => r2.buffer[1][1] < q[j].chunk[1]),
         q[1].type \in {"FF", "CF"} =>
           ContinuesAt(r2, kind, <<q[1].chunk[1], q[1].chunk[2] + 1>>),
         q[1].type = "SF" => ~r2.receiving,
         q[1].type = "FC" =>
           \A c : ContinuesAt(r, kind, c) => ContinuesAt(r2, kind, c),
         (kind = "lossy" /\ r2.receiving) => r.receiving /\ r2.expected_len = r.expected_len
  PROVE  Channel(Tail(q), r2, t, back, lo2, hi, kind)
<1>1. StartsOK(Tail(q), r2, lo2, hi)
  BY StartsTail DEF Channel
<1>2. FollowOK(Tail(q), r2, kind)
  BY FollowTail DEF Channel
<1>3. TxOK(Tail(q), r2, t, back, kind)
  <2>1. Len(q) \in 1..Len(q) /\ Len(Tail(q)) = Len(q) - 1
    BY TailAt
  <2>2. \A c : Fits(q, Len(q), r, kind, c) => Fits(Tail(q), Len(q) - 1, r2, kind, c)
    BY <2>1, FitsTail
  <2> QED
    BY <2>1, <2>2 DEF Channel, TxOK
<1>4. kind = "lossy" => LossyOK(Tail(q), r2, t, back)
  BY LossyTail DEF Channel
<1> QED
  BY <1>1, <1>2, <1>3, <1>4 DEF Channel

\* The receiver takes a first frame and answers it.
LEMMA FirstChannel ==
  ASSUME NEW q \in Seq(Frame), q # <<>>, NEW r, NEW r2, NEW t \in TxState,
         NEW back \in Seq(Frame), NEW fc \in Frame, fc.type = "FC",
         NEW lo \in Nat, NEW hi \in Nat, NEW kind,
         Channel(q, r, t, back, lo, hi, kind), q[1].type = "FF",
         r2.receiving, r2.buffer = <<q[1].chunk>>, r2.expected_len = q[1].len
  PROVE  Channel(Tail(q), r2, t, Append(back, fc), lo, hi, kind)
<1>1. /\ Len(q) \in Nat /\ Len(q) >= 1 /\ Len(Tail(q)) = Len(q) - 1 /\ 1 \in 1..Len(q)
      /\ Len(q) \in 1..Len(q) /\ q[1] \in Frame
      /\ \A i \in 1..(Len(q) - 1) : Tail(q)[i] = q[i + 1] /\ i + 1 \in 2..Len(q)
      /\ \A j \in 2..Len(q) : j \in 1..Len(q) /\ 1 \in 1..(j - 1)
  BY TailAt
<1>2. /\ Starts(q[1]) /\ q[1].chunk[2] = 1
      /\ lo < q[1].chunk[1] /\ q[1].chunk[1] <= hi
      /\ q[1].chunk = <<q[1].chunk[1], 1>> /\ q[1].chunk[1] \in Nat
  BY <1>1, FrameKinds DEF Channel, StartsOK, Starts
<1>3. /\ Len(r2.buffer) = 1 /\ r2.buffer[1] = q[1].chunk /\ LastIndex(r2.buffer) = 1
  BY <1>2 DEF LastIndex
<1>4. ContinuesAt(r2, kind, <<q[1].chunk[1], q[1].chunk[2] + 1>>)
  BY <1>2, <1>3 DEF ContinuesAt
<1>5. StartsOK(Tail(q), r2, lo, hi)
  <2>1. \A j \in 2..Len(q) : Starts(q[j]) =>
          lo < q[j].chunk[1] /\ (r2.receiving => r2.buffer[1][1] < q[j].chunk[1])
    BY <1>1, <1>2, <1>3 DEF Channel, StartsOK
  <2> QED
    BY <2>1, StartsTail DEF Channel
<1>6. FollowOK(Tail(q), r2, kind)
  BY <1>4, FollowTail DEF Channel
<1>7. RxOK(r2, lo, hi, kind)
  <2>1. r2.buffer = Chunks(q[1].chunk[1], 1)
    <3>1. /\ <<q[1].chunk>> \in Seq(Chunk) /\ Len(<<q[1].chunk>>) = 1
          /\ \A k \in 1..1 : <<q[1].chunk>>[k] = <<q[1].chunk[1], k>>
      BY <1>1, <1>2, FrameKinds
    <3> QED
      BY <1>2, <3>1, ChunksAt
  <2> QED
    BY <1>2, <1>3, <2>1 DEF RxOK
<1>8. CASE kind # "lossy"
  <2>1. \A c : Fits(q, Len(q), r, kind, c) => Fits(Tail(q), Len(q) - 1, r2, kind, c)
    BY <1>1, <1>4, FitsTail
  <2>2. TxOK(Tail(q), r2, t, Append(back, fc), kind)
    BY <1>1, <1>8, <2>1 DEF Channel, TxOK
  <2> QED
    BY <1>5, <1>6, <1>7, <1>8, <2>2 DEF Channel
<1>9. CASE kind = "lossy"
  <2>1. /\ AwaitsFC(t) /\ ~HasFC(back) /\ t.offset = 1 /\ q[1].chunk[1] = t.pdu
        /\ q[1].len = t.total_len /\ \A i \in 2..Len(q) : ~Data(q[i])
    <3>1. 1 + 1 = 2
      OBVIOUS
    <3> QED
      BY <1>1, <1>9, <3>1 DEF Channel, LossyOK
  <2>2. \A i \in 1..(Len(q) - 1) : Tail(q)[i].type = "FC"
    BY <1>1, <2>1 DEF Data
  <2>3. TxOK(Tail(q), r2, t, Append(back, fc), kind)
    <3>1. <<t.pdu, t.offset + 1>> = <<q[1].chunk[1], q[1].chunk[2] + 1>>
      BY <1>2, <2>1
    <3>2. Fits(Tail(q), Len(q) - 1, r2, kind, <<t.pdu, t.offset + 1>>)
      BY <1>4, <2>2, <3>1 DEF Fits, Follows, Data
    <3> QED
      BY <1>1, <3>2 DEF TxOK
  <2>4. NoStart(Tail(q))
    BY <1>1, <2>2 DEF NoStart, Starts
  <2>5. HasFC(Append(back, fc)) /\ OneFC(Append(back, fc))
    BY <2>1, HasFCAppend
  <2>6. LossyOK(Tail(q), r2, t, Append(back, fc))
    BY <1>1, <2>1, <2>2, <2>4, <2>5 DEF LossyOK
  <2> QED
    BY <1>5, <1>6, <1>7, <2>3, <2>6 DEF Channel
<1> QED
  BY <1>8, <1>9

----------------------------------------------------------------------------
(* A step of the sender.                                                    *)

\* More PDUs are handed over, and not taken.
LEMMA HandedMore ==
  ASSUME NEW q \in Seq(Frame), NEW r, NEW t, NEW back, NEW lo \in Nat, NEW hi \in Nat,
         NEW kind, NEW hi2 \in Nat, hi <= hi2, r \in RxState,
         Channel(q, r, t, back, lo, hi, kind)
  PROVE  Channel(q, r, t, back, lo, hi2, kind)
<1>1. \A p \in Nat : p <= hi => p <= hi2
  OBVIOUS
<1>2. \A j \in 1..Len(q) : Starts(q[j]) => q[j].chunk[1] \in Nat
  BY ElementOfSeq, FrameKinds DEF Starts
<1>3. StartsOK(q, r, lo, hi2)
  BY <1>1, <1>2 DEF Channel, StartsOK
<1>4. RxOK(r, lo, hi2, kind)
  <2>1. r.receiving /\ Len(r.buffer) >= 1 => r.buffer[1][1] \in Nat
    BY ElementOfSeq, LenProperties DEF RxState, Chunk
  <2> QED
    BY <1>1, <2>1 DEF Channel, RxOK
<1> QED
  BY <1>3, <1>4 DEF Channel

\* The transmission ends, where no flow control is on its way.
LEMMA TxStops ==
  ASSUME NEW q, NEW r, NEW t, NEW back, NEW lo, NEW hi, NEW kind,
         Channel(q, r, t, back, lo, hi, kind), kind = "lossy" => ~AwaitsFC(t),
         NEW t2, ~t2.sending
  PROVE  Channel(q, r, t2, back, lo, hi, kind)
<1>1. TxOK(q, r, t2, back, kind)
  BY DEF TxOK
<1>2. kind = "lossy" => LossyOK(q, r, t2, back)
  BY DEF Channel, LossyOK
<1> QED
  BY <1>1, <1>2 DEF Channel

\* Flow control is taken: whatever it says, the sender goes on where it was,
\* or ends.
LEMMA FlowTaken ==
  ASSUME NEW q, NEW r, NEW t, NEW back, NEW lo, NEW hi, NEW kind,
         Channel(q, r, t, back, lo, hi, kind), HasFC(back),
         NEW t2, NEW back2, kind = "lossy" => ~HasFC(back2),
         t2.sending => /\ t.sending /\ t2.pdu = t.pdu /\ t2.offset = t.offset
                       /\ t2.total_len = t.total_len
  PROVE  Channel(q, r, t2, back2, lo, hi, kind)
<1>1. TxOK(q, r, t2, back2, kind)
  BY DEF Channel, TxOK
<1>2. kind = "lossy" => LossyOK(q, r, t2, back2)
  BY DEF Channel, LossyOK
<1> QED
  BY <1>1, <1>2 DEF Channel

LEMMA StartsAppend ==
  ASSUME NEW q \in Seq(Frame), NEW f \in Frame, NEW r, NEW lo, NEW hi,
         StartsOK(q, r, lo, hi),
         Starts(f) => /\ f.chunk[2] = 1 /\ lo < f.chunk[1] /\ f.chunk[1] <= hi
                      /\ r.receiving => r.buffer[1][1] < f.chunk[1]
                      /\ \A i \in 1..Len(q) : Starts(q[i]) => q[i].chunk[1] < f.chunk[1]
  PROVE  StartsOK(Append(q, f), r, lo, hi)
<1>1. /\ Len(q) \in Nat /\ Len(Append(q, f)) = Len(q) + 1
      /\ Append(q, f)[Len(q) + 1] = f /\ \A i \in 1..Len(q) : Append(q, f)[i] = q[i]
      /\ \A i \in 1..(Len(q) + 1) : i \in 1..Len(q) \/ i = Len(q) + 1
      /\ \A j \in 1..Len(q) : \A i \in 1..(j - 1) : i \in 1..Len(q)
      /\ (Len(q) + 1) - 1 = Len(q)
  BY AppendAt
<1> QED
  BY <1>1 DEF StartsOK

LEMMA FollowAppend ==
  ASSUME NEW q \in Seq(Frame), NEW f \in Frame, NEW r, NEW kind,
         FollowOK(q, r, kind), f.type = "CF" => Fits(q, Len(q), r, kind, f.chunk)
  PROVE  FollowOK(Append(q, f), r, kind)
<1> DEFINE p == Append(q, f)
<1>1. /\ Len(q) \in Nat /\ Len(p) = Len(q) + 1
      /\ p[Len(q) + 1] = f /\ \A i \in 1..Len(q) : p[i] = q[i]
      /\ \A i \in 1..(Len(q) + 1) : i \in 1..Len(q) \/ i = Len(q) + 1
      /\ \A j \in 1..(Len(q) + 1) : j - 1 \in Nat /\ \A i \in 1..(j - 1) : i \in 1..Len(q)
      /\ (Len(q) + 1) - 1 = Len(q)
  BY AppendAt
<1>2. ASSUME NEW j \in 1..(Len(q) + 1), p[j].type = "CF"
      PROVE  Fits(p, j - 1, r, kind, p[j].chunk)
  <2>1. Fits(q, j - 1, r, kind, p[j].chunk)
    BY <1>1, <1>2 DEF FollowOK
  <2>2. j - 1 \in Nat /\ \A i \in 1..(j - 1) : p[i] = q[i]
    BY <1>1
  <2> HIDE DEF p
  <2> QED
    BY <2>1, <2>2, FitsPrefix
<1> QED
  BY <1>1, <1>2 DEF FollowOK

\* Flow control for the other direction is put on the bus.
LEMMA FlowChannel ==
  ASSUME NEW q \in Seq(Frame), NEW f \in Frame, f.type = "FC",
         NEW r, NEW t, NEW back, NEW lo, NEW hi, NEW kind,
         Channel(q, r, t, back, lo, hi, kind)
  PROVE  Channel(Append(q, f), r, t, back, lo, hi, kind)
<1> DEFINE p == Append(q, f)
<1>1. /\ Len(q) \in Nat /\ Len(p) = Len(q) + 1
      /\ p[Len(q) + 1] = f /\ \A i \in 1..Len(q) : p[i] = q[i]
      /\ \A i \in 1..(Len(q) + 1) : i \in 1..Len(q) \/ i = Len(q) + 1
      /\ \A j \in 1..Len(q) : \A i \in 1..j : i \in 1..Len(q)
      /\ \A j \in 1..Len(q) : \A i \in (j + 1)..(Len(q) + 1) :
           i \in (j + 1)..Len(q) \/ i = Len(q) + 1
      /\ \A j \in 1..Len(q) : \A i \in (j + 1)..Len(q) : i \in 1..Len(q)
  BY AppendAt
<1>2. ~Starts(f) /\ ~Data(f) /\ f.type # "CF" /\ f.type # "FF"
  BY DEF Starts, Data
<1>3. StartsOK(p, r, lo, hi) /\ FollowOK(p, r, kind)
  BY <1>2, StartsAppend, FollowAppend DEF Channel
<1>4. TxOK(p, r, t, back, kind)
  BY <1>1, <1>2, FitsAppend DEF Channel, TxOK
<1>5. ASSUME kind = "lossy" PROVE LossyOK(p, r, t, back)
  <2>1. NoStart(q) => NoStart(p)
    BY <1>2, HasFCAppend
  <2>2. LossyOK(q, r, t, back)
    BY <1>5 DEF Channel
  <2> HIDE DEF p
  <2> QED
    BY <1>1, <1>2, <2>1, <2>2 DEF LossyOK
<1> QED
  BY <1>3, <1>4, <1>5 DEF Channel

\* A PDU is sent: as a single frame,
LEMMA SingleChannel ==
  ASSUME NEW q \in Seq(Frame), NEW r \in RxState, NEW t, NEW back,
         NEW lo \in Nat, NEW hi \in Nat, NEW kind,
         Channel(q, r, t, back, lo, hi, kind), kind = "lossy" => ~t.sending, lo <= hi
  PROVE  Channel(Append(q, SingleFrame(hi + 1)), r, t, back, lo, hi + 1, kind)
<1> DEFINE f == SingleFrame(hi + 1)
           p == Append(q, f)
<1>1. f \in Frame /\ f.type = "SF" /\ f.chunk = <<hi + 1, 1>> /\ Starts(f)
  BY DEF SingleFrame, Frame, Chunk, Starts
<1>2. Channel(q, r, t, back, lo, hi + 1, kind)
  BY HandedMore
<1>3. /\ Len(q) \in Nat /\ Len(p) = Len(q) + 1
      /\ p[Len(q) + 1] = f /\ \A i \in 1..Len(q) : p[i] = q[i]
      /\ \A i \in 1..(Len(q) + 1) : i \in 1..Len(q) \/ i = Len(q) + 1
      /\ \A j \in 1..Len(q) : \A i \in 1..j : i \in 1..Len(q)
  BY <1>1, AppendAt
<1>4. \A i \in 1..Len(q) : Starts(q[i]) => q[i].chunk[1] < hi + 1
  <2>1. \A j \in 1..Len(q) : Starts(q[j]) => q[j].chunk[1] \in Nat
    BY ElementOfSeq, FrameKinds DEF Starts
  <2> QED
    BY <2>1 DEF Channel, StartsOK
<1>5. r.receiving => r.buffer[1][1] < hi + 1
  <2>1. r.receiving /\ Len(r.buffer) >= 1 => r.buffer[1][1] \in Nat
    BY ElementOfSeq, LenProperties DEF RxState, Chunk
  <2> QED
    BY <2>1 DEF Channel, RxOK
<1>6. StartsOK(p, r, lo, hi + 1)
  <2> HIDE DEF f
  <2>1. f.chunk[1] = hi + 1 /\ f.chunk[2] = 1
    BY <1>1
  <2> QED
    BY <1>1, <1>2, <1>4, <1>5, <2>1, StartsAppend DEF Channel
<1>7. FollowOK(p, r, kind)
  BY <1>1, FollowAppend DEF Channel
<1>8. TxOK(p, r, t, back, kind)
  BY <1>1, <1>3, FitsAppend DEF TxOK
<1>9. ASSUME kind = "lossy" PROVE LossyOK(p, r, t, back)
  <2> HIDE DEF f, p
  <2>1. LossyOK(q, r, t, back) /\ ~t.sending
    BY <1>9 DEF Channel
  <2> QED
    BY <1>1, <1>3, <2>1 DEF LossyOK, AwaitsFC
<1>10. RxOK(r, lo, hi + 1, kind)
  BY <1>2 DEF Channel
<1> QED
  BY <1>6, <1>7, <1>8, <1>9, <1>10 DEF Channel

\* with a first frame,
LEMMA SegmentedChannel ==
  ASSUME NEW q \in Seq(Frame), NEW r \in RxState, NEW t, NEW back,
         NEW lo \in Nat, NEW hi \in Nat, NEW kind,
         Channel(q, r, t, back, lo, hi, kind), kind = "lossy" => ~t.sending, lo <= hi,
         NEW size \in Nat, NEW t2, t2.sending, t2.waiting_fc, t2.fc_age = 0,
         t2.offset = 1, t2.pdu = hi + 1, t2.total_len = size
  PROVE  Channel(Append(q, FirstFrame(hi + 1, size)), r, t2, back, lo, hi + 1, kind)
<1> DEFINE f == FirstFrame(hi + 1, size)
           p == Append(q, f)
<1>1. /\ f \in Frame /\ f.type = "FF" /\ f.chunk = <<hi + 1, 1>> /\ Starts(f) /\ Data(f)
      /\ f.len = size
  BY DEF FirstFrame, Frame, Chunk, Starts, Data
<1>2. Channel(q, r, t, back, lo, hi + 1, kind)
  BY HandedMore
<1>3. /\ Len(q) \in Nat /\ Len(p) = Len(q) + 1
      /\ p[Len(q) + 1] = f /\ \A i \in 1..Len(q) : p[i] = q[i]
      /\ \A i \in 1..(Len(q) + 1) : i \in 1..Len(q) \/ i = Len(q) + 1
      /\ \A j \in 1..Len(q) : \A i \in 1..j : i \in 1..Len(q)
      /\ \A i \in ((Len(q) + 1) + 1)..(Len(q) + 1) : FALSE
  BY <1>1, AppendAt
<1>4. \A i \in 1..Len(q) : Starts(q[i]) => q[i].chunk[1] < hi + 1
  <2>1. \A j \in 1..Len(q) : Starts(q[j]) => q[j].chunk[1] \in Nat
    BY ElementOfSeq, FrameKinds DEF Starts
  <2> QED
    BY <2>1 DEF Channel, StartsOK
<1>5. r.receiving => r.buffer[1][1] < hi + 1
  <2>1. r.receiving /\ Len(r.buffer) >= 1 => r.buffer[1][1] \in Nat
    BY ElementOfSeq, LenProperties DEF RxState, Chunk
  <2> QED
    BY <2>1 DEF Channel, RxOK
<1>6. StartsOK(p, r, lo, hi + 1)
  <2> HIDE DEF f
  <2>1. f.chunk[1] = hi + 1 /\ f.chunk[2] = 1
    BY <1>1
  <2> QED
    BY <1>1, <1>2, <1>4, <1>5, <2>1, StartsAppend DEF Channel
<1>7. FollowOK(p, r, kind)
  BY <1>1, FollowAppend DEF Channel
<1>8. TxOK(p, r, t2, back, kind)
  <2>1. <<t2.pdu, t2.offset + 1>> = <<f.chunk[1], f.chunk[2] + 1>>
    BY <1>1
  <2> HIDE DEF f
  <2>2. Fits(p, Len(q) + 1, r, kind, <<t2.pdu, t2.offset + 1>>)
    BY <1>1, <2>1, FitsAppend
  <2> QED
    BY <1>3, <2>2 DEF TxOK
<1>9. ASSUME kind = "lossy" PROVE LossyOK(p, r, t2, back)
  <2> HIDE DEF f, p
  <2>1. LossyOK(q, r, t, back) /\ ~t.sending
    BY <1>9 DEF Channel
  <2>2. ~HasFC(back) /\ \A j \in 1..Len(q) : q[j].type # "FF"
    BY <2>1 DEF LossyOK, AwaitsFC
  <2>3. f.chunk[1] = t2.pdu
    BY <1>1
  <2> QED
    BY <1>1, <1>3, <2>1, <2>2, <2>3 DEF LossyOK, AwaitsFC
<1>10. RxOK(r, lo, hi + 1, kind)
  BY <1>2 DEF Channel
<1> QED
  BY <1>6, <1>7, <1>8, <1>9, <1>10 DEF Channel

\* and then with consecutive frames.
LEMMA NextChannel ==
  ASSUME NEW q \in Seq(Frame), NEW r, NEW t \in TxState, NEW back,
         NEW lo, NEW hi, NEW kind,
         Channel(q, r, t, back, lo, hi, kind),
         t.sending, ~t.waiting_fc, t.offset < t.total_len,
         NEW t2, t2.pdu = t.pdu, t2.offset = t.offset + 1, t2.total_len = t.total_len
  PROVE  Channel(Append(q, ConsecutiveFrame(t.pdu, t.offset + 1, t.next_sn)),
                 r, t2, back, lo, hi, kind)
<1> DEFINE f == ConsecutiveFrame(t.pdu, t.offset + 1, t.next_sn)
           p == Append(q, f)
<1>1. /\ t.pdu \in Nat /\ t.offset \in Nat /\ t.total_len \in Nat
      /\ t.next_sn % 16 \in Nat
  BY DEF TxState
<1>2. /\ f \in Frame /\ f.type = "CF" /\ f.chunk = <<t.pdu, t.offset + 1>>
      /\ ~Starts(f) /\ Data(f) /\ f.chunk[1] = t.pdu /\ f.chunk[2] = t.offset + 1
  BY <1>1 DEF ConsecutiveFrame, Frame, Chunk, Starts, Data
<1>3. /\ Len(q) \in Nat /\ Len(p) = Len(q) + 1
      /\ p[Len(q) + 1] = f /\ \A i \in 1..Len(q) : p[i] = q[i]
      /\ \A i \in 1..(Len(q) + 1) : i \in 1..Len(q) \/ i = Len(q) + 1
      /\ \A j \in 1..Len(q) : \A i \in 1..j : i \in 1..Len(q)
  BY <1>2, AppendAt
<1>4. Fits(q, Len(q), r, kind, f.chunk)
  BY <1>2 DEF Channel, TxOK
<1>5. StartsOK(p, r, lo, hi) /\ FollowOK(p, r, kind)
  <2> HIDE DEF f
  <2> QED
    BY <1>2, <1>4, StartsAppend, FollowAppend DEF Channel
<1>6. TxOK(p, r, t2, back, kind)
  <2> HIDE DEF f
  <2>1. <<t2.pdu, t2.offset + 1>> = <<f.chunk[1], f.chunk[2] + 1>>
    BY <1>1, <1>2
  <2>2. Fits(p, Len(q) + 1, r, kind, <<t2.pdu, t2.offset + 1>>)
    BY <1>2, <2>1, FitsAppend
  <2> QED
    BY <1>3, <2>2 DEF TxOK
<1>7. ASSUME kind = "lossy" PROVE LossyOK(p, r, t2, back)
  <2> HIDE DEF f
  <2>1. LossyOK(q, r, t, back)
    BY <1>7 DEF Channel
  <2>2. /\ NoStart(q) /\ (r.receiving => r.expected_len = t.total_len)
        /\ ~AwaitsFC(t) /\ ~HasFC(back)
    BY <2>1 DEF LossyOK, AwaitsFC
  <2>3. NoStart(p)
    BY <1>2, <2>2, HasFCAppend
  <2>4. r.receiving => f.chunk[2] <= r.expected_len
    BY <1>1, <1>2, <2>2
  <2> HIDE DEF p
  <2>5. \A j \in 1..Len(p) : p[j].type # "FF" /\ \A i \in 1..j : ~Starts(p[i])
    <3>1. \A j \in 1..Len(p) : \A i \in 1..j : i \in 1..Len(p)
      BY <1>3
    <3> QED
      BY <2>3, <3>1 DEF NoStart, Starts
  <2> QED
    BY <1>2, <1>3, <2>1, <2>2, <2>3, <2>4, <2>5 DEF LossyOK
<1> QED
  BY <1>5, <1>6, <1>7 DEF Channel

\* Time passes on an empty bus.
LEMMA TickChannel ==
  ASSUME NEW r, NEW t, NEW lo, NEW hi, NEW kind,
         Channel(<<>>, r, t, <<>>, lo, hi, kind), NEW r2, NEW t2,
         r2.receiving = r.receiving, r2.buffer = r.buffer,
         r2.expected_len = r.expected_len,
         t2.sending = t.sending, t2.waiting_fc = t.waiting_fc, t2.pdu = t.pdu,
         t2.offset = t.offset, t2.total_len = t.total_len
  PROVE  Channel(<<>>, r2, t2, <<>>, lo, hi, kind)
<1>1. \A c : ContinuesAt(r, kind, c) => ContinuesAt(r2, kind, c)
  BY DEF ContinuesAt
<1>2. Len(<<>>) = 0 /\ \A i \in 1..0 : FALSE
  BY EmptySeq
<1>3. StartsOK(<<>>, r2, lo, hi) /\ FollowOK(<<>>, r2, kind)
  BY <1>2 DEF StartsOK, FollowOK
<1>4. RxOK(r2, lo, hi, kind)
  BY DEF Channel, RxOK
<1>5. TxOK(<<>>, r2, t2, <<>>, kind)
  BY <1>1, <1>2 DEF Channel, TxOK, Fits, Follows
<1>6. kind = "lossy" => LossyOK(<<>>, r2, t2, <<>>)
  BY <1>2 DEF Channel, LossyOK, HasFC
<1> QED
  BY <1>3, <1>4, <1>5, <1>6 DEF Channel

----------------------------------------------------------------------------
(* handle_rx, for the channel it receives from and for the one it sends to. *)

\* A consecutive frame: where it ends a PDU, all of the PDU is there.
Grown(r, frame) == Append(r.buffer, frame.chunk)

FollowsBuffer(r, f, kind) ==
  /\ f.chunk[1] = r.buffer[1][1]
  /\ LastIndex(Grown(r, f)) = f.chunk[2] /\ f.chunk[2] \in Nat
  /\ Len(Grown(r, f)) <= LastIndex(Grown(r, f))
  /\ LastIndex(Grown(r, f)) = Len(Grown(r, f)) =>
       Grown(r, f) = Chunks(r.buffer[1][1], Len(Grown(r, f)))
  /\ kind # "lossy" => LastIndex(Grown(r, f)) = Len(Grown(r, f))
  /\ Len(Grown(r, f)) >= r.expected_len =>
       Assembled(Grown(r, f)) = r.buffer[1][1]

LEMMA ConsecutiveBuffer ==
  ASSUME NEW q \in Seq(Frame), q # <<>>, NEW r \in RxState, NEW t, NEW back,
         NEW lo \in Nat, NEW hi \in Nat, NEW kind,
         Channel(q, r, t, back, lo, hi, kind), q[1].type = "CF", r.receiving
  PROVE  /\ Grown(r, q[1]) \in Seq(Chunk) /\ Len(Grown(r, q[1])) \in Nat
         /\ Len(Grown(r, q[1])) >= 1
         /\ Grown(r, q[1])[1] = r.buffer[1] /\ r.buffer[1][1] \in Nat
         /\ lo < r.buffer[1][1] /\ r.buffer[1][1] <= hi
         /\ Assembled(Grown(r, q[1])) \in {r.buffer[1][1], -r.buffer[1][1]}
         /\ kind # "torn" => FollowsBuffer(r, q[1], kind)
<1> DEFINE b == r.buffer
           c == q[1].chunk
           buffer == Grown(r, q[1])
<1>1. /\ q[1] \in Frame /\ 1 \in 1..Len(q) /\ c \in Chunk /\ c = <<c[1], c[2]>>
      /\ c[1] \in Nat /\ c[2] \in Nat
  BY TailAt, FrameKinds
<1>2. ContinuesAt(r, kind, c)
  <2>1. Fits(q, 0, r, kind, c)
    <3>1. 1 - 1 = 0
      OBVIOUS
    <3> QED
      BY <1>1, <3>1 DEF Channel, FollowOK
  <2> QED
    BY <2>1, FitsNone
<1>3. /\ b \in Seq(Chunk) /\ Len(b) \in Nat /\ Len(b) >= 1 /\ r.expected_len \in Nat
      /\ b[1] \in Chunk /\ b[1][1] \in Nat /\ b[Len(b)] \in Chunk /\ LastIndex(b) \in Nat
  <2>1. b \in Seq(Chunk) /\ Len(b) >= 1 /\ r.expected_len \in Nat
    BY DEF Channel, RxOK, RxState
  <2>2. Len(b) \in Nat /\ 1 \in 1..Len(b) /\ Len(b) \in 1..Len(b)
    BY <2>1, LenProperties
  <2>3. b[1] \in Chunk /\ b[Len(b)] \in Chunk
    BY <2>1, <2>2, ElementOfSeq
  <2> QED
    BY <2>1, <2>2, <2>3 DEF LastIndex, Chunk
<1>4. /\ buffer \in Seq(Chunk) /\ Len(buffer) = Len(b) + 1
      /\ buffer[Len(b) + 1] = c /\ \A i \in 1..Len(b) : buffer[i] = b[i]
  BY <1>1, <1>3, AppendAt DEF Grown
<1>5. /\ lo < b[1][1] /\ b[1][1] <= hi
      /\ kind # "torn" =>
           /\ c[1] = b[1][1] /\ LastIndex(b) < c[2]
           /\ kind # "lossy" => c[2] = LastIndex(b) + 1
           /\ Len(b) <= LastIndex(b)
           /\ LastIndex(b) = Len(b) => b = Chunks(b[1][1], Len(b))
           /\ kind # "lossy" => LastIndex(b) = Len(b)
  BY <1>2 DEF ContinuesAt, Channel, RxOK
<1>6. kind = "lossy" => c[2] <= r.expected_len
  BY <1>1 DEF Channel, LossyOK
<1> HIDE DEF b, c, buffer
<1>7. LastIndex(buffer) = c[2] /\ buffer[1] = b[1]
  BY <1>3, <1>4 DEF LastIndex
<1>8. Assembled(buffer) \in {b[1][1], -b[1][1]}
  BY <1>7 DEF Assembled
<1>9. ASSUME kind # "torn"
      PROVE  /\ c[1] = b[1][1] /\ Len(buffer) <= c[2]
             /\ c[2] = Len(buffer) => buffer = Chunks(b[1][1], Len(buffer))
             /\ kind # "lossy" => c[2] = Len(buffer)
             /\ Len(buffer) >= r.expected_len => Assembled(buffer) = b[1][1]
  <2>1. Len(b) + 1 <= c[2] /\ (c[2] = Len(b) + 1 => LastIndex(b) = Len(b))
    BY <1>1, <1>3, <1>5, <1>9
  <2>2. kind # "lossy" => c[2] = Len(b) + 1
    BY <1>5, <1>9
  <2>3. ASSUME c[2] = Len(b) + 1 PROVE buffer = Chunks(b[1][1], Len(buffer))
    <3>1. \A k \in 1..Len(b) : buffer[k] = <<b[1][1], k>>
      BY <1>4, <1>5, <1>9, <2>1, <2>3 DEF Chunks
    <3>2. \A k \in 1..(Len(b) + 1) : buffer[k] = <<b[1][1], k>>
      <4>1. \A k \in 1..(Len(b) + 1) : k \in 1..Len(b) \/ k = Len(b) + 1
        BY <1>3
      <4> QED
        BY <1>1, <1>4, <1>5, <1>9, <2>3, <3>1, <4>1
    <3>3. Len(buffer) \in Nat /\ \A k \in 1..Len(buffer) : buffer[k] = <<b[1][1], k>>
      BY <1>3, <1>4, <3>2
    <3> QED
      BY <1>3, <1>4, <3>3, ChunksAt
  <2>4. ASSUME Len(buffer) >= r.expected_len PROVE Assembled(buffer) = b[1][1]
    <3>1. c[2] = Len(b) + 1
      BY <1>1, <1>3, <1>4, <1>6, <2>1, <2>2, <2>4
    <3> QED
      BY <1>7, <2>3, <3>1 DEF Assembled
  <2> QED
    BY <1>4, <1>5, <1>9, <2>1, <2>2, <2>3, <2>4
<1>10. kind # "torn" => FollowsBuffer(r, q[1], kind)
  BY <1>1, <1>7, <1>9 DEF FollowsBuffer, b, c, buffer
<1> QED
  BY <1>3, <1>4, <1>5, <1>7, <1>8, <1>10 DEF b, buffer

\* The PDU that came out last, after a step that gave these PDUs.
Newest(lo, pdus) ==
  IF pdus = <<>> THEN lo ELSE IF pdus[1] < 0 THEN -pdus[1] ELSE pdus[1]

\* What may come out: a PDU that is younger than all before, whole unless the
\* channel is torn.
ComesOut(lo, hi, kind, e) ==
  \E p \in (lo + 1)..hi : e = p \/ (kind = "torn" /\ e = -p)

Received(q, t, back, lo, hi, kind, h) ==
  /\ h.fc = FALSE /\ h.rx \in RxState
  /\ h.pdus = <<>> \/ \E e \in Int : h.pdus = <<e>> /\ ComesOut(lo, hi, kind, e)
  /\ Channel(Tail(q), h.rx, t, back, Newest(lo, h.pdus), hi, kind)

LEMMA ReceivedOther ==
  ASSUME NEW q \in Seq(Frame), q # <<>>, NEW r \in RxState, NEW t, NEW back,
         NEW lo \in Nat, NEW hi \in Nat, NEW kind,
         Channel(q, r, t, back, lo, hi, kind), q[1].type # "FF",
         NEW t0 \in TxState, NEW h, h = HandleRx(q[1], r, t0)
  PROVE  Received(q, t, back, lo, hi, kind, h)
<1>1. /\ q[1] \in Frame /\ Len(q) \in Nat /\ Len(q) >= 1 /\ 1 \in 1..Len(q)
      /\ \A j \in 2..Len(q) : j \in 1..Len(q) /\ 1 \in 1..(j - 1)
  BY TailAt
<1>2. /\ \A j \in 1..Len(q) : Starts(q[j]) =>
            /\ q[j].chunk[1] \in Nat /\ lo < q[j].chunk[1] /\ q[j].chunk[1] <= hi
            /\ r.receiving => r.buffer[1][1] < q[j].chunk[1]
      /\ \A j \in 2..Len(q) : Starts(q[j]) /\ Starts(q[1]) =>
            q[1].chunk[1] < q[j].chunk[1]
  <2>1. \A j \in 1..Len(q) : Starts(q[j]) => q[j].chunk[1] \in Nat
    BY ElementOfSeq, FrameKinds DEF Starts
  <2> QED
    BY <1>1, <2>1 DEF Channel, StartsOK
<1>3. RxIdle \in RxState /\ ~RxIdle.receiving
  BY EmptySeq DEF RxIdle, RxState
<1>4. CASE q[1].type = "SF"
  <2> DEFINE p == q[1].chunk[1]
  <2>1. h = Result(RxIdle, t0, <<p>>, FALSE)
    BY <1>4 DEF HandleRx, OnSingle
  <2>2. h.rx = RxIdle /\ h.pdus = <<p>> /\ h.fc = FALSE /\ <<p>> # <<>> /\ <<p>>[1] = p
    BY <2>1 DEF Result
  <2>3. Starts(q[1]) /\ p \in (lo + 1)..hi
    BY <1>1, <1>2, <1>4 DEF Starts
  <2> HIDE DEF p
  <2>4. RxOK(RxIdle, p, hi, kind)
    BY <1>3 DEF RxOK
  <2>5. \A j \in 2..Len(q) : Starts(q[j]) => p < q[j].chunk[1]
    BY <1>2, <2>3 DEF p
  <2>6. Channel(Tail(q), RxIdle, t, back, p, hi, kind)
    BY <1>3, <1>4, <2>4, <2>5, TailChannel
  <2>7. p \in Int /\ ~(p < 0) /\ ComesOut(lo, hi, kind, p)
    BY <2>3 DEF ComesOut
  <2> QED
    BY <1>3, <2>2, <2>6, <2>7 DEF Newest, Received
<1>5. CASE q[1].type = "FC"
  <2>1. h.rx = r /\ h.pdus = <<>> /\ h.fc = FALSE
    BY <1>5 DEF HandleRx, OnFlowControl, Result
  <2>2. Channel(Tail(q), r, t, back, lo, hi, kind)
    BY <1>1, <1>2, <1>5, TailChannel DEF Channel
  <2> QED
    BY <2>1, <2>2 DEF Newest, Received
<1>6. CASE q[1].type = "CF"
  <2>1. h = OnConsecutive(q[1], r, t0)
    BY <1>6 DEF HandleRx
  <2>2. CASE ~r.receiving
    <3>1. h.rx = r /\ h.pdus = <<>> /\ h.fc = FALSE
      BY <2>1, <2>2 DEF OnConsecutive, Result
    <3>2. ContinuesAt(r, kind, <<q[1].chunk[1], q[1].chunk[2] + 1>>)
      BY <2>2 DEF ContinuesAt
    <3>3. Channel(Tail(q), r, t, back, lo, hi, kind)
      BY <1>1, <1>2, <1>6, <2>2, <3>2, TailChannel DEF Channel
    <3> QED
      BY <3>1, <3>3 DEF Newest, Received
  <2>3. ASSUME r.receiving, NEW lo2 \in Nat, lo2 = lo \/ lo2 = r.buffer[1][1]
        PROVE  Channel(Tail(q), RxIdle, t, back, lo2, hi, kind)
    <3>1. RxOK(RxIdle, lo2, hi, kind)
      BY <1>3 DEF RxOK
    <3>2. ContinuesAt(RxIdle, kind, <<q[1].chunk[1], q[1].chunk[2] + 1>>)
      BY <1>3 DEF ContinuesAt
    <3>3. \A j \in 2..Len(q) : Starts(q[j]) => lo2 < q[j].chunk[1]
      BY <1>1, <1>2, <2>3
    <3> QED
      BY <1>3, <1>6, <3>1, <3>2, <3>3, TailChannel
  <2>4. CASE r.receiving /\ ~in_sequence(q[1], r)
    <3>1. h.rx = RxIdle /\ h.pdus = <<>> /\ h.fc = FALSE
      BY <2>1, <2>4 DEF OnConsecutive, Result
    <3> QED
      BY <1>3, <2>3, <2>4, <3>1 DEF Newest, Received
  <2>5. CASE r.receiving /\ in_sequence(q[1], r)
    <3> DEFINE buffer == Grown(r, q[1])
               p == r.buffer[1][1]
    <3>1. /\ buffer \in Seq(Chunk) /\ Len(buffer) \in Nat /\ Len(buffer) >= 1
          /\ buffer[1] = r.buffer[1] /\ p \in Nat /\ lo < p /\ p <= hi
          /\ Assembled(buffer) \in {p, -p}
      BY <1>6, <2>5, ConsecutiveBuffer
    <3>a. kind # "torn" =>
            /\ q[1].chunk[1] = p
            /\ LastIndex(buffer) = q[1].chunk[2] /\ q[1].chunk[2] \in Nat
            /\ Len(buffer) <= LastIndex(buffer)
            /\ LastIndex(buffer) = Len(buffer) => buffer = Chunks(p, Len(buffer))
            /\ kind # "lossy" => LastIndex(buffer) = Len(buffer)
            /\ Len(buffer) >= r.expected_len => Assembled(buffer) = p
      <4>1. kind # "torn" => FollowsBuffer(r, q[1], kind)
        BY <1>6, <2>5, ConsecutiveBuffer
      <4> QED
        BY <4>1 DEF FollowsBuffer
    <3>2. h = IF Len(buffer) >= r.expected_len
                THEN Result(RxIdle, t0, <<Assembled(buffer)>>, FALSE)
              ELSE Result([r EXCEPT !.buffer = buffer, !.next_sn = @ + 1, !.age = 0],
                          t0, <<>>, FALSE)
      BY <2>1, <2>5 DEF OnConsecutive, Grown
    <3> HIDE DEF buffer, p
    <3>3. CASE Len(buffer) >= r.expected_len
      <4> DEFINE e == Assembled(buffer)
      <4>1. h.rx = RxIdle /\ h.pdus = <<e>> /\ h.fc = FALSE /\ <<e>> # <<>> /\ <<e>>[1] = e
        BY <3>2, <3>3 DEF Result
      <4>2. Channel(Tail(q), RxIdle, t, back, p, hi, kind)
        BY <2>3, <2>5, <3>1 DEF p
      <4>3. e = p \/ (kind = "torn" /\ e = -p)
        BY <3>1, <3>3, <3>a
      <4> HIDE DEF e
      <4>4. e \in Int /\ p \in (lo + 1)..hi
        BY <3>1, <4>3
      <4>5. ComesOut(lo, hi, kind, e)
        BY <4>3, <4>4 DEF ComesOut
      <4>6. Newest(lo, h.pdus) = p
        BY <3>1, <4>1, <4>3 DEF Newest
      <4> QED
        BY <1>3, <4>1, <4>2, <4>4, <4>5, <4>6 DEF Received
    <3>4. CASE ~(Len(buffer) >= r.expected_len)
      <4> DEFINE r2 == [r EXCEPT !.buffer = buffer, !.next_sn = @ + 1, !.age = 0]
      <4>1. h.rx = r2 /\ h.pdus = <<>> /\ h.fc = FALSE
        BY <3>2, <3>4 DEF Result
      <4>2. /\ r2 \in RxState /\ r2.receiving = r.receiving /\ r2.buffer = buffer
            /\ r2.expected_len = r.expected_len
        <5>1. r.next_sn + 1 \in Nat
          BY DEF RxState
        <5>2. r2 \in RxState
          BY <3>1, <5>1 DEF RxState
        <5> QED
          BY <5>2 DEF RxState
      <4> HIDE DEF r2
      <4>3. RxOK(r2, lo, hi, kind)
        BY <3>1, <3>a, <4>2 DEF RxOK, p
      <4>4. ContinuesAt(r2, kind, <<q[1].chunk[1], q[1].chunk[2] + 1>>)
        BY <3>1, <3>a, <4>2 DEF ContinuesAt, p
      <4>5. \A j \in 2..Len(q) : Starts(q[j]) =>
              lo < q[j].chunk[1] /\ (r2.receiving => r2.buffer[1][1] < q[j].chunk[1])
        BY <1>1, <1>2, <3>1, <4>2
      <4>6. Channel(Tail(q), r2, t, back, lo, hi, kind)
        BY <1>6, <2>5, <4>2, <4>3, <4>4, <4>5, TailChannel
      <4> QED
        BY <4>1, <4>2, <4>6 DEF Newest, Received
    <3> QED
      BY <3>3, <3>4
  <2> QED
    BY <2>2, <2>4, <2>5
<1> QED
  BY <1>1, <1>4, <1>5, <1>6, FrameKinds

ReceivedStart(q, t, back, lo, hi, kind, h, fc) ==
  /\ h.fc = TRUE /\ h.rx \in RxState /\ h.pdus = <<>>
  /\ Channel(Tail(q), h.rx, t, Append(back, fc), lo, hi, kind)

LEMMA ReceivedFirst ==
  ASSUME NEW q \in Seq(Frame), q # <<>>, NEW r \in RxState, NEW t \in TxState,
         NEW back \in Seq(Frame),
         NEW lo \in Nat, NEW hi \in Nat, NEW kind,
         Channel(q, r, t, back, lo, hi, kind), q[1].type = "FF",
         NEW t0 \in TxState, NEW h, h = HandleRx(q[1], r, t0),
         NEW fc \in Frame, fc.type = "FC"
  PROVE  ReceivedStart(q, t, back, lo, hi, kind, h, fc)
<1>1. q[1] \in Frame
  BY TailAt
<1>2. /\ h.fc = TRUE /\ h.pdus = <<>>
      /\ h.rx = [receiving |-> TRUE, expected_len |-> q[1].len,
                 buffer |-> <<q[1].chunk>>, next_sn |-> 1, age |-> 0]
  BY DEF HandleRx, OnFirst, Result
<1>3. q[1].chunk \in Chunk /\ q[1].len \in Nat
  BY <1>1, FrameKinds
<1>4. <<q[1].chunk>> \in Seq(Chunk)
  BY <1>3
<1>5. h.rx \in RxState
  BY <1>2, <1>3, <1>4 DEF RxState
<1>6. h.rx.receiving /\ h.rx.buffer = <<q[1].chunk>> /\ h.rx.expected_len = q[1].len
  BY <1>2
<1>7. Channel(Tail(q), h.rx, t, Append(back, fc), lo, hi, kind)
  BY <1>6, FirstChannel
<1> QED
  BY <1>2, <1>5, <1>7 DEF ReceivedStart

LEMMA TxFields ==
  ASSUME NEW t \in TxState
  PROVE  /\ t.sending \in BOOLEAN /\ t.waiting_fc \in BOOLEAN
         /\ t.pdu \in Nat /\ t.total_len \in Nat /\ t.offset \in Nat
         /\ t.next_sn \in Nat /\ t.block_remaining \in Nat /\ t.bs \in Nat
         /\ t.stmin \in Nat /\ t.cf_age \in Nat /\ t.fc_age \in Nat
         /\ t.wait_fc_count + 1 \in Nat
BY DEF TxState

LEMMA ClearToSendType ==
  ASSUME NEW t \in TxState, NEW f, f.bs \in Nat, f.st \in Nat
  PROVE  /\ ClearToSend(f, t) \in TxState
         /\ ClearToSend(f, t).sending = t.sending /\ ClearToSend(f, t).pdu = t.pdu
         /\ ClearToSend(f, t).offset = t.offset
         /\ ClearToSend(f, t).total_len = t.total_len
<1>1. ClearToSend(f, t) \in TxState
  BY DEF ClearToSend, TxState
<1> QED
  BY <1>1 DEF ClearToSend, TxState

LEMMA WaitMoreType ==
  ASSUME NEW t \in TxState
  PROVE  \/ WaitMore(t) = TxIdle
         \/ /\ WaitMore(t) \in TxState
            /\ WaitMore(t).sending = t.sending /\ WaitMore(t).pdu = t.pdu
            /\ WaitMore(t).offset = t.offset /\ WaitMore(t).total_len = t.total_len
<1> DEFINE t2 == [t EXCEPT !.fc_age = 0, !.wait_fc_count = @ + 1]
<1>1. t.wait_fc_count + 1 \in Nat
  BY TxFields
<1>2. t2 \in TxState
  BY <1>1 DEF TxState
<1>3. /\ t2.sending = t.sending /\ t2.pdu = t.pdu
      /\ t2.offset = t.offset /\ t2.total_len = t.total_len
  BY DEF TxState
<1>4. WaitMore(t) = TxIdle \/ WaitMore(t) = t2
  BY DEF WaitMore
<1> HIDE DEF t2
<1> QED
  BY <1>2, <1>3, <1>4

\* What the frame does to the channel that the codec sends to: back is where
\* the frame came from.
Answered(q, r, t, back, lo, hi, kind, h) ==
  /\ h.tx \in TxState /\ (h.tx.sending => t.sending)
  /\ Channel(q, r, h.tx, Tail(back), lo, hi, kind)

LEMMA FrameAnswers ==
  ASSUME NEW q, NEW r, NEW t \in TxState, NEW back \in Seq(Frame), back # <<>>,
         NEW lo, NEW hi, NEW kind,
         Channel(q, r, t, back, lo, hi, kind),
         NEW r0, NEW h, h = HandleRx(back[1], r0, t)
  PROVE  Answered(q, r, t, back, lo, hi, kind, h)
<1>1. back[1] \in Frame
  BY TailAt
<1>2. TxIdle \in TxState /\ ~TxIdle.sending
  BY DEF TxIdle, TxState
<1>3. CASE back[1].type # "FC"
  <2>1. h.tx = t
    <3>1. back[1].type \in {"SF", "FF", "CF"}
      BY <1>1, <1>3, FrameKinds
    <3>2. CASE back[1].type = "SF"
      BY <3>2 DEF HandleRx, OnSingle, Result
    <3>3. CASE back[1].type = "FF"
      BY <3>3 DEF HandleRx, OnFirst, Result
    <3>4. CASE back[1].type = "CF"
      BY <3>4 DEF HandleRx, OnConsecutive, Result
    <3> QED
      BY <3>1, <3>2, <3>3, <3>4
  <2>2. Channel(q, r, t, Tail(back), lo, hi, kind)
    BY HasFCTail, BackShrinks
  <2> QED
    BY <2>1, <2>2 DEF Answered
<1>4. CASE back[1].type = "FC"
  <2>1. HasFC(back) /\ (OneFC(back) => ~HasFC(Tail(back)))
    BY <1>4, HasFCTail
  <2>2. /\ back[1].fs \in {"continue", "wait", "overflow"}
        /\ back[1].bs \in Nat /\ back[1].st \in Nat
    BY <1>1, <1>4, FrameKinds
  <2>3. h.tx = CASE ~t.sending -> t
                 [] t.sending /\ back[1].fs = "continue" -> ClearToSend(back[1], t)
                 [] t.sending /\ back[1].fs = "wait" -> WaitMore(t)
                 [] t.sending /\ back[1].fs = "overflow" -> TxIdle
    BY <1>4 DEF HandleRx, OnFlowControl, Result
  <2>4. /\ h.tx \in TxState
        /\ h.tx.sending => /\ t.sending /\ h.tx.pdu = t.pdu /\ h.tx.offset = t.offset
                           /\ h.tx.total_len = t.total_len
    <3>1. CASE ~t.sending
      BY <2>3, <3>1
    <3>2. CASE t.sending /\ back[1].fs = "continue"
      <4>1. h.tx = ClearToSend(back[1], t)
        BY <2>3, <3>2
      <4> QED
        BY <2>2, <3>2, <4>1, ClearToSendType
    <3>3. CASE t.sending /\ back[1].fs = "wait"
      <4>1. h.tx = WaitMore(t)
        BY <2>3, <3>3
      <4> QED
        BY <1>2, <3>3, <4>1, WaitMoreType
    <3>4. CASE t.sending /\ back[1].fs = "overflow"
      <4>1. h.tx = TxIdle
        BY <2>3, <3>4
      <4> QED
        BY <1>2, <4>1
    <3> QED
      BY <2>2, <3>1, <3>2, <3>3, <3>4
  <2>5. kind = "lossy" => ~HasFC(Tail(back))
    BY <2>1 DEF Channel, LossyOK
  <2>6. Channel(q, r, h.tx, Tail(back), lo, hi, kind)
    BY <2>1, <2>4, <2>5, FlowTaken
  <2> QED
    BY <2>4, <2>6 DEF Answered
<1> QED
  BY <1>3, <1>4

----------------------------------------------------------------------------
(* What a cycle sends.                                                      *)

SentBy(fc, p, size, t) ==
  CASE fc -> [tx |-> t, out |-> <<FlowControl("continue", block_size, StMin)>>]
    [] ~fc /\ size > 0 -> StartTx(p, size, t)
    [] ~fc /\ size = 0 -> TxNextFrame(t)

LEMMA FlowControlFrame ==
  /\ FlowControl("continue", block_size, StMin) \in Frame
  /\ FlowControl("continue", block_size, StMin).type = "FC"
<1>1. block_size \in Nat /\ StMin \in Nat
  BY IsoTpAssumption DEF block_size
<1> QED
  BY <1>1 DEF FlowControl, Frame

LEMMA SegmentType ==
  ASSUME NEW p \in Nat, NEW size \in Nat
  PROVE  [TxIdle EXCEPT !.sending = TRUE, !.pdu = p, !.total_len = size,
                        !.offset = 1, !.next_sn = 1, !.waiting_fc = TRUE] \in TxState
<1>1. TxIdle \in TxState
  BY DEF TxIdle, TxState
<1> HIDE DEF TxIdle
<1> QED
  BY <1>1 DEF TxState

LEMMA SentType ==
  ASSUME NEW t \in TxState, NEW a \in Nat, NEW b \in Nat
  PROVE  [t EXCEPT !.offset = a, !.next_sn = b, !.cf_age = 0] \in TxState
BY DEF TxState

LEMMA SendNextType ==
  ASSUME NEW t \in TxState
  PROVE  /\ SendNext(t) \in TxState
         /\ SendNext(t).pdu = t.pdu /\ SendNext(t).offset = t.offset + 1
         /\ SendNext(t).total_len = t.total_len
<1> DEFINE left == IF t.block_remaining > 0 THEN t.block_remaining - 1 ELSE 0
           sent == [t EXCEPT !.offset = @ + 1, !.next_sn = (@ + 1) % 256, !.cf_age = 0]
           blocked == [sent EXCEPT !.waiting_fc = TRUE, !.block_remaining = t.bs]
           counted == [sent EXCEPT !.block_remaining = left]
<1>1. /\ t.offset + 1 \in Nat /\ (t.next_sn + 1) % 256 \in Nat
      /\ left \in Nat /\ t.bs \in Nat
  BY TxFields
<1>2. SendNext(t) \in {sent, blocked, counted}
  BY DEF SendNext
<1> HIDE DEF left
<1>3. sent \in TxState
  BY <1>1, SentType
<1>4. sent.pdu = t.pdu /\ sent.offset = t.offset + 1 /\ sent.total_len = t.total_len
  BY DEF TxState
<1> HIDE DEF sent
<1>5. /\ blocked \in TxState /\ blocked.pdu = sent.pdu
      /\ blocked.offset = sent.offset /\ blocked.total_len = sent.total_len
  <2>1. blocked \in TxState
    BY <1>1, <1>3 DEF TxState
  <2> QED
    BY <1>3, <2>1 DEF TxState
<1>6. /\ counted \in TxState /\ counted.pdu = sent.pdu
      /\ counted.offset = sent.offset /\ counted.total_len = sent.total_len
  <2>1. counted \in TxState
    BY <1>1, <1>3 DEF TxState
  <2> QED
    BY <1>3, <2>1 DEF TxState
<1> HIDE DEF blocked, counted
<1> QED
  BY <1>2, <1>3, <1>4, <1>5, <1>6

SentOK(q, r, back, lo, hi2, kind, fc, sent) ==
  /\ sent.tx \in TxState /\ hi2 \in Nat
  /\ \/ ~fc /\ sent.out = <<>>
     \/ \E f \in Frame : sent.out = <<f>> /\ (f.type = "FC" <=> fc)
  /\ fc => sent.out = <<FlowControl("continue", block_size, StMin)>>
  /\ q \o sent.out \in Seq(Frame)
  /\ Channel(q \o sent.out, r, sent.tx, back, lo, hi2, kind)

LEMMA Sends ==
  ASSUME NEW q \in Seq(Frame), NEW r \in RxState, NEW t \in TxState, NEW back,
         NEW lo \in Nat, NEW hi \in Nat, lo <= hi, NEW kind,
         Channel(q, r, t, back, lo, hi, kind),
         NEW fc \in BOOLEAN, NEW size \in Nat, kind = "lossy" /\ size > 0 => ~t.sending,
         NEW sent, sent = SentBy(fc, hi + 1, size, t),
         NEW hi2, hi2 = hi + (IF size > 0 THEN 1 ELSE 0)
  PROVE  SentOK(q, r, back, lo, hi2, kind, fc, sent)
<1>1. hi2 \in Nat /\ hi <= hi2
  OBVIOUS
<1>2. CASE fc
  <2> DEFINE f == FlowControl("continue", block_size, StMin)
  <2>1. sent.tx = t /\ sent.out = <<f>>
    BY <1>2 DEF SentBy
  <2>2. f \in Frame /\ f.type = "FC"
    BY FlowControlFrame
  <2> HIDE DEF f
  <2>3. Channel(q, r, t, back, lo, hi2, kind)
    BY <1>1, HandedMore
  <2>4. Channel(Append(q, f), r, t, back, lo, hi2, kind)
    BY <2>2, <2>3, FlowChannel
  <2>5. q \o sent.out = Append(q, f) /\ Append(q, f) \in Seq(Frame)
    BY <2>1, <2>2, ConcatOne, AppendAt
  <2> QED
    BY <1>1, <1>2, <2>1, <2>2, <2>4, <2>5 DEF f, SentOK
<1>3. CASE ~fc /\ size > 0
  <2>1. sent = StartTx(hi + 1, size, t) /\ hi2 = hi + 1
    BY <1>3 DEF SentBy
  <2>2. CASE size = 1
    <3> DEFINE f == SingleFrame(hi + 1)
    <3>1. sent.tx = t /\ sent.out = <<f>>
      BY <2>1, <2>2 DEF StartTx
    <3>2. f \in Frame /\ f.type = "SF"
      BY DEF SingleFrame, Frame, Chunk
    <3>3. Channel(Append(q, f), r, t, back, lo, hi + 1, kind)
      BY <1>3, SingleChannel
    <3> HIDE DEF f
    <3>4. q \o sent.out = Append(q, f) /\ Append(q, f) \in Seq(Frame)
      BY <3>1, <3>2, ConcatOne, AppendAt
    <3> QED
      BY <1>1, <1>3, <2>1, <3>1, <3>2, <3>3, <3>4 DEF SentOK
  <2>3. CASE size # 1
    <3> DEFINE f == FirstFrame(hi + 1, size)
               t2 == [TxIdle EXCEPT !.sending = TRUE, !.pdu = hi + 1, !.total_len = size,
                                    !.offset = 1, !.next_sn = 1, !.waiting_fc = TRUE]
    <3>1. sent.tx = t2 /\ sent.out = <<f>>
      BY <2>1, <2>3 DEF StartTx
    <3>2. f \in Frame /\ f.type = "FF"
      BY DEF FirstFrame, Frame, Chunk
    <3>3. /\ t2 \in TxState /\ t2.sending /\ t2.waiting_fc /\ t2.fc_age = 0
          /\ t2.offset = 1 /\ t2.pdu = hi + 1 /\ t2.total_len = size
      <4>1. TxIdle \in TxState /\ TxIdle.fc_age = 0
        BY DEF TxIdle, TxState
      <4>2. t2 \in TxState
        <5>1. hi + 1 \in Nat
          OBVIOUS
        <5> QED
          BY <5>1, SegmentType
      <4> QED
        BY <4>1, <4>2 DEF TxState
    <3> HIDE DEF t2
    <3>4. Channel(Append(q, f), r, t2, back, lo, hi + 1, kind)
      BY <1>3, <3>3, SegmentedChannel
    <3> HIDE DEF f
    <3>5. q \o sent.out = Append(q, f) /\ Append(q, f) \in Seq(Frame)
      BY <3>1, <3>2, ConcatOne, AppendAt
    <3> QED
      BY <1>1, <1>3, <2>1, <3>1, <3>2, <3>3, <3>4, <3>5 DEF SentOK
  <2> QED
    BY <2>2, <2>3
<1>4. CASE ~fc /\ size = 0
  <2>1. sent = TxNextFrame(t) /\ hi2 = hi
    BY <1>4 DEF SentBy
  <2>2. q \o <<>> = q
    BY ConcatOne, ConcatEmptySeq
  <2>3. CASE sent.tx = t /\ sent.out = <<>>
    BY <1>1, <1>4, <2>1, <2>2, <2>3 DEF SentOK
  <2>4. CASE sent.tx = TxIdle /\ sent.out = <<>> /\ ~t.waiting_fc
    <3>1. TxIdle \in TxState /\ ~TxIdle.sending
      BY DEF TxIdle, TxState
    <3>2. Channel(q, r, TxIdle, back, lo, hi, kind)
      BY <2>4, <3>1, TxStops DEF AwaitsFC
    <3> QED
      BY <1>1, <1>4, <2>1, <2>2, <2>4, <3>1, <3>2 DEF SentOK
  <2>5. CASE /\ t.sending /\ ~t.waiting_fc /\ t.offset < t.total_len
             /\ sent.tx = SendNext(t)
             /\ sent.out = <<ConsecutiveFrame(t.pdu, t.offset + 1, t.next_sn)>>
    <3> DEFINE f == ConsecutiveFrame(t.pdu, t.offset + 1, t.next_sn)
    <3>1. Channel(Append(q, f), r, SendNext(t), back, lo, hi, kind)
      BY <2>5, SendNextType, NextChannel
    <3>2. f \in Frame /\ f.type = "CF"
      <4>1. t.pdu \in Nat /\ t.offset + 1 \in Nat /\ t.next_sn % 16 \in Nat
        BY TxFields
      <4> QED
        BY <4>1 DEF ConsecutiveFrame, Frame, Chunk
    <3>3. sent.out = <<f>>
      BY <2>5
    <3> HIDE DEF f
    <3>4. q \o sent.out = Append(q, f) /\ Append(q, f) \in Seq(Frame)
      BY <3>2, <3>3, ConcatOne, AppendAt
    <3> QED
      BY <1>1, <1>4, <2>1, <2>5, <3>1, <3>2, <3>3, <3>4, SendNextType DEF SentOK
  <2>6. t.offset \in Nat /\ t.total_len \in Nat
    BY TxFields
  <2> QED
    BY <2>1, <2>3, <2>4, <2>5, <2>6 DEF TxNextFrame
<1> QED
  BY <1>2, <1>3, <1>4

----------------------------------------------------------------------------
(* The specification. *)

LatestOf(d) ==
  LET last == d[Len(d)] IN
  IF d = <<>> THEN 0 ELSE IF last < 0 THEN -last ELSE last

\* What kinds of channels the two are, with what may go wrong and did.
Kinds ==
  {"torn"} \cup (IF lost THEN {} ELSE {"ordered"})
           \cup (IF mode \cap {"overlap", "foreign"} = {} THEN {"lossy"} ELSE {})

ChannelsOf(kind) ==
  \A n \in Node :
    /\ LatestOf(delivered[n]) <= handed[n]
    /\ Channel(bus[n], rx[n], tx[Peer(n)], bus[Peer(n)],
               LatestOf(delivered[n]), handed[n], kind)

ChannelInv == \A kind \in Kinds : ChannelsOf(kind)

\* What a cycle of n's codec puts out, on channels of a kind.
PutsOut(n, kind) ==
  \/ delivered' = delivered
  \/ \E e \in Int : /\ ComesOut(LatestOf(delivered[n]), handed[n], kind, e)
                    /\ delivered' = [delivered EXCEPT ![n] = Append(@, e)]

LEMMA Peers == \A n \in Node : Peer(n) \in Node /\ Peer(n) # n /\ Peer(Peer(n)) = n
                               /\ \A k \in Node : k = n \/ k = Peer(n)
BY DEF Node, Peer

LEMMA LatestAt ==
  ASSUME NEW d \in Seq(Int)
  PROVE  /\ LatestOf(d) \in Nat /\ d \o <<>> = d
         /\ \A e \in Int : /\ d \o <<e>> = Append(d, e) /\ Append(d, e) \in Seq(Int)
                           /\ LatestOf(Append(d, e)) = IF e < 0 THEN -e ELSE e
<1>1. LatestOf(d) \in Nat
  <2>1. CASE d = <<>>
    BY <2>1 DEF LatestOf
  <2>2. CASE d # <<>>
    <3>1. Len(d) \in 1..Len(d)
      BY <2>2, EmptySeq
    <3>2. d[Len(d)] \in Int
      BY <3>1, ElementOfSeq
    <3> DEFINE last == d[Len(d)]
    <3> HIDE DEF last
    <3>3. (IF last < 0 THEN -last ELSE last) \in Nat
      BY <3>2 DEF last
    <3> QED
      BY <2>2, <3>3 DEF LatestOf, last
  <2> QED
    BY <2>1, <2>2
<1>2. d \o <<>> = d
  BY ConcatEmptySeq
<1>3. ASSUME NEW e \in Int
      PROVE  /\ d \o <<e>> = Append(d, e) /\ Append(d, e) \in Seq(Int)
             /\ LatestOf(Append(d, e)) = IF e < 0 THEN -e ELSE e
  <2>1. /\ d \o <<e>> = Append(d, e) /\ Append(d, e) \in Seq(Int)
        /\ Len(d) \in Nat /\ Len(Append(d, e)) = Len(d) + 1
        /\ Append(d, e)[Len(d) + 1] = e
    BY ConcatOne, AppendAt
  <2>2. Append(d, e) # <<>>
    BY <2>1, EmptySeq
  <2> QED
    BY <2>1, <2>2 DEF LatestOf
<1> QED
  BY <1>1, <1>2, <1>3

\* A frame is lost on the way to the receiver.
LEMMA LostChannel ==
  ASSUME NEW q \in Seq(Frame), q # <<>>, NEW r \in RxState, NEW t, NEW back,
         NEW lo \in Nat, NEW hi \in Nat, NEW kind, kind \in {"lossy", "torn"},
         Channel(q, r, t, back, lo, hi, kind)
  PROVE  Channel(Tail(q), r, t, back, lo, hi, kind)
<1>1. /\ q[1] \in Frame /\ Len(q) \in Nat /\ Len(q) >= 1 /\ 1 \in 1..Len(q)
      /\ Len(Tail(q)) = Len(q) - 1
      /\ \A i \in 1..(Len(q) - 1) : Tail(q)[i] = q[i + 1] /\ i + 1 \in 1..Len(q)
      /\ \A j \in 2..Len(q) : j \in 1..Len(q)
      /\ \A j \in 1..Len(q) : 1 \in 1..j
  BY TailAt
<1>2. \A j \in 2..Len(q) : Starts(q[j]) =>
        lo < q[j].chunk[1] /\ (r.receiving => r.buffer[1][1] < q[j].chunk[1])
  BY <1>1 DEF Channel, StartsOK
<1>3. RxOK(r, lo, hi, kind)
  BY DEF Channel
<1>4. CASE kind = "lossy" /\ q[1].type \in {"CF", "FC"}
  <2>1. ASSUME q[1].type = "CF"
        PROVE  ContinuesAt(r, kind, <<q[1].chunk[1], q[1].chunk[2] + 1>>)
    <3>1. ContinuesAt(r, kind, q[1].chunk)
      <4>1. 1 - 1 = 0
        OBVIOUS
      <4>2. Fits(q, 0, r, kind, q[1].chunk)
        BY <1>1, <2>1, <4>1 DEF Channel, FollowOK
      <4> QED
        BY <4>2, FitsNone
    <3>2. q[1].chunk[2] \in Nat
      BY <1>1, <2>1, FrameKinds
    <3>3. r.receiving => LastIndex(r.buffer) \in Nat
      <4>1. r.receiving => Len(r.buffer) \in 1..Len(r.buffer)
        BY <1>3, LenProperties DEF RxOK, RxState
      <4> QED
        BY <4>1, ElementOfSeq DEF RxState, Chunk, LastIndex
    <3> QED
      BY <3>1, <3>2, <3>3 DEF ContinuesAt
  <2> QED
    BY <1>2, <1>3, <1>4, <2>1, TailChannel
<1>5. CASE kind = "lossy" /\ Starts(q[1])
  <2>1. LossyOK(q, r, t, back)
    BY <1>5 DEF Channel
  <2>2. \A j \in 1..Len(q) : q[j].type # "CF"
    BY <1>1, <1>5, <2>1 DEF LossyOK
  <2>3. StartsOK(Tail(q), r, lo, hi)
    BY <1>2, StartsTail DEF Channel
  <2>4. FollowOK(Tail(q), r, kind)
    BY <1>1, <2>2 DEF FollowOK
  <2>5. TxOK(Tail(q), r, t, back, kind)
    BY <1>1, <1>5, <2>1 DEF TxOK, LossyOK, NoStart
  <2>6. LossyOK(Tail(q), r, t, back)
    BY <2>1, LossyTail
  <2> QED
    BY <1>3, <2>3, <2>4, <2>5, <2>6 DEF Channel
<1>6. CASE kind = "torn"
  <2>1. StartsOK(Tail(q), r, lo, hi)
    BY <1>2, StartsTail DEF Channel
  <2>2. FollowOK(Tail(q), r, kind) /\ TxOK(Tail(q), r, t, back, kind)
    BY <1>6 DEF FollowOK, TxOK, Fits
  <2> QED
    BY <1>3, <1>6, <2>1, <2>2 DEF Channel
<1> QED
  BY <1>1, <1>4, <1>5, <1>6, FrameKinds DEF Starts

LEMMA TypeInit == TransportInit => TransportTypeOK
<1>1. RxIdle \in RxState /\ TxIdle \in TxState
  BY EmptySeq DEF RxIdle, RxState, TxIdle, TxState
<1> HIDE DEF RxIdle, TxIdle
<1>2. <<>> \in Seq(Frame) /\ <<>> \in Seq(Int)
  BY EmptySeq
<1>3. ASSUME TransportInit PROVE TransportTypeOK
  <2>1. mode \in Modes /\ lost \in BOOLEAN /\ faults \in Nat /\ ran \subseteq Node
    BY <1>3 DEF TransportInit
  <2>2. /\ rx \in [Node -> RxState] /\ tx \in [Node -> TxState]
        /\ bus \in [Node -> Seq(Frame)] /\ delivered \in [Node -> Seq(Int)]
    BY <1>1, <1>2, <1>3 DEF TransportInit
  <2>3. handed \in [Node -> Nat] /\ refused \in [Node -> SUBSET Nat]
    BY <1>3 DEF TransportInit
  <2> QED
    BY <2>1, <2>2, <2>3 DEF TransportTypeOK
<1> QED
  BY <1>3

LEMMA ChannelInit == TransportInit => ChannelInv
<1>1. SUFFICES ASSUME TransportInit, NEW n \in Node, NEW kind
               PROVE  /\ LatestOf(delivered[n]) <= handed[n]
                      /\ Channel(bus[n], rx[n], tx[Peer(n)], bus[Peer(n)],
                                 LatestOf(delivered[n]), handed[n], kind)
  BY DEF ChannelInv, ChannelsOf
<1>2. /\ bus[n] = <<>> /\ bus[Peer(n)] = <<>> /\ handed[n] = 0 /\ delivered[n] = <<>>
      /\ rx[n].receiving = FALSE /\ tx[Peer(n)].sending = FALSE
  BY <1>1, Peers DEF TransportInit, RxIdle, TxIdle
<1>3. Len(<<>>) = 0 /\ \A i \in 1..0 : FALSE
  BY EmptySeq
<1>4. LatestOf(delivered[n]) = 0
  BY <1>2 DEF LatestOf
<1> QED
  BY <1>2, <1>3, <1>4
     DEF Channel, StartsOK, FollowOK, RxOK, TxOK, LossyOK, HasFC

\* A cycle of a codec: what it receives, what it sends, and what comes out.
LEMMA ProcessChannel ==
  ASSUME TransportTypeOK, NEW kind, ChannelsOf(kind),
         kind = "lossy" => "overlap" \notin mode, NEW n \in Node, Process(n)
  PROVE  /\ TransportTypeOK' /\ ChannelsOf(kind)' /\ PutsOut(n, kind)
         /\ handed' = handed \/ handed' = [handed EXCEPT ![Peer(n)] = @ + 1]
<1> DEFINE m == Peer(n)
           lo == LatestOf(delivered[n])
           lo2 == LatestOf(delivered[m])
           r == RxTimeout(rx[n])
           t == TxTimeout(tx[n])
           h == IF bus[n] = <<>> THEN Result(r, t, <<>>, FALSE)
                ELSE HandleRx(Head(bus[n]), r, t)
           q == IF bus[n] = <<>> THEN bus[n] ELSE Tail(bus[n])
<1>1. /\ m \in Node /\ m # n /\ Peer(m) = n
      /\ \A k \in Node : k = n \/ k = m
  BY Peers
<1>2. /\ bus[n] \in Seq(Frame) /\ bus[m] \in Seq(Frame)
      /\ rx[n] \in RxState /\ rx[m] \in RxState /\ tx[n] \in TxState /\ tx[m] \in TxState
      /\ handed[n] \in Nat /\ handed[m] \in Nat
      /\ delivered[n] \in Seq(Int) /\ delivered[m] \in Seq(Int)
  BY <1>1 DEF TransportTypeOK
<1>3. lo \in Nat /\ lo2 \in Nat
  BY <1>2, LatestAt
<1>4. /\ lo <= handed[n] /\ lo2 <= handed[m]
      /\ Channel(bus[n], rx[n], tx[m], bus[m], lo, handed[n], kind)
      /\ Channel(bus[m], rx[m], tx[n], bus[n], lo2, handed[m], kind)
  BY <1>1 DEF ChannelsOf
<1>5. PICK size \in Offers(n) : Codec(n, h, size)
  BY DEF Process
<1>6. /\ mode' = mode /\ faults' = faults /\ ran' = ran \cup {n}
      /\ lost' = lost
  BY DEF Process
<1>7. size \in Nat /\ (kind = "lossy" /\ size > 0 => ~tx[n].sending)
  BY IsoTpAssumption DEF Offers
<1>8. /\ r \in RxState /\ t \in TxState /\ (t.sending => tx[n].sending)
      /\ Channel(bus[n], r, tx[m], bus[m], lo, handed[n], kind)
      /\ Channel(bus[m], rx[m], t, bus[n], lo2, handed[m], kind)
  <2>1. RxIdle \in RxState /\ ~RxIdle.receiving /\ TxIdle \in TxState /\ ~TxIdle.sending
    BY EmptySeq DEF RxIdle, RxState, TxIdle, TxState
  <2>2. r = rx[n] \/ r = RxIdle
    BY DEF RxTimeout
  <2>3. t = tx[n] \/ (t = TxIdle /\ ~AwaitsFC(tx[n]))
    BY IsoTpAssumption DEF TxTimeout, AwaitsFC
  <2> HIDE DEF r, t, lo, lo2, m
  <2>4. Channel(bus[n], r, tx[m], bus[m], lo, handed[n], kind)
    BY <1>4, <2>1, <2>2, RxStops
  <2>5. Channel(bus[m], rx[m], t, bus[n], lo2, handed[m], kind)
    BY <1>4, <2>1, <2>3, TxStops
  <2> QED
    BY <1>2, <2>1, <2>2, <2>3, <2>4, <2>5
<1> DEFINE sent == SentBy(h.fc, handed[m] + 1, size, h.tx)
<1>9. /\ rx' = [rx EXCEPT ![n] = h.rx] /\ tx' = [tx EXCEPT ![n] = sent.tx]
      /\ delivered' = [delivered EXCEPT ![n] = @ \o h.pdus]
      /\ handed' = [handed EXCEPT ![m] = @ + (IF size > 0 THEN 1 ELSE 0)]
      /\ refused' = [refused EXCEPT ![m] =
                       @ \cup (IF h.fc /\ size > 0 THEN {handed[m] + 1} ELSE {})]
      /\ bus' = [bus EXCEPT ![n] = q, ![m] = @ \o sent.out]
  <2>1. bus' = [bus EXCEPT ![n] = IF @ = <<>> THEN @ ELSE Tail(@), ![m] = @ \o sent.out]
    BY <1>5 DEF Codec, SentBy
  <2> HIDE DEF h
  <2>2. /\ rx' = [rx EXCEPT ![n] = h.rx] /\ tx' = [tx EXCEPT ![n] = sent.tx]
        /\ delivered' = [delivered EXCEPT ![n] = @ \o h.pdus]
        /\ handed' = [handed EXCEPT ![m] = @ + (IF size > 0 THEN 1 ELSE 0)]
        /\ refused' = [refused EXCEPT ![m] =
                         @ \cup (IF h.fc /\ size > 0 THEN {handed[m] + 1} ELSE {})]
    BY <1>5 DEF Codec, SentBy
  <2> QED
    BY <2>1, <2>2
<1> HIDE DEF m, lo, lo2, r, t
<1>10. /\ h.rx \in RxState /\ h.tx \in TxState /\ h.fc \in BOOLEAN
       /\ q \in Seq(Frame) /\ (h.tx.sending => t.sending)
       /\ \/ h.pdus = <<>>
          \/ \E e \in Int : h.pdus = <<e>> /\ ComesOut(lo, handed[n], kind, e)
       /\ Channel(bus[m], rx[m], h.tx, q, lo2, handed[m], kind)
       /\ ~h.fc => Channel(q, h.rx, tx[m], bus[m], Newest(lo, h.pdus), handed[n], kind)
       /\ \A fc \in Frame : h.fc /\ fc.type = "FC" =>
            Channel(q, h.rx, tx[m], Append(bus[m], fc), Newest(lo, h.pdus),
                    handed[n], kind)
  <2>1. CASE bus[n] = <<>>
    <3>1. h.rx = r /\ h.tx = t /\ h.fc = FALSE /\ h.pdus = <<>> /\ q = bus[n]
      BY <2>1 DEF Result
    <3> HIDE DEF h, q
    <3> QED
      BY <1>2, <1>8, <3>1 DEF Newest
  <2>2. CASE bus[n] # <<>>
    <3>1. h = HandleRx(bus[n][1], r, t)
      BY <1>2, <2>2, TailAt
    <3>2. q = Tail(bus[n]) /\ q \in Seq(Frame)
      BY <1>2, <2>2, TailAt
    <3> HIDE DEF h, q
    <3>3. bus[n] \in Seq(Frame)
      BY <1>2
    <3>4. t \in TxState
      BY <1>8
    <3>5. Channel(bus[m], rx[m], t, bus[n], lo2, handed[m], kind)
      BY <1>8
    <3>6. Answered(bus[m], rx[m], t, bus[n], lo2, handed[m], kind, h)
      BY <2>2, <3>1, <3>3, <3>4, <3>5, FrameAnswers
    <3>9. Channel(bus[n], r, tx[m], bus[m], lo, handed[n], kind)
      BY <1>8
    <3>10. r \in RxState
      BY <1>8
    <3>11. lo \in Nat
      BY <1>3
    <3>12. handed[n] \in Nat
      BY <1>2
    <3>13. CASE bus[n][1].type # "FF"
      <4>1. Received(bus[n], tx[m], bus[m], lo, handed[n], kind, h)
        BY <2>2, <3>1, <3>3, <3>4, <3>9, <3>10, <3>11, <3>12, <3>13, ReceivedOther
      <4> QED
        BY <3>2, <3>6, <4>1 DEF Answered, Received
    <3>14. CASE bus[n][1].type = "FF"
      <4>1. bus[m] \in Seq(Frame)
        BY <1>2
      <4>2. tx[m] \in TxState
        BY <1>2
      <4>3. ASSUME NEW fc \in Frame, fc.type = "FC"
            PROVE  ReceivedStart(bus[n], tx[m], bus[m], lo, handed[n], kind, h, fc)
        BY <2>2, <3>1, <3>3, <3>4, <3>9, <3>10, <3>11, <3>12, <3>14, <4>1, <4>2, <4>3,
           ReceivedFirst
      <4>4. h.fc = TRUE /\ h.rx \in RxState /\ h.pdus = <<>>
        BY <4>3, FlowControlFrame DEF ReceivedStart
      <4> QED
        BY <3>2, <3>6, <4>3, <4>4 DEF Newest, Answered, ReceivedStart
    <3> QED
      BY <3>13, <3>14
  <2> QED
    BY <2>1, <2>2
<1> HIDE DEF h, q
<1>11. /\ sent.tx \in TxState /\ handed[m] + (IF size > 0 THEN 1 ELSE 0) \in Nat
       /\ \/ ~h.fc /\ sent.out = <<>>
          \/ \E f \in Frame : sent.out = <<f>> /\ (f.type = "FC" <=> h.fc)
       /\ h.fc => sent.out = <<FlowControl("continue", block_size, StMin)>>
       /\ bus[m] \o sent.out \in Seq(Frame)
       /\ Channel(bus[m] \o sent.out, rx[m], sent.tx, q, lo2,
                  handed[m] + (IF size > 0 THEN 1 ELSE 0), kind)
  <2>1. kind = "lossy" /\ size > 0 => ~h.tx.sending
    BY <1>7, <1>8, <1>10
  <2> DEFINE hi2 == handed[m] + (IF size > 0 THEN 1 ELSE 0)
  <2>2. hi2 = handed[m] + (IF size > 0 THEN 1 ELSE 0)
    OBVIOUS
  <2>3. sent = SentBy(h.fc, handed[m] + 1, size, h.tx)
    OBVIOUS
  <2> HIDE DEF hi2, sent
  <2>4. Channel(bus[m], rx[m], h.tx, q, lo2, handed[m], kind)
    BY <1>10
  <2>5. bus[m] \in Seq(Frame)
    BY <1>2
  <2>6. rx[m] \in RxState
    BY <1>2
  <2>7. h.tx \in TxState
    BY <1>10
  <2>8. lo2 \in Nat
    BY <1>3
  <2>9. handed[m] \in Nat
    BY <1>2
  <2>10. lo2 <= handed[m]
    BY <1>4
  <2>11. h.fc \in BOOLEAN
    BY <1>10
  <2>12. size \in Nat
    BY <1>7
  <2>13. SentOK(bus[m], rx[m], q, lo2, hi2, kind, h.fc, sent)
    BY <2>1, <2>2, <2>3, <2>4, <2>5, <2>6, <2>7, <2>8, <2>9, <2>10, <2>11, <2>12, Sends
  <2> QED
    BY <2>2, <2>13 DEF SentOK
<1> HIDE DEF sent
<1>12. Channel(q, h.rx, tx[m], bus[m] \o sent.out, Newest(lo, h.pdus), handed[n], kind)
  <2>1. CASE h.fc
    BY <1>2, <1>10, <1>11, <2>1, FlowControlFrame, ConcatOne
  <2>2. CASE ~h.fc /\ sent.out = <<>>
    BY <1>2, <1>10, <2>2, ConcatEmptySeq
  <2>3. ASSUME ~h.fc, NEW f \in Frame, sent.out = <<f>>, f.type # "FC"
        PROVE  Channel(q, h.rx, tx[m], bus[m] \o sent.out, Newest(lo, h.pdus),
                       handed[n], kind)
    <3>1. bus[m] \o sent.out = Append(bus[m], f)
      BY <1>2, <2>3, ConcatOne
    <3>2. /\ HasFC(Append(bus[m], f)) => HasFC(bus[m])
          /\ OneFC(bus[m]) => OneFC(Append(bus[m], f))
      BY <1>2, <2>3, HasFCAppend
    <3> QED
      BY <1>10, <2>3, <3>1, <3>2, BackShrinks
  <2> QED
    BY <1>11, <2>1, <2>2, <2>3
<1>13. /\ delivered[n] \o h.pdus \in Seq(Int)
       /\ LatestOf(delivered[n] \o h.pdus) = Newest(lo, h.pdus)
       /\ Newest(lo, h.pdus) <= handed[n]
       /\ PutsOut(n, kind)
  <2>1. CASE h.pdus = <<>>
    <3>1. delivered[n] \o h.pdus = delivered[n]
      BY <1>2, <2>1, LatestAt
    <3>2. delivered' = delivered
      BY <1>9, <3>1 DEF TransportTypeOK
    <3> QED
      BY <1>2, <1>4, <2>1, <3>1, <3>2 DEF Newest, lo, PutsOut
  <2>2. ASSUME NEW e \in Int, h.pdus = <<e>>, ComesOut(lo, handed[n], kind, e)
        PROVE  /\ delivered[n] \o h.pdus \in Seq(Int)
               /\ LatestOf(delivered[n] \o h.pdus) = Newest(lo, h.pdus)
               /\ Newest(lo, h.pdus) <= handed[n]
               /\ PutsOut(n, kind)
    <3>1. <<e>> # <<>> /\ <<e>>[1] = e
      OBVIOUS
    <3>2. /\ delivered[n] \o h.pdus = Append(delivered[n], e)
          /\ delivered[n] \o h.pdus \in Seq(Int)
          /\ LatestOf(delivered[n] \o h.pdus) = IF e < 0 THEN -e ELSE e
      <4>1. delivered[n] \in Seq(Int)
        BY <1>2
      <4>2. /\ delivered[n] \o <<e>> = Append(delivered[n], e)
            /\ Append(delivered[n], e) \in Seq(Int)
            /\ LatestOf(Append(delivered[n], e)) = IF e < 0 THEN -e ELSE e
        BY <2>2, <4>1, LatestAt
      <4>3. h.pdus = <<e>>
        BY <2>2
      <4> QED
        BY <4>2, <4>3
    <3>3. Newest(lo, h.pdus) = IF e < 0 THEN -e ELSE e
      BY <2>2, <3>1 DEF Newest
    <3>4. delivered' = [delivered EXCEPT ![n] = Append(@, e)]
      BY <1>9, <3>2
    <3>5. (IF e < 0 THEN -e ELSE e) <= handed[n]
      <4>1. PICK p \in (lo + 1)..handed[n] : e = p \/ e = -p
        BY <2>2 DEF ComesOut
      <4>2. handed[n] \in Nat /\ p \in Nat /\ p > 0 /\ p <= handed[n]
        BY <1>2, <1>3
      <4> QED
        BY <4>1, <4>2
    <3>6. PutsOut(n, kind)
      BY <2>2, <3>4 DEF PutsOut, lo
    <3> QED
      BY <3>2, <3>3, <3>5, <3>6
  <2> QED
    BY <1>10, <2>1, <2>2
<1>14. /\ bus' [n] = q /\ bus'[m] = bus[m] \o sent.out
       /\ rx'[n] = h.rx /\ rx'[m] = rx[m] /\ tx'[n] = sent.tx /\ tx'[m] = tx[m]
       /\ delivered'[n] = delivered[n] \o h.pdus /\ delivered'[m] = delivered[m]
       /\ handed'[n] = handed[n]
       /\ handed'[m] = handed[m] + (IF size > 0 THEN 1 ELSE 0)
  BY <1>1, <1>9 DEF TransportTypeOK
<1>15. TransportTypeOK'
  <2>1. /\ rx' \in [Node -> RxState] /\ tx' \in [Node -> TxState]
        /\ handed' \in [Node -> Nat]
    BY <1>1, <1>9, <1>10, <1>11 DEF TransportTypeOK
  <2>2. bus' \in [Node -> Seq(Frame)]
    BY <1>1, <1>9, <1>10, <1>11 DEF TransportTypeOK
  <2>3. delivered' \in [Node -> Seq(Int)]
    BY <1>9, <1>13 DEF TransportTypeOK
  <2>4. refused' \in [Node -> SUBSET Nat]
    <3>1. handed[m] + 1 \in Nat
      BY <1>2
    <3> QED
      BY <1>1, <1>9, <3>1 DEF TransportTypeOK
  <2> QED
    BY <1>6, <2>1, <2>2, <2>3, <2>4 DEF TransportTypeOK
<1>16. ChannelsOf(kind)'
  <2>1. /\ LatestOf(delivered'[n]) <= handed'[n]
        /\ Channel(bus'[n], rx'[n], tx'[m], bus'[m], LatestOf(delivered'[n]),
                   handed'[n], kind)
    BY <1>12, <1>13, <1>14
  <2>2. /\ LatestOf(delivered'[m]) <= handed'[m]
        /\ Channel(bus'[m], rx'[m], tx'[n], bus'[n], LatestOf(delivered'[m]),
                   handed'[m], kind)
    <3>1. LatestOf(delivered'[m]) = lo2
      BY <1>14 DEF lo2
    <3> QED
      BY <1>2, <1>3, <1>4, <1>11, <1>14, <3>1
  <2>3. Peer(n) = m /\ Peer(m) = n
    BY <1>1 DEF m
  <2> QED
    BY <1>1, <2>1, <2>2, <2>3 DEF ChannelsOf
<1>17. handed' = handed \/ handed' = [handed EXCEPT ![m] = @ + 1]
  <2>1. CASE size > 0
    BY <1>9, <2>1
  <2>2. CASE ~(size > 0)
    BY <1>1, <1>2, <1>9, <2>2 DEF TransportTypeOK
  <2> QED
    BY <2>1, <2>2
<1> QED
  BY <1>13, <1>15, <1>16, <1>17 DEF m

\* On channels of every kind they are.
LEMMA ProcessStep ==
  ASSUME TransportTypeOK, ChannelInv, NEW n \in Node, Process(n)
  PROVE  /\ TransportTypeOK' /\ ChannelInv'
         /\ handed' = handed \/ handed' = [handed EXCEPT ![Peer(n)] = @ + 1]
         /\ \A kind \in Kinds : PutsOut(n, kind)
<1>1. mode' = mode /\ lost' = lost
  BY DEF Process
<1>2. ASSUME NEW kind \in Kinds
      PROVE  /\ TransportTypeOK' /\ ChannelsOf(kind)' /\ PutsOut(n, kind)
             /\ handed' = handed \/ handed' = [handed EXCEPT ![Peer(n)] = @ + 1]
  <2>1. kind = "lossy" => "overlap" \notin mode
    BY DEF Kinds
  <2>2. ChannelsOf(kind)
    BY DEF ChannelInv
  <2> QED
    BY <2>1, <2>2, ProcessChannel
<1>3. "torn" \in Kinds
  BY DEF Kinds
<1>4. Kinds' = Kinds
  BY <1>1 DEF Kinds
<1> QED
  BY <1>2, <1>3, <1>4 DEF ChannelInv

\* Time passes.
LEMMA TickStep ==
  ASSUME TransportTypeOK, ChannelInv, Tick
  PROVE  TransportTypeOK' /\ ChannelInv'
<1> DEFINE aged(n) == [rx[n] EXCEPT !.age = Older(@, NCr)]
           waited(n) == [tx[n] EXCEPT !.fc_age = Older(@, NBs), !.cf_age = Older(@, StMin)]
<1>1. /\ ran' = {} /\ mode' = mode /\ bus' = bus /\ faults' = faults
      /\ handed' = handed /\ refused' = refused /\ delivered' = delivered /\ lost' = lost
      /\ \A n \in Node : bus[n] = <<>>
      /\ rx' = [n \in Node |-> IF rx[n].receiving THEN aged(n) ELSE rx[n]]
      /\ tx' = [n \in Node |-> IF tx[n].sending THEN waited(n) ELSE tx[n]]
  BY DEF Tick
<1>2. ASSUME NEW n \in Node
      PROVE  /\ rx'[n] \in RxState /\ rx'[n].receiving = rx[n].receiving
             /\ rx'[n].buffer = rx[n].buffer
             /\ rx'[n].expected_len = rx[n].expected_len
  <2>1. rx[n] \in RxState
    BY DEF TransportTypeOK
  <2>2. Older(rx[n].age, NCr) \in Nat
    BY <2>1 DEF Older, RxState
  <2>3. aged(n) \in RxState
    BY <2>1, <2>2 DEF RxState
  <2>4. /\ aged(n).receiving = rx[n].receiving /\ aged(n).buffer = rx[n].buffer
        /\ aged(n).expected_len = rx[n].expected_len
    BY <2>1 DEF RxState
  <2>5. rx'[n] = aged(n) \/ rx'[n] = rx[n]
    BY <1>1
  <2> HIDE DEF aged
  <2> QED
    BY <2>1, <2>3, <2>4, <2>5
<1>3. ASSUME NEW n \in Node
      PROVE  /\ tx'[n] \in TxState /\ tx'[n].sending = tx[n].sending
             /\ tx'[n].waiting_fc = tx[n].waiting_fc /\ tx'[n].pdu = tx[n].pdu
             /\ tx'[n].offset = tx[n].offset /\ tx'[n].total_len = tx[n].total_len
  <2>1. tx[n] \in TxState
    BY DEF TransportTypeOK
  <2>2. Older(tx[n].fc_age, NBs) \in Nat /\ Older(tx[n].cf_age, StMin) \in Nat
    BY <2>1, TxFields DEF Older
  <2>3. waited(n) \in TxState
    BY <2>1, <2>2 DEF TxState
  <2>4. /\ waited(n).sending = tx[n].sending
        /\ waited(n).waiting_fc = tx[n].waiting_fc /\ waited(n).pdu = tx[n].pdu
        /\ waited(n).offset = tx[n].offset /\ waited(n).total_len = tx[n].total_len
    BY <2>1 DEF TxState
  <2>5. tx'[n] = waited(n) \/ tx'[n] = tx[n]
    BY <1>1
  <2> HIDE DEF waited
  <2> QED
    BY <2>1, <2>3, <2>4, <2>5
<1>4. TransportTypeOK'
  <2>1. rx' \in [Node -> RxState] /\ tx' \in [Node -> TxState]
    BY <1>1, <1>2, <1>3
  <2> QED
    BY <1>1, <2>1 DEF TransportTypeOK
<1>5. ASSUME NEW kind \in Kinds, NEW n \in Node
      PROVE  Channel(bus'[n], rx'[n], tx'[Peer(n)], bus'[Peer(n)],
                     LatestOf(delivered'[n]), handed'[n], kind)
  <2>1. Peer(n) \in Node
    BY Peers
  <2>2. Channel(<<>>, rx[n], tx[Peer(n)], <<>>, LatestOf(delivered[n]), handed[n], kind)
    BY <1>1, <2>1 DEF ChannelInv, ChannelsOf
  <2>3. Channel(<<>>, rx'[n], tx'[Peer(n)], <<>>, LatestOf(delivered[n]), handed[n], kind)
    BY <1>2, <1>3, <2>1, <2>2, TickChannel
  <2> QED
    BY <1>1, <2>1, <2>3
<1>6. Kinds' = Kinds
  BY <1>1 DEF Kinds
<1>7. ASSUME NEW kind \in Kinds PROVE ChannelsOf(kind)'
  BY <1>1, <1>5, <1>7 DEF ChannelInv, ChannelsOf
<1> QED
  BY <1>4, <1>6, <1>7 DEF ChannelInv

\* A frame is lost.
LEMMA LoseStep ==
  ASSUME TransportTypeOK, ChannelInv, NEW n \in Node, Lose(n)
  PROVE  TransportTypeOK' /\ ChannelInv'
<1> DEFINE m == Peer(n)
<1>1. /\ lost' = TRUE /\ faults' = faults + 1 /\ bus[n] # <<>>
      /\ bus' = [bus EXCEPT ![n] = Tail(@)]
      /\ mode' = mode /\ rx' = rx /\ tx' = tx /\ ran' = ran
      /\ handed' = handed /\ refused' = refused /\ delivered' = delivered
  BY DEF Lose, Fault
<1>2. m \in Node /\ m # n /\ Peer(m) = n /\ \A k \in Node : k = n \/ k = m
  BY Peers
<1>3. /\ bus[n] \in Seq(Frame) /\ bus[m] \in Seq(Frame) /\ rx[n] \in RxState
      /\ LatestOf(delivered[n]) \in Nat /\ handed[n] \in Nat
      /\ Tail(bus[n]) \in Seq(Frame)
  BY <1>1, <1>2, LatestAt, TailAt DEF TransportTypeOK
<1>4. bus'[n] = Tail(bus[n]) /\ bus'[m] = bus[m]
  BY <1>1, <1>2 DEF TransportTypeOK
<1>5. \A kind \in Kinds' : kind \in Kinds /\ kind \in {"lossy", "torn"}
  BY <1>1 DEF Kinds
<1>6. ASSUME NEW kind \in Kinds'
      PROVE  /\ Channel(Tail(bus[n]), rx[n], tx[m], bus[m],
                        LatestOf(delivered[n]), handed[n], kind)
             /\ Channel(bus[m], rx[m], tx[n], Tail(bus[n]),
                        LatestOf(delivered[m]), handed[m], kind)
  <2>1. ChannelsOf(kind) /\ kind \in {"lossy", "torn"}
    BY <1>5, <1>6 DEF ChannelInv
  <2>2. Channel(bus[n], rx[n], tx[m], bus[m], LatestOf(delivered[n]), handed[n], kind)
    BY <2>1 DEF ChannelsOf
  <2>3. Channel(bus[m], rx[m], tx[n], bus[n], LatestOf(delivered[m]), handed[m], kind)
    BY <1>2, <2>1 DEF ChannelsOf
  <2>4. /\ HasFC(Tail(bus[n])) => HasFC(bus[n])
        /\ OneFC(bus[n]) => OneFC(Tail(bus[n]))
    BY <1>1, <1>3, HasFCTail
  <2> HIDE DEF m
  <2>5. Channel(Tail(bus[n]), rx[n], tx[m], bus[m],
                LatestOf(delivered[n]), handed[n], kind)
    BY <1>1, <1>3, <2>1, <2>2, LostChannel
  <2>6. Channel(bus[m], rx[m], tx[n], Tail(bus[n]),
                LatestOf(delivered[m]), handed[m], kind)
    BY <2>3, <2>4, BackShrinks
  <2> QED
    BY <2>5, <2>6
<1>7. TransportTypeOK'
  <2>1. bus' \in [Node -> Seq(Frame)]
    BY <1>1, <1>3 DEF TransportTypeOK
  <2> QED
    BY <1>1, <2>1 DEF TransportTypeOK
<1>8. \A k \in Node : LatestOf(delivered'[k]) <= handed'[k]
  <2>1. "torn" \in Kinds
    BY DEF Kinds
  <2> QED
    BY <1>1, <2>1 DEF ChannelInv, ChannelsOf
<1>9. ASSUME NEW kind \in Kinds' PROVE ChannelsOf(kind)'
  <2>1. /\ Channel(bus'[n], rx'[n], tx'[m], bus'[m],
                   LatestOf(delivered'[n]), handed'[n], kind)
        /\ Channel(bus'[m], rx'[m], tx'[n], bus'[n],
                   LatestOf(delivered'[m]), handed'[m], kind)
    BY <1>1, <1>4, <1>6, <1>9
  <2> QED
    BY <1>2, <1>8, <2>1 DEF ChannelsOf
<1> QED
  BY <1>7, <1>9 DEF ChannelInv

\* Another ECU sends flow control.
LEMMA ForeignStep ==
  ASSUME TransportTypeOK, ChannelInv, NEW n \in Node, ForeignFlowControl(n)
  PROVE  TransportTypeOK' /\ ChannelInv'
<1> DEFINE m == Peer(n)
<1>1. PICK fs \in {"wait", "overflow"} :
        bus' = [bus EXCEPT ![n] = Append(@, FlowControl(fs, 0, 0))]
  BY DEF ForeignFlowControl
<1> DEFINE f == FlowControl(fs, 0, 0)
<1>2. /\ "foreign" \in mode /\ faults' = faults + 1
      /\ mode' = mode /\ rx' = rx /\ tx' = tx /\ ran' = ran
      /\ handed' = handed /\ refused' = refused /\ delivered' = delivered /\ lost' = lost
  BY DEF ForeignFlowControl, Fault
<1>3. f \in Frame /\ f.type = "FC"
  BY DEF FlowControl, Frame
<1>4. m \in Node /\ m # n /\ Peer(m) = n /\ \A k \in Node : k = n \/ k = m
  BY Peers
<1>5. bus[n] \in Seq(Frame) /\ bus' = [bus EXCEPT ![n] = Append(@, f)]
  BY <1>1 DEF TransportTypeOK
<1> HIDE DEF f
<1>6. Append(bus[n], f) \in Seq(Frame)
  BY <1>3, <1>5, AppendAt
<1>7. bus'[n] = Append(bus[n], f) /\ bus'[m] = bus[m]
  BY <1>4, <1>5 DEF TransportTypeOK
<1>8. Kinds' = Kinds /\ "lossy" \notin Kinds /\ "torn" \in Kinds
  BY <1>2 DEF Kinds
<1>9. ASSUME NEW kind \in Kinds
      PROVE  /\ Channel(Append(bus[n], f), rx[n], tx[m], bus[m],
                        LatestOf(delivered[n]), handed[n], kind)
             /\ Channel(bus[m], rx[m], tx[n], Append(bus[n], f),
                        LatestOf(delivered[m]), handed[m], kind)
  <2>1. ChannelsOf(kind) /\ kind # "lossy"
    BY <1>8, <1>9 DEF ChannelInv
  <2>2. Channel(bus[n], rx[n], tx[m], bus[m], LatestOf(delivered[n]), handed[n], kind)
    BY <2>1 DEF ChannelsOf
  <2>3. Channel(bus[m], rx[m], tx[n], bus[n], LatestOf(delivered[m]), handed[m], kind)
    BY <1>4, <2>1 DEF ChannelsOf
  <2> HIDE DEF m
  <2>4. Channel(Append(bus[n], f), rx[n], tx[m], bus[m],
                LatestOf(delivered[n]), handed[n], kind)
    BY <1>3, <1>5, <2>2, FlowChannel
  <2>5. Channel(bus[m], rx[m], tx[n], Append(bus[n], f),
                LatestOf(delivered[m]), handed[m], kind)
    BY <2>1, <2>3, BackShrinks
  <2> QED
    BY <2>4, <2>5
<1>10. TransportTypeOK'
  <2>1. bus' \in [Node -> Seq(Frame)]
    BY <1>5, <1>6 DEF TransportTypeOK
  <2> QED
    BY <1>2, <2>1 DEF TransportTypeOK
<1>11. \A k \in Node : LatestOf(delivered'[k]) <= handed'[k]
  BY <1>2, <1>8 DEF ChannelInv, ChannelsOf
<1>12. ASSUME NEW kind \in Kinds PROVE ChannelsOf(kind)'
  <2>1. /\ Channel(bus'[n], rx'[n], tx'[m], bus'[m],
                   LatestOf(delivered'[n]), handed'[n], kind)
        /\ Channel(bus'[m], rx'[m], tx'[n], bus'[n],
                   LatestOf(delivered'[m]), handed'[m], kind)
    BY <1>2, <1>7, <1>9, <1>12
  <2> QED
    BY <1>4, <1>11, <2>1 DEF ChannelsOf
<1> QED
  BY <1>8, <1>10, <1>12 DEF ChannelInv

LEMMA TransportStep ==
  ASSUME TransportTypeOK, ChannelInv, [TransportNext]_transport_vars
  PROVE  TransportTypeOK' /\ ChannelInv'
<1>1. CASE UNCHANGED transport_vars
  <2>1. Kinds' = Kinds
    BY <1>1 DEF transport_vars, Kinds
  <2>2. ASSUME NEW kind \in Kinds PROVE ChannelsOf(kind)'
    BY <1>1, <2>2 DEF transport_vars, ChannelInv, ChannelsOf
  <2> QED
    BY <1>1, <2>1, <2>2 DEF transport_vars, TransportTypeOK, ChannelInv
<1>2. CASE Tick
  BY <1>2, TickStep
<1>3. ASSUME NEW n \in Node, Process(n) PROVE TransportTypeOK' /\ ChannelInv'
  BY <1>3, ProcessStep
<1>4. ASSUME NEW n \in Node, Lose(n) PROVE TransportTypeOK' /\ ChannelInv'
  BY <1>4, LoseStep
<1>5. ASSUME NEW n \in Node, ForeignFlowControl(n)
      PROVE  TransportTypeOK' /\ ChannelInv'
  BY <1>5, ForeignStep
<1> QED
  BY <1>1, <1>2, <1>3, <1>4, <1>5 DEF TransportNext

(* The states of the two codecs, the frames on the bus and the PDUs are of  *)
(* their types, and a channel - the frames under way, the reassembly at its *)
(* end and the transmission at its beginning - is consistent: what          *)
(* handle_rx, start_tx, tx_next_frame and the timers keep among themselves. *)
THEOREM TransportConsistent == TransportSpec => [](TransportTypeOK /\ ChannelInv)
<1>1. TransportInit => TransportTypeOK /\ ChannelInv
  BY TypeInit, ChannelInit
<1>2. TransportTypeOK /\ ChannelInv /\ [TransportNext]_transport_vars =>
        (TransportTypeOK /\ ChannelInv)'
  BY TransportStep
<1> QED
  BY <1>1, <1>2, PTL DEF TransportSpec

LEMMA PduStep ==
  ASSUME TransportTypeOK, ChannelInv, [TransportNext]_transport_vars
  PROVE  [PC!PCNext]_(PC!pc_vars)
<1>1. ASSUME NEW n \in Node, Process(n) PROVE PC!PCNext
  <2>1. Peer(n) \in Node
    BY Peers
  <2>2. /\ handed' = handed \/ handed' = [handed EXCEPT ![Peer(n)] = @ + 1]
        /\ \A kind \in Kinds : PutsOut(n, kind)
    BY <1>1, ProcessStep
  <2>3. mode' = mode /\ lost' = lost
    BY <1>1 DEF Process
  <2>4. PC!Latest(n) = LatestOf(delivered[n])
    BY DEF LatestOf, PC!Latest
  <2>5. PC!HandOver(Peer(n)) \/ UNCHANGED handed
    BY <2>2 DEF PC!HandOver
  <2>6. PICK kind \in Kinds : kind = "torn" => MayMix
    BY DEF Kinds, MayMix
  <2>7. PC!Deliver(n) \/ UNCHANGED delivered
    <3>1. PutsOut(n, kind)
      BY <2>2
    <3>2. ASSUME NEW e \in Int,
                 ComesOut(LatestOf(delivered[n]), handed[n], kind, e),
                 delivered' = [delivered EXCEPT ![n] = Append(@, e)]
          PROVE  PC!Deliver(n)
      BY <2>4, <2>6, <3>2 DEF ComesOut, PC!Deliver
    <3> QED
      BY <3>1, <3>2 DEF PutsOut
  <2>8. MayMix => MayMix'
    BY <2>3 DEF MayMix
  <2> QED
    BY <2>1, <2>5, <2>7, <2>8 DEF PC!PCNext
<1>2. CASE UNCHANGED transport_vars
  BY <1>2 DEF transport_vars, PC!pc_vars, MayMix
<1>3. ASSUME UNCHANGED <<handed, delivered>>, MayMix => MayMix'
      PROVE  PC!PCNext
  BY <1>3, Peers DEF PC!PCNext, Node
<1>4. CASE Tick
  BY <1>3, <1>4 DEF Tick, MayMix
<1>5. ASSUME NEW n \in Node, Lose(n) PROVE PC!PCNext
  BY <1>3, <1>5 DEF Lose, MayMix
<1>6. ASSUME NEW n \in Node, ForeignFlowControl(n) PROVE PC!PCNext
  BY <1>3, <1>6 DEF ForeignFlowControl, MayMix
<1> QED
  BY <1>1, <1>2, <1>4, <1>5, <1>6 DEF TransportNext

(* Whatever the sizes of the PDUs, the timers and the block size are,       *)
(* whichever of the things that may go wrong do so together, and however    *)
(* many frames the bus loses: PDUs come out once and in the order they were *)
(* handed over, and whole - the PDU that began is the one that comes out -  *)
(* unless frames were lost where a codec is given a PDU before it is done   *)
(* with the one before, or where another ECU sends flow control.  No step   *)
(* of process(), of the bus or of the clock does more than PduChannel       *)
(* allows.                                                                  *)
THEOREM PduRefinement == TransportSpec => ImplementsPduChannel
<1>1. TransportInit => PC!PCInit
  BY DEF TransportInit, PC!PCInit, MayMix
<1>2. TransportTypeOK /\ ChannelInv /\ [TransportNext]_transport_vars =>
        [PC!PCNext]_(PC!pc_vars)
  BY PduStep
<1> QED
  BY <1>1, <1>2, TransportConsistent, PTL
     DEF TransportSpec, ImplementsPduChannel, PC!PCSpec
=============================================================================
