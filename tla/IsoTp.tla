------------------------------- MODULE IsoTp -------------------------------
(***************************************************************************)
(* cu_isotp: the codec that sends a PDU as one CAN frame, or as a first    *)
(* frame and consecutive frames under flow control, and puts received      *)
(* frames together again.  Two codecs face each other on a bus.            *)
(*                                                                         *)
(* A chunk is what one frame carries of a PDU: <<pdu, index>>.  Timestamps *)
(* are kept as ages, which stop growing where nothing depends on them any  *)
(* more.  The unit of time is longer than a frame takes on the bus and     *)
(* than a cycle of the runtime that calls process().                       *)
(***************************************************************************)
EXTENDS Integers, Sequences, SequencesExt

CONSTANTS
  BlockSize,     \* fc_params.block_size under "blocks"; otherwise 0, no limit
  StMin,         \* fc_params.st_min
  NBs, NCr,      \* timeouts waiting for flow control, for the next frame
  NWftMax,       \* wait frames before giving up
  Sizes,         \* how many chunks a PDU may have
  Modes,         \* what may go wrong, together: see mode
  MaxPdus,       \* bound: node -> PDUs handed over for it
  MaxFaults      \* bound: lost frames and foreign flow control

ASSUME IsoTpAssumption ==
  /\ BlockSize \in Nat /\ StMin \in Nat /\ NBs \in Nat /\ NCr \in Nat
  /\ NWftMax \in Nat \ {0} /\ Sizes \subseteq Nat \ {0}
  /\ Modes \subseteq SUBSET {"overlap", "lossy", "foreign", "blocks"}
  /\ MaxPdus \in [{"tester", "ecu"} -> Nat] /\ MaxFaults \in Nat

Node == {"tester", "ecu"}
Peer(n) == IF n = "tester" THEN "ecu" ELSE "tester"

VARIABLES
  mode,       \* a set of: "overlap": PDUs come while one is being sent;
              \* "lossy": the bus loses frames; "foreign": others send flow
              \* control as well; "blocks": the codecs ask for blocks of
              \* BlockSize frames
  rx, tx,     \* node -> RxState, TxState
  bus,        \* node -> frames on their way to it
  faults,     \* how many there were
  ran,        \* whose process() was called in the present unit of time
  \* history
  handed,     \* node -> PDUs handed to its peer's codec, to be sent to it
  refused,    \* node -> those its peer's codec took no notice of
  lost,       \* whether a frame was lost
  delivered   \* node -> PDUs its codec put out: -p is one that began with the
              \* first frame of p and is not the chunks of p

transport_vars ==
  <<mode, rx, tx, bus, faults, ran, handed, refused, lost, delivered>>

RxIdle == [receiving |-> FALSE, expected_len |-> 0, buffer |-> <<>>,
           next_sn |-> 0, age |-> 0]
TxIdle == [sending |-> FALSE, pdu |-> 0, total_len |-> 0, offset |-> 0,
           next_sn |-> 0, block_remaining |-> 0, bs |-> 0,
           waiting_fc |-> FALSE, stmin |-> 0, cf_age |-> 0, fc_age |-> 0,
           wait_fc_count |-> 0]

TransportInit ==
  /\ mode \in Modes
  /\ rx = [n \in Node |-> RxIdle] /\ tx = [n \in Node |-> TxIdle]
  /\ bus = [n \in Node |-> <<>>] /\ faults = 0 /\ ran = {}
  /\ handed = [n \in Node |-> 0] /\ refused = [n \in Node |-> {}]
  /\ lost = FALSE /\ delivered = [n \in Node |-> <<>>]

----------------------------------------------------------------------------
(* Frames. *)

SingleFrame(p) == [type |-> "SF", chunk |-> <<p, 1>>]
FirstFrame(p, size) == [type |-> "FF", len |-> size, chunk |-> <<p, 1>>]
ConsecutiveFrame(p, k, sn) == [type |-> "CF", sn |-> sn % 16, chunk |-> <<p, k>>]
FlowControl(fs, bs, st) == [type |-> "FC", fs |-> fs, bs |-> bs, st |-> st]

\* The chunks of a PDU, and what a buffer of chunks is worth.
Chunks(p, size) == [k \in 1..size |-> <<p, k>>]
Assembled(buffer) ==
  LET p == buffer[1][1] IN
  IF buffer = Chunks(p, Len(buffer)) THEN p ELSE -p

----------------------------------------------------------------------------
(* handle_rx: what a frame does to the two state machines, and what comes   *)
(* out: the PDU (a sequence of at most one) and whether flow control is due.*)

Result(r, t, pdus, fc) == [rx |-> r, tx |-> t, pdus |-> pdus, fc |-> fc]

\* A single frame ends the reassembly it interrupts.
OnSingle_kept(frame, r, t) == Result(r, t, <<frame.chunk[1]>>, FALSE)
OnSingle(frame, r, t) == Result(RxIdle, t, <<frame.chunk[1]>>, FALSE)

OnFirst(frame, r, t) ==
  Result([receiving |-> TRUE, expected_len |-> frame.len,
          buffer |-> <<frame.chunk>>, next_sn |-> 1, age |-> 0],
         t, <<>>, TRUE)

in_sequence_from_zero(frame, r) == frame.sn = (r.next_sn - 1) % 16
in_sequence(frame, r) == frame.sn = r.next_sn % 16

OnConsecutive(frame, r, t) ==
  LET buffer == Append(r.buffer, frame.chunk) IN
  IF ~r.receiving THEN Result(r, t, <<>>, FALSE)
  ELSE IF ~in_sequence(frame, r) THEN Result(RxIdle, t, <<>>, FALSE)
  ELSE IF Len(buffer) >= r.expected_len
    THEN Result(RxIdle, t, <<Assembled(buffer)>>, FALSE)
  ELSE Result([r EXCEPT !.buffer = buffer, !.next_sn = @ + 1, !.age = 0],
              t, <<>>, FALSE)

ClearToSend(frame, t) ==
  [t EXCEPT !.waiting_fc = FALSE, !.bs = frame.bs,
            !.block_remaining = frame.bs, !.stmin = frame.st, !.cf_age = 0,
            !.wait_fc_count = 0]

WaitMore(t) ==
  IF t.wait_fc_count + 1 >= NWftMax THEN TxIdle
  ELSE [t EXCEPT !.fc_age = 0, !.wait_fc_count = @ + 1]

OnFlowControl(frame, r, t) ==
  Result(r, CASE ~t.sending -> t
              [] t.sending /\ frame.fs = "continue" -> ClearToSend(frame, t)
              [] t.sending /\ frame.fs = "wait" -> WaitMore(t)
              [] t.sending /\ frame.fs = "overflow" -> TxIdle,
         <<>>, FALSE)

HandleRx(frame, r, t) ==
  CASE frame.type = "SF" -> OnSingle(frame, r, t)
    [] frame.type = "FF" -> OnFirst(frame, r, t)
    [] frame.type = "CF" -> OnConsecutive(frame, r, t)
    [] frame.type = "FC" -> OnFlowControl(frame, r, t)

----------------------------------------------------------------------------
(* start_tx and tx_next_frame: the state machine and the frames (at most    *)
(* one) that come out.                                                      *)

StartTx(p, size, t) ==
  IF size = 1 THEN [tx |-> t, out |-> <<SingleFrame(p)>>]
  ELSE [tx |-> [TxIdle EXCEPT !.sending = TRUE, !.pdu = p, !.total_len = size,
                              !.offset = 1, !.next_sn = 1, !.waiting_fc = TRUE],
        out |-> <<FirstFrame(p, size)>>]

\* One more consecutive frame; at the end of a block flow control is due.
SendNext(t) ==
  LET left == IF t.block_remaining > 0 THEN t.block_remaining - 1 ELSE 0
      sent == [t EXCEPT !.offset = @ + 1, !.next_sn = (@ + 1) % 256,
                        !.cf_age = 0]
  IN  IF t.bs = 0 THEN sent
      ELSE IF left = 0 /\ sent.offset < t.total_len
        THEN [sent EXCEPT !.waiting_fc = TRUE, !.block_remaining = t.bs]
      ELSE [sent EXCEPT !.block_remaining = left]

TxNextFrame(t) ==
  IF ~t.sending \/ t.waiting_fc THEN [tx |-> t, out |-> <<>>]
  ELSE IF t.offset >= t.total_len THEN [tx |-> TxIdle, out |-> <<>>]
  ELSE IF t.stmin > 0 /\ t.cf_age < t.stmin THEN [tx |-> t, out |-> <<>>]
  ELSE [tx |-> SendNext(t),
        out |-> <<ConsecutiveFrame(t.pdu, t.offset + 1, t.next_sn)>>]

----------------------------------------------------------------------------
(* process(): timers, a frame, a PDU to send; one frame may go out.         *)

RxTimeout_never(r) == r
RxTimeout(r) == IF r.receiving /\ r.age > NCr THEN RxIdle ELSE r

TxTimeout_never(t) == t
TxTimeout(t) ==
  IF t.sending /\ t.waiting_fc /\ t.fc_age > NBs THEN TxIdle ELSE t

\* The PDUs the upper layer may hand over: their sizes, or none.
Offers(n) ==
  IF handed[Peer(n)] < MaxPdus[Peer(n)] /\ ("overlap" \in mode \/ ~tx[n].sending)
    THEN {0} \cup Sizes ELSE {0}

block_size == IF "blocks" \in mode THEN BlockSize ELSE 0

\* Flow control takes the only output: a PDU of the same cycle is not kept.
Codec(n, h, size) ==
  LET p == handed[Peer(n)] + 1
      sent == CASE h.fc -> [tx |-> h.tx,
                            out |-> <<FlowControl("continue", block_size, StMin)>>]
                [] ~h.fc /\ size > 0 -> StartTx(p, size, h.tx)
                [] ~h.fc /\ size = 0 -> TxNextFrame(h.tx)
  IN  /\ rx' = [rx EXCEPT ![n] = h.rx]
      /\ tx' = [tx EXCEPT ![n] = sent.tx]
      /\ delivered' = [delivered EXCEPT ![n] = @ \o h.pdus]
      /\ handed' = [handed EXCEPT ![Peer(n)] = @ + (IF size > 0 THEN 1 ELSE 0)]
      /\ refused' = [refused EXCEPT ![Peer(n)] =
                       @ \cup (IF h.fc /\ size > 0 THEN {p} ELSE {})]
      /\ bus' = [bus EXCEPT ![n] = IF @ = <<>> THEN @ ELSE Tail(@),
                            ![Peer(n)] = @ \o sent.out]

Process(n) ==
  LET r == RxTimeout(rx[n])
      t == TxTimeout(tx[n])
      h == IF bus[n] = <<>> THEN Result(r, t, <<>>, FALSE)
           ELSE HandleRx(Head(bus[n]), r, t)
  IN  \E size \in Offers(n) : Codec(n, h, size)
      /\ ran' = ran \cup {n} /\ UNCHANGED <<mode, faults, lost>>

----------------------------------------------------------------------------
(* The bus and the clock.                                                   *)

Fault(kind) == kind \in mode /\ faults < MaxFaults /\ faults' = faults + 1

Lose(n) ==
  /\ Fault("lossy") /\ bus[n] # <<>>
  /\ bus' = [bus EXCEPT ![n] = Tail(@)] /\ lost' = TRUE
  /\ UNCHANGED <<mode, rx, tx, ran, handed, refused, delivered>>

\* An ECU of another make asks for time, or has no room.
ForeignFlowControl(n) ==
  /\ Fault("foreign") /\ tx[n].waiting_fc
  /\ \E fs \in {"wait", "overflow"} :
       bus' = [bus EXCEPT ![n] = Append(@, FlowControl(fs, 0, 0))]
  /\ UNCHANGED <<mode, rx, tx, ran, handed, refused, lost, delivered>>

Older(age, limit) == IF age > limit THEN age ELSE age + 1

Tick ==
  /\ ran = Node /\ ran' = {} /\ \A n \in Node : bus[n] = <<>>
  /\ rx' = [n \in Node |-> IF rx[n].receiving
              THEN [rx[n] EXCEPT !.age = Older(@, NCr)] ELSE rx[n]]
  /\ tx' = [n \in Node |-> IF tx[n].sending
              THEN [tx[n] EXCEPT !.fc_age = Older(@, NBs),
                                 !.cf_age = Older(@, StMin)] ELSE tx[n]]
  /\ UNCHANGED <<mode, bus, faults, handed, refused, lost, delivered>>

TransportNext ==
  \/ Tick
  \/ \E n \in Node : Process(n) \/ Lose(n) \/ ForeignFlowControl(n)

TransportSpec == TransportInit /\ [][TransportNext]_transport_vars

TransportFairness ==
  WF_transport_vars(Tick) /\ \A n \in Node : WF_transport_vars(Process(n))

----------------------------------------------------------------------------
(* Properties. *)

\* Flow control may meet another PDU than the one it answers, whose first
\* frame was lost: the sender gave up the one that was answered for a new one,
\* or because another ECU told it to.
MayMix == lost /\ mode \cap {"overlap", "foreign"} # {}

(* PDUs come out once and in the order they were handed over, whatever is   *)
(* lost, handed over too early or answered by others.  A PDU comes out      *)
(* whole when no frame was lost, and when frames are lost but every PDU is  *)
(* handed to a codec that is done with the one before, without flow control *)
(* by others.  Where both happen the code does put out mixtures.            *)
PC == INSTANCE PduChannel WITH torn <- MayMix
ImplementsPduChannel == PC!PCSpec

(* On a bus that loses nothing, and without blocks, a PDU handed to an idle *)
(* codec arrives, or met a first frame in the cycle it came.                *)
PdusArrive ==
  \A n \in Node : \A p \in 1..MaxPdus[n] :
    (mode = {} /\ handed[n] >= p)
      ~> (p \in refused[n] \cup ToSet(delivered[n]))

(* No codec waits without end for flow control or for the next frame:      *)
(* again and again its transmission and its reassembly are over, whatever  *)
(* was lost.                                                               *)
WaitsEnd ==
  \A n \in Node : []<>(~tx[n].sending) /\ []<>(~rx[n].receiving)
=============================================================================
