----------------------------- MODULE Uds_proofs -----------------------------
(***************************************************************************)
(* Proofs about Uds, for every queue, table, timeout and set of data       *)
(* identifiers: types, the order of the queue, the table, the match of     *)
(* responses with requests, and when a session ends.                       *)
(***************************************************************************)
EXTENDS Uds, SequenceTheorems, TLAPS

LEMMA StampType == Stamp \in Timestamp
BY DEF Stamp, Timestamp

LEMMA AgedType ==
  ASSUME NEW s \in Timestamp, NEW timeout \in Nat
  PROVE  Aged(s, timeout) \in Timestamp
BY DEF Aged, Timestamp

LEMMA ServiceFields ==
  ASSUME NEW s \in Service
  PROVE  /\ s.sid \in {"session", "reset", "present", "other", "write"}
         /\ s.sid = "session" => s.sub \in Session
         /\ s.sid = "write" => s.did \in Did /\ s.value \in Value
BY DEF Service

----------------------------------------------------------------------------
(* Type correctness. *)

LEMMA ClientTypes ==
  ASSUME UdsTypeOK, Client
  PROVE  UdsTypeOK'
<1> USE UdsAssumption DEF UdsTypeOK
<1>1. /\ UNCHANGED <<time, made, session_type, last_request, did_table>>
      /\ responses' \in Seq(Nat)
  <2>1. responses # <<>> => Tail(responses) \in Seq(Nat)
    BY HeadTailProperties
  <2> QED
    BY <2>1 DEF Client, server_vars
<1>2. PICK came \in BOOLEAN : ClientCycle(came)
  BY DEF Client
<1>3. given_up' \in BOOLEAN
  BY <1>2 DEF ClientCycle, P2Expired, Expired, Timestamp
<1>4. CASE MaySend(awaiting /\ ~came) /\ queue # <<>>
  <2>1. /\ requests' = Append(requests, Head(queue)) /\ queue' = Tail(queue)
        /\ sent' = Head(queue).id /\ awaiting' = TRUE /\ request_sent' = Stamp
    BY <1>2, <1>4 DEF ClientCycle
  <2>2. /\ Head(queue) \in Request /\ Tail(queue) \in Seq(Request)
        /\ Len(Tail(queue)) = Len(queue) - 1
    BY <1>4, HeadTailProperties
  <2>3. requests' \in Seq(Request)
    BY <2>1, <2>2
  <2>4. sent' \in Nat
    BY <2>1, <2>2 DEF Request
  <2>5. queue' \in Seq(Request) /\ Len(queue') < MaxPending
    BY <2>1, <2>2
  <2> QED
    BY <1>1, <1>3, <2>1, <2>3, <2>4, <2>5, StampType
<1>5. CASE ~(MaySend(awaiting /\ ~came) /\ queue # <<>>)
  <2>1. /\ UNCHANGED <<requests, queue, sent, request_sent>>
        /\ awaiting' = ~MaySend(awaiting /\ ~came)
    BY <1>2, <1>5 DEF ClientCycle
  <2> QED
    BY <1>1, <1>3, <2>1
<1> QED
  BY <1>4, <1>5

LEMMA TableWritten ==
  ASSUME UdsTypeOK, NEW session, NEW s \in Service, s.sid = "write",
         handle_write_did(session, s)
  PROVE  did_table' \in Seq([did : Did, value : Value])
<1> DEFINE E == [did : Did, value : Value]
<1>1. Entry(s) \in E
  BY ServiceFields DEF Entry
<1>2. CASE ~CanWrite(session, s)
  BY <1>2 DEF handle_write_did, UdsTypeOK
<1>3. CASE CanWrite(session, s) /\ Known(s.did)
  <2>1. did_table' = [k \in DOMAIN did_table |->
          IF did_table[k].did = s.did THEN Entry(s) ELSE did_table[k]]
    BY <1>3 DEF handle_write_did
  <2>2. did_table \in Seq(E) /\ DOMAIN did_table = 1..Len(did_table)
        /\ Len(did_table) \in Nat
    BY DEF UdsTypeOK
  <2>3. ASSUME NEW k \in 1..Len(did_table)
        PROVE  did_table[k] \in E
    BY <2>2, ElementOfSeq
  <2>4. did_table' \in [1..Len(did_table) -> E]
    BY <1>1, <2>1, <2>2, <2>3
  <2> QED
    BY <2>2, <2>4
<1>4. CASE CanWrite(session, s) /\ ~Known(s.did)
  <2>1. did_table' = Append(did_table, Entry(s))
    BY <1>4 DEF handle_write_did
  <2> QED
    BY <1>1, <2>1 DEF UdsTypeOK
<1> QED
  BY <1>2, <1>3, <1>4

LEMMA ServerTypes ==
  ASSUME UdsTypeOK, Server
  PROVE  UdsTypeOK'
<1>1. UNCHANGED <<time, made, queue, awaiting, request_sent, sent, given_up>>
  BY DEF Server, client_vars
<1>2. S3Session \in Session
  BY DEF S3Session, UdsTypeOK, Session
<1>3. CASE requests = <<>>
  <2>1. /\ session_type' = S3Session
        /\ UNCHANGED <<last_request, did_table, requests, responses>>
    BY <1>3 DEF Server
  <2> QED
    BY <1>1, <1>2, <2>1 DEF UdsTypeOK
<1>4. CASE requests # <<>>
  <2> DEFINE q == Head(requests)
  <2>1. Handle(S3Session, q) /\ requests' = Tail(requests)
    BY <1>4 DEF Server
  <2>2. q \in Request /\ q.service \in Service /\ q.id \in Nat
    <3>1. q \in Request
      BY <1>4, HeadTailProperties DEF UdsTypeOK
    <3> QED
      BY <3>1 DEF Request
  <2>3. requests' \in Seq(Request)
    BY <1>4, <2>1, HeadTailProperties DEF UdsTypeOK
  <2>4. last_request' \in Timestamp
    BY <2>1, StampType DEF Handle
  <2>5. session_type' \in Session
    BY <1>2, <2>1, <2>2, ServiceFields DEF Handle, SessionAfter, Session
  <2>6. did_table' \in Seq([did : Did, value : Value])
    BY <2>1, <2>2, TableWritten DEF Handle, UdsTypeOK
  <2>7. responses' \in Seq(Nat)
    <3>1. responses' = responses \/ responses' = Append(responses, q.id)
      BY <2>1 DEF Handle
    <3>2. responses \in Seq(Nat)
      BY DEF UdsTypeOK
    <3> HIDE DEF q
    <3> QED
      BY <2>2, <3>1, <3>2, AppendProperties
  <2> QED
    BY <1>1, <2>3, <2>4, <2>5, <2>6, <2>7 DEF UdsTypeOK
<1> QED
  BY <1>3, <1>4

LEMMA EnqueueTypes ==
  ASSUME UdsTypeOK, Enqueue
  PROVE  UdsTypeOK'
<1>1. PICK service \in Service :
        queue' = Append(queue, [id |-> made + 1, service |-> service])
  BY DEF Enqueue
<1>2. [id |-> made + 1, service |-> service] \in Request
  BY DEF Request, UdsTypeOK
<1>3. queue' \in Seq(Request) /\ Len(queue') = Len(queue) + 1
  BY <1>1, <1>2 DEF UdsTypeOK
<1>4. Len(queue') < MaxPending
  BY <1>3, UdsAssumption DEF Enqueue, UdsTypeOK
<1> QED
  BY <1>3, <1>4 DEF Enqueue, server_vars, UdsTypeOK

LEMMA TypeStep == UdsTypeOK /\ [UdsNext]_uds_vars => UdsTypeOK'
<1> SUFFICES ASSUME UdsTypeOK, [UdsNext]_uds_vars PROVE UdsTypeOK'
  OBVIOUS
<1>1. CASE Enqueue
  BY <1>1, EnqueueTypes
<1>2. CASE Client
  BY <1>2, ClientTypes
<1>3. CASE Server
  BY <1>3, ServerTypes
<1>4. CASE LoseRequest \/ LoseResponse
  <2>1. requests # <<>> => Tail(requests) \in Seq(Request)
    BY HeadTailProperties DEF UdsTypeOK
  <2>2. responses # <<>> => Tail(responses) \in Seq(Nat)
    BY HeadTailProperties DEF UdsTypeOK
  <2> QED
    BY <1>4, <2>1, <2>2
       DEF LoseRequest, LoseResponse, client_vars, server_vars, UdsTypeOK
<1>5. CASE UdsTick
  <2>1. request_sent' \in Timestamp /\ last_request' \in Timestamp
    BY <1>5, AgedType, UdsAssumption DEF UdsTick, UdsTypeOK
  <2> QED
    BY <1>5, <2>1 DEF UdsTick, UdsTypeOK
<1>6. CASE UNCHANGED uds_vars
  BY <1>6 DEF uds_vars, UdsTypeOK
<1> QED
  BY <1>1, <1>2, <1>3, <1>4, <1>5, <1>6 DEF UdsNext

LEMMA TypeInit == UdsInit => UdsTypeOK
<1> SUFFICES ASSUME UdsInit PROVE UdsTypeOK
  OBVIOUS
<1>1. Len(queue) < MaxPending
  BY UdsAssumption DEF UdsInit
<1>2. <<>> \in Seq(Request) /\ <<>> \in Seq(Nat)
  BY EmptySeq
<1>3. "default" \in Session
  BY DEF Session
<1>4. did_table \in Seq([did : Did, value : Value])
  BY UdsAssumption DEF UdsInit
<1> QED
  BY <1>1, <1>2, <1>3, <1>4, StampType DEF UdsInit, UdsTypeOK

(* Type correctness of both ends: the client's ring keeps one place empty,  *)
(* and the server's session is always one of the three.                     *)
THEOREM TypeCorrect == UdsSpec => []UdsTypeOK
BY TypeInit, TypeStep, PTL DEF UdsSpec

----------------------------------------------------------------------------
(* The queue, the table. *)

LEMMA QueueStep ==
  UdsTypeOK /\ QueueInOrder /\ [UdsNext]_uds_vars => QueueInOrder'
<1> SUFFICES ASSUME UdsTypeOK, QueueInOrder, [UdsNext]_uds_vars
             PROVE  QueueInOrder'
  OBVIOUS
<1>0. /\ queue \in Seq(Request) /\ sent \in Nat /\ made \in Nat
      /\ Len(queue) \in Nat /\ DOMAIN queue = 1..Len(queue)
      /\ sent + Len(queue) = made
      /\ \A k \in DOMAIN queue : queue[k].id = sent + k
  BY LenProperties DEF UdsTypeOK, QueueInOrder
<1>1. CASE Enqueue
  <2>1. PICK service \in Service :
          queue' = Append(queue, [id |-> made + 1, service |-> service])
    BY <1>1 DEF Enqueue
  <2>2. made' = made + 1 /\ sent' = sent
    BY <1>1 DEF Enqueue
  <2>3. [id |-> made + 1, service |-> service] \in Request
    BY <1>0 DEF Request
  <2>4. /\ DOMAIN queue' = 1..(Len(queue) + 1) /\ Len(queue') = Len(queue) + 1
        /\ \A k \in 1..Len(queue) : queue'[k] = queue[k]
        /\ queue'[Len(queue) + 1].id = made + 1
    BY <1>0, <2>1, <2>3, AppendProperties
  <2>5. ASSUME NEW k \in DOMAIN queue' PROVE queue'[k].id = sent + k
    <3>1. CASE k \in 1..Len(queue)
      BY <1>0, <2>4, <3>1
    <3>2. CASE k = Len(queue) + 1
      <4>1. made + 1 = sent + k
        BY <1>0, <3>2
      <4> QED
        BY <2>4, <3>2, <4>1
    <3> QED
      BY <2>4, <3>1, <3>2
  <2>6. sent' + Len(queue') = made'
    BY <1>0, <2>2, <2>4
  <2> QED
    BY <2>2, <2>5, <2>6 DEF QueueInOrder
<1>2. CASE UNCHANGED <<queue, sent, made>>
  BY <1>2 DEF QueueInOrder
<1>3. CASE Client /\ ~UNCHANGED <<queue, sent>>
  <2>1. made' = made
    BY <1>3 DEF Client
  <2>2. queue # <<>> /\ queue' = Tail(queue) /\ sent' = Head(queue).id
    BY <1>3 DEF Client, ClientCycle
  <2>3. /\ Len(queue') = Len(queue) - 1 /\ queue' \in Seq(Request)
        /\ \A k \in 1..Len(queue') : queue'[k] = queue[k + 1]
    BY <1>0, <2>2, HeadTailProperties
  <2>4. 1 \in DOMAIN queue /\ sent' = sent + 1
    BY <1>0, <2>2, EmptySeq
  <2>5. ASSUME NEW k \in DOMAIN queue' PROVE queue'[k].id = sent' + k
    <3>1. k \in 1..Len(queue') /\ k + 1 \in DOMAIN queue
      BY <1>0, <2>3, LenProperties
    <3>2. queue'[k] = queue[k + 1] /\ queue[k + 1].id = sent + (k + 1)
      BY <1>0, <2>3, <3>1
    <3> QED
      BY <1>0, <2>3, <2>4, <3>1, <3>2
  <2>6. sent' + Len(queue') = made'
    BY <1>0, <2>1, <2>3, <2>4
  <2> QED
    BY <2>5, <2>6 DEF QueueInOrder
<1>4. CASE ~Enqueue /\ ~Client
  BY <1>2, <1>4 DEF UdsNext, Server, LoseRequest, LoseResponse, UdsTick,
                    client_vars, uds_vars
<1>5. Client => made' = made
  BY DEF Client
<1> QED
  BY <1>1, <1>2, <1>3, <1>4, <1>5

(* Requests are sent in the order they were made, none twice and none left   *)
(* out: the ring of the client is a queue.                                   *)
THEOREM QueueKept == UdsSpec => []QueueInOrder
<1>1. UdsInit => QueueInOrder
  BY DEF UdsInit, QueueInOrder
<1> QED
  BY <1>1, QueueStep, TypeCorrect, PTL DEF UdsSpec

LEMMA TableAfterWrite ==
  ASSUME UdsTypeOK, TableOK, NEW session, NEW s \in Service, s.sid = "write",
         handle_write_did(session, s)
  PROVE  TableOK'
<1>0. /\ did_table \in Seq([did : Did, value : Value])
      /\ TableSize \in Nat /\ Len(did_table) \in Nat
      /\ DOMAIN did_table = 1..Len(did_table)
  BY UdsAssumption DEF UdsTypeOK
<1>1. CASE ~CanWrite(session, s)
  BY <1>1 DEF handle_write_did, TableOK
<1>2. CASE CanWrite(session, s) /\ Known(s.did)
  <2>1. did_table' = [k \in DOMAIN did_table |->
          IF did_table[k].did = s.did THEN Entry(s) ELSE did_table[k]]
    BY <1>2 DEF handle_write_did
  <2>2. DOMAIN did_table' = DOMAIN did_table /\ Len(did_table') = Len(did_table)
    BY <1>0, <2>1
  <2>3. \A k \in DOMAIN did_table : did_table'[k].did = did_table[k].did
    BY <2>1 DEF Entry
  <2> QED
    BY <2>2, <2>3 DEF TableOK
<1>3. CASE CanWrite(session, s) /\ ~Known(s.did)
  <2>1. did_table' = Append(did_table, Entry(s)) /\ Len(did_table) < TableSize
    BY <1>3 DEF handle_write_did, CanWrite
  <2>2. Entry(s) \in [did : Did, value : Value] /\ Entry(s).did = s.did
    BY ServiceFields DEF Entry
  <2>3. /\ DOMAIN did_table' = 1..(Len(did_table) + 1)
        /\ Len(did_table') = Len(did_table) + 1
        /\ \A k \in 1..Len(did_table) : did_table'[k] = did_table[k]
        /\ did_table'[Len(did_table) + 1].did = s.did
    BY <1>0, <2>1, <2>2
  <2>4. \A k \in 1..Len(did_table) : did_table[k].did # s.did
    BY <1>0, <1>3 DEF Known
  <2> QED
    BY <1>0, <2>1, <2>3, <2>4 DEF TableOK
<1> QED
  BY <1>1, <1>2, <1>3

LEMMA TableStep == UdsTypeOK /\ TableOK /\ [UdsNext]_uds_vars => TableOK'
<1> SUFFICES ASSUME UdsTypeOK, TableOK, [UdsNext]_uds_vars PROVE TableOK'
  OBVIOUS
<1>1. CASE UNCHANGED did_table
  BY <1>1 DEF TableOK
<1>2. CASE Server /\ requests # <<>>
  <2> DEFINE s == Head(requests).service
  <2>1. s \in Service
    <3>1. Head(requests) \in Request
      BY <1>2, HeadTailProperties DEF UdsTypeOK
    <3> QED
      BY <3>1 DEF Request
  <2>2. Handle(S3Session, Head(requests))
    BY <1>2 DEF Server
  <2> QED
    BY <1>1, <2>1, <2>2, TableAfterWrite DEF Handle
<1>3. ~(Server /\ requests # <<>>) => UNCHANGED did_table
  BY DEF UdsNext, Enqueue, Client, Server, LoseRequest, LoseResponse, UdsTick,
         server_vars, uds_vars
<1> QED
  BY <1>1, <1>2, <1>3

(* The server's table never outgrows its size and holds a data identifier    *)
(* only once, whatever is written in whatever session.                       *)
THEOREM TableKept == UdsSpec => []TableOK
<1>1. UdsInit => TableOK
  BY UdsAssumption DEF UdsInit, TableOK
<1> QED
  BY <1>1, TableStep, TypeCorrect, PTL DEF UdsSpec

----------------------------------------------------------------------------
(* Responses and requests. *)

LEMMA OneLeft ==
  ASSUME NEW S, NEW q \in Seq(S), q # <<>>, Len(q) <= 1
  PROVE  /\ Len(q) = 1 /\ 1 \in DOMAIN q
         /\ Tail(q) = <<>> /\ Head(q) = q[1]
<1>1. Len(q) = 1 /\ 1 \in DOMAIN q
  <2>1. Len(q) \in Nat \ {0} /\ DOMAIN q = 1..Len(q)
    BY EmptySeq, LenProperties
  <2> QED
    BY <2>1
<1>2. Tail(q) \in Seq(S) /\ Len(Tail(q)) = 0
  BY <1>1, HeadTailProperties
<1>3. Tail(q) = <<>>
  BY <1>2, EmptySeq
<1> QED
  BY <1>1, <1>3

LEMMA MatchClient ==
  ASSUME UdsTypeOK, ResponsesMatch, ~given_up, Client, ~given_up'
  PROVE  ResponsesMatch'
<1> USE DEF UdsTypeOK
<1>1. PICK came \in BOOLEAN :
        /\ ClientCycle(came)
        /\ came <=> responses # <<>>
        /\ responses' = IF came THEN Tail(responses) ELSE responses
  BY DEF Client
<1>2. ~P2Expired(awaiting /\ ~came)
  BY <1>1 DEF ClientCycle
<1>3. MaySend(awaiting /\ ~came) <=> ~(awaiting /\ ~came)
  BY <1>2 DEF MaySend
<1>4. responses' = <<>>
  BY <1>1, OneLeft DEF ResponsesMatch
<1>5. CASE awaiting /\ ~came
  BY <1>1, <1>3, <1>5 DEF ClientCycle, ResponsesMatch
<1>6. CASE ~(awaiting /\ ~came)
  <2>1. requests = <<>>
    BY <1>1, <1>6 DEF ResponsesMatch
  <2>2. CASE queue = <<>>
    BY <1>1, <1>3, <1>4, <1>6, <2>1, <2>2 DEF ClientCycle, ResponsesMatch
  <2>3. CASE queue # <<>>
    <3>1. /\ requests' = Append(requests, Head(queue))
          /\ sent' = Head(queue).id /\ awaiting'
      BY <1>1, <1>3, <1>6, <2>3 DEF ClientCycle
    <3>2. Head(queue) \in Request
      BY <2>3, HeadTailProperties
    <3>3. Len(requests') = 1 /\ DOMAIN requests' = {1}
          /\ requests'[1] = Head(queue)
      BY <2>1, <3>1, <3>2
    <3> QED
      BY <1>4, <3>1, <3>3 DEF ResponsesMatch
  <2> QED
    BY <2>2, <2>3
<1> QED
  BY <1>5, <1>6

LEMMA MatchServer ==
  ASSUME UdsTypeOK, ResponsesMatch, ~given_up, Server, requests # <<>>
  PROVE  ResponsesMatch'
<1>1. /\ UNCHANGED <<awaiting, sent, given_up>> /\ requests' = Tail(requests)
      /\ Handle(S3Session, Head(requests))
  BY DEF Server, client_vars
<1>2. Len(requests) + Len(responses) <= 1 /\ requests \in Seq(Request)
  BY DEF ResponsesMatch, UdsTypeOK
<1>3. requests' = <<>> /\ Head(requests) = requests[1] /\ 1 \in DOMAIN requests
  BY <1>1, <1>2, OneLeft
<1>4. awaiting /\ Head(requests).id = sent /\ responses = <<>>
  BY <1>2, <1>3, OneLeft DEF ResponsesMatch
<1>5. responses' = responses \/ responses' = Append(responses, Head(requests).id)
  BY <1>1 DEF Handle
<1>6. \A k \in DOMAIN responses' : responses'[k] = sent
  BY <1>4, <1>5, AppendProperties
<1>7. Len(responses') <= 1
  <2>1. Head(requests).id \in Nat
    <3>1. Head(requests) \in Request
      BY <1>2, HeadTailProperties
    <3> QED
      BY <3>1 DEF Request
  <2>2. Len(responses) = 0
    BY <1>4, EmptySeq
  <2>3. Len(Append(responses, Head(requests).id)) = 1
    BY <2>1, <2>2, AppendProperties
  <2> QED
    <3>1. Len(responses') \in {0, 1}
      BY <1>5, <2>2, <2>3
    <3> QED
      BY <3>1
<1> QED
  BY <1>1, <1>3, <1>4, <1>6, <1>7 DEF ResponsesMatch

LEMMA MatchStep ==
  UdsTypeOK /\ ResponsesMatch /\ [UdsNext]_uds_vars => ResponsesMatch'
<1> SUFFICES ASSUME UdsTypeOK, ResponsesMatch, [UdsNext]_uds_vars
             PROVE  ResponsesMatch'
  OBVIOUS
<1>1. CASE given_up'
  BY <1>1 DEF ResponsesMatch
<1>2. given_up => given_up'
  BY DEF UdsNext, Enqueue, Client, ClientCycle, Server, LoseRequest,
         LoseResponse, UdsTick, client_vars, uds_vars
<1> SUFFICES ASSUME ~given_up, ~given_up' PROVE ResponsesMatch'
  BY <1>1, <1>2
<1>3. CASE Client
  BY <1>3, MatchClient
<1>4. CASE Server /\ requests # <<>>
  BY <1>4, MatchServer
<1>5. CASE UNCHANGED <<requests, responses, awaiting, sent>>
  BY <1>5 DEF ResponsesMatch
<1>6. CASE LoseRequest
  <2>1. requests' = <<>> /\ UNCHANGED <<responses, awaiting, sent>>
    BY <1>6, OneLeft DEF LoseRequest, ResponsesMatch, UdsTypeOK, client_vars
  <2> QED
    BY <2>1 DEF ResponsesMatch, UdsTypeOK
<1>7. CASE LoseResponse
  <2>1. responses' = <<>> /\ UNCHANGED <<requests, awaiting, sent>>
    BY <1>7, OneLeft DEF LoseResponse, ResponsesMatch, UdsTypeOK, client_vars
  <2> QED
    BY <2>1 DEF ResponsesMatch, UdsTypeOK
<1> QED
  BY <1>3, <1>4, <1>5, <1>6, <1>7
     DEF UdsNext, Enqueue, Server, UdsTick, client_vars, uds_vars

(* Until a request times out, no response is taken for another request's,    *)
(* although the client matches them by nothing but their order.              *)
THEOREM Matching == UdsSpec => []ResponsesMatch
<1>1. UdsInit => ResponsesMatch
  BY DEF UdsInit, ResponsesMatch
<1> QED
  BY <1>1, MatchStep, TypeCorrect, PTL DEF UdsSpec

----------------------------------------------------------------------------
(* Sessions. *)

(* A session ends only when a request says so or S3 has passed, and nothing  *)
(* is written once it has.                                                   *)
THEOREM SessionsEndByRule == UdsSpec => SessionRule
<1> DEFINE Ends == session_type # "default" /\ session_type' = "default"
           Rule == /\ Ends => \/ Expired(last_request, S3)
                              \/ Head(requests).service.sid \in {"session", "reset"}
                   /\ did_table' # did_table
                        => session_type # "default" /\ ~Expired(last_request, S3)
<1>1. [UdsNext]_uds_vars => Rule
  <2> SUFFICES ASSUME [UdsNext]_uds_vars PROVE Rule
    OBVIOUS
  <2>1. CASE UNCHANGED <<session_type, did_table>>
    BY <2>1
  <2>2. CASE Server
    <3>1. \/ S3Session = session_type
          \/ S3Session = "default" /\ Expired(last_request, S3)
      BY DEF S3Session
    <3>2. Expired(last_request, S3) /\ session_type # "default"
            => S3Session = "default"
      BY DEF S3Session, Expired
    <3>3. CASE requests = <<>>
      BY <2>2, <3>1, <3>3 DEF Server
    <3>4. CASE requests # <<>>
      <4> DEFINE s == Head(requests).service
      <4>1. Handle(S3Session, Head(requests))
        BY <2>2, <3>4 DEF Server
      <4>2. session_type' = SessionAfter(S3Session, s)
        BY <4>1 DEF Handle
      <4>3. Ends => \/ Expired(last_request, S3)
                    \/ s.sid \in {"session", "reset"}
        BY <3>1, <4>2 DEF SessionAfter
      <4>4. did_table' # did_table => CanWrite(S3Session, s)
        BY <4>1 DEF Handle, handle_write_did
      <4>5. did_table' # did_table
              => session_type # "default" /\ ~Expired(last_request, S3)
        BY <3>1, <3>2, <4>4 DEF CanWrite
      <4> QED
        BY <4>3, <4>5
    <3> QED
      BY <3>3, <3>4
  <2> QED
    BY <2>1, <2>2 DEF UdsNext, Enqueue, Client, LoseRequest, LoseResponse,
                      UdsTick, server_vars, uds_vars
<1> QED
  BY <1>1, PTL DEF UdsSpec, SessionRule
=============================================================================
