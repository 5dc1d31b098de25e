-------------------------------- MODULE Uds --------------------------------
(***************************************************************************)
(* cu_uds: the diagnostic client, with its queue of requests and its P2    *)
(* timeout, and the server, with its session, its S3 timeout and its table *)
(* of data identifiers.  Between them is a transport as PduChannel         *)
(* promises it until torn: PDUs arrive whole and in order, or are lost.    *)
(*                                                                         *)
(* Timestamps are kept as ages; a timestamp of zero turns a timer off, and *)
(* zero is what a clock shows before its first tick.  SecurityAccess,      *)
(* whose level nothing here depends on, is left out, and so are empty      *)
(* PDUs, which the codec does not send.                                    *)
(***************************************************************************)
EXTENDS Integers, SequencesExt

CONSTANTS
  MaxPending,    \* MAX_PENDING, of which one place stays empty
  P2, S3,        \* p2_timeout, session_timeout
  Did, Value,    \* data identifiers, their contents
  TableSize,     \* places in the server's table
  NewTable,      \* the table as UdsServer::new fills it
  MaxRequests    \* bound: requests the application makes

ASSUME UdsAssumption ==
  /\ MaxPending \in Nat \ {0, 1} /\ P2 \in Nat /\ S3 \in Nat
  /\ TableSize \in Nat /\ MaxRequests \in Nat
  /\ NewTable \in Seq([did : Did, value : Value]) /\ Len(NewTable) <= TableSize
  /\ \A j, k \in DOMAIN NewTable : NewTable[j].did = NewTable[k].did => j = k

Session == {"default", "programming", "extended"}

\* present is a service that changes nothing and may be told not to answer, as
\* TesterPresent; other is one that changes nothing and is answered.
Service ==
  [sid : {"session"}, sub : Session] \cup [sid : {"reset", "present", "other"}]
    \cup [sid : {"write"}, did : Did, value : Value]

VARIABLES
  time,           \* "zero" until the clock's first tick
  \* UdsClient
  queue, awaiting, request_sent,
  \* UdsServer
  session_type, last_request, did_table,
  \* the transport
  requests, responses,
  \* history
  made,           \* requests the application has enqueued
  sent,           \* the number of the latest one that was sent
  given_up        \* whether a request ever timed out

uds_vars == <<time, queue, awaiting, request_sent, session_type, last_request,
              did_table, requests, responses, made, sent, given_up>>
client_vars == <<queue, awaiting, request_sent, sent, given_up>>
server_vars == <<session_type, last_request, did_table>>

\* A timestamp: its age, and whether it is zero.
Stamp == [age |-> 0, zero |-> time = "zero"]
Expired(stamp, timeout) == ~stamp.zero /\ stamp.age > timeout
Aged(stamp, timeout) ==
  [stamp EXCEPT !.age = IF @ > timeout THEN @ ELSE @ + 1]

UdsInit ==
  /\ time = "zero"
  /\ queue = <<>> /\ awaiting = FALSE /\ request_sent = Stamp
  /\ session_type = "default" /\ last_request = Stamp /\ did_table = NewTable
  /\ requests = <<>> /\ responses = <<>>
  /\ made = 0 /\ sent = 0 /\ given_up = FALSE

----------------------------------------------------------------------------
(* UdsClient. *)

\* enqueue_raw, refused when the ring is full but for one place.
Enqueue ==
  /\ made < MaxRequests /\ Len(queue) < MaxPending - 1
  /\ \E service \in Service :
       queue' = Append(queue, [id |-> made + 1, service |-> service])
  /\ made' = made + 1
  /\ UNCHANGED <<time, awaiting, request_sent, sent, given_up, server_vars,
                 requests, responses>>

\* A cycle of process(): whatever came is the response; then P2; then the next
\* request.
P2Expired_answered(waiting) == FALSE
P2Expired(waiting) == waiting /\ Expired(request_sent, P2)

MaySend_always(waiting) == TRUE
MaySend(waiting) == ~waiting \/ P2Expired(waiting)

ClientCycle(came) ==
  LET waiting == awaiting /\ ~came
      free == MaySend(waiting)
  IN  /\ given_up' = (given_up \/ P2Expired(waiting))
      /\ IF free /\ queue # <<>>
           THEN /\ requests' = Append(requests, Head(queue))
                /\ queue' = Tail(queue) /\ sent' = Head(queue).id
                /\ awaiting' = TRUE /\ request_sent' = Stamp
           ELSE /\ awaiting' = ~free
                /\ UNCHANGED <<requests, queue, sent, request_sent>>

Client ==
  /\ \/ responses = <<>> /\ ClientCycle(FALSE) /\ UNCHANGED responses
     \/ responses # <<>> /\ ClientCycle(TRUE) /\ responses' = Tail(responses)
  /\ UNCHANGED <<time, made, server_vars>>

----------------------------------------------------------------------------
(* UdsServer: handle(), on the session as S3 left it.                       *)

Known(did) == \E k \in DOMAIN did_table : did_table[k].did = did
Entry(s) == [did |-> s.did, value |-> s.value]
CanWrite(session, s) ==
  session # "default" /\ (Known(s.did) \/ Len(did_table) < TableSize)

handle_write_did(session, s) ==
  IF ~CanWrite(session, s) THEN UNCHANGED did_table
  ELSE IF Known(s.did)
    THEN did_table' = [k \in DOMAIN did_table |->
           IF did_table[k].did = s.did THEN Entry(s) ELSE did_table[k]]
  ELSE did_table' = Append(did_table, Entry(s))

\* The session after a service.
SessionAfter(session, s) ==
  CASE s.sid = "session" -> s.sub
    [] s.sid = "reset" -> "default"
    [] OTHER -> session

\* Whether the service has a suppress bit, which is set or not.
Suppressible(s) == s.sid \in {"session", "reset", "present"}

\* The timer starts anew with every request, answered or not.
Handle(session, request) ==
  LET s == request.service IN
  /\ last_request' = Stamp
  /\ session_type' = SessionAfter(session, s)
  /\ IF s.sid = "write" THEN handle_write_did(session, s)
     ELSE UNCHANGED did_table
  /\ \/ Suppressible(s) /\ UNCHANGED responses
     \/ responses' = Append(responses, request.id)

\* reset_session, when the session was left alone too long.
S3Session_kept == session_type
S3Session ==
  IF session_type # "default" /\ Expired(last_request, S3)
    THEN "default" ELSE session_type

Server ==
  /\ \/ /\ requests = <<>>
        /\ session_type' = S3Session
        /\ UNCHANGED <<last_request, did_table, requests, responses>>
     \/ /\ requests # <<>>
        /\ Handle(S3Session, Head(requests))
        /\ requests' = Tail(requests)
  /\ UNCHANGED <<time, made, client_vars>>

----------------------------------------------------------------------------
(* The transport loses a PDU; time passes.                                  *)

LoseRequest ==
  /\ requests # <<>> /\ requests' = Tail(requests)
  /\ UNCHANGED <<time, made, client_vars, server_vars, responses>>

LoseResponse ==
  /\ responses # <<>> /\ responses' = Tail(responses)
  /\ UNCHANGED <<time, made, client_vars, server_vars, requests>>

UdsTick ==
  /\ time' = "later"
  /\ request_sent' = Aged(request_sent, P2)
  /\ last_request' = Aged(last_request, S3)
  /\ UNCHANGED <<queue, awaiting, session_type, did_table, requests, responses,
                 made, sent, given_up>>

UdsNext ==
  \/ Enqueue \/ Client \/ Server \/ LoseRequest \/ LoseResponse \/ UdsTick

UdsSpec == UdsInit /\ [][UdsNext]_uds_vars
UdsFairness ==
  WF_uds_vars(Client) /\ WF_uds_vars(Server) /\ WF_uds_vars(UdsTick)

----------------------------------------------------------------------------
(* Properties. *)

Request == [id : Nat, service : Service]
Timestamp == [age : Nat, zero : BOOLEAN]

UdsTypeOK ==
  /\ time \in {"zero", "later"}
  /\ queue \in Seq(Request) /\ Len(queue) < MaxPending
  /\ awaiting \in BOOLEAN /\ request_sent \in Timestamp
  /\ session_type \in Session /\ last_request \in Timestamp
  /\ did_table \in Seq([did : Did, value : Value])
  /\ requests \in Seq(Request) /\ responses \in Seq(Nat)
  /\ made \in Nat /\ sent \in Nat /\ given_up \in BOOLEAN

\* The queue holds what was made and not sent, in order.
QueueInOrder ==
  /\ sent + Len(queue) = made
  /\ \A k \in DOMAIN queue : queue[k].id = sent + k

\* The table has its size, and a data identifier one place.
TableOK ==
  /\ Len(did_table) <= TableSize
  /\ \A j, k \in DOMAIN did_table :
       did_table[j].did = did_table[k].did => j = k

(* Unless a request ever timed out, what is on its way is about the request  *)
(* that is waited for: no response is taken for another one's.               *)
ResponsesMatch ==
  given_up \/ /\ \A k \in DOMAIN requests : awaiting /\ requests[k].id = sent
              /\ \A k \in DOMAIN responses : awaiting /\ responses[k] = sent
              /\ Len(requests) + Len(responses) <= 1

(* A session ends when told to, or when nothing at all came for longer than  *)
(* S3; and once it is that long, nothing is written any more.                *)
SessionRule ==
  [][/\ (session_type # "default" /\ session_type' = "default")
          => \/ Expired(last_request, S3)
             \/ Head(requests).service.sid \in {"session", "reset"}
     /\ did_table' # did_table
          => session_type # "default" /\ ~Expired(last_request, S3)]_uds_vars

(* Every request is sent some day, whatever is lost; only one sent while the *)
(* clock shows zero, and not answered, is waited for without end.            *)
RequestsSent ==
  \A n \in 1..MaxRequests :
    (made >= n) ~> (sent >= n \/ [](awaiting /\ request_sent.zero))
=============================================================================
