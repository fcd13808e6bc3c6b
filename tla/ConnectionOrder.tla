-------------------------- MODULE ConnectionOrder --------------------------
(***************************************************************************)
(* Theorems about Connection: in which order, on which stream and under    *)
(* which transaction id the answers come; then when the driver is on the   *)
(* line, how long a polling loop waits, and what a CRC error says of the   *)
(* call that reports it.                                                   *)
(***************************************************************************)
EXTENDS ConnectionProofs

(***************************************************************************)
(* Requests are read in the order they were sent: those numbered up to     *)
(* Taken have left the stream, each of them served, rejected or lost with  *)
(* its connection, and the stream holds the others.                        *)
(***************************************************************************)
Taken == Len(reqs) - Len(tcpIn)

QueueOK ==
  /\ Len(tcpIn) <= Len(reqs)
  /\ \A i \in 1..Len(tcpIn) : tcpIn[i] = Taken + i
  /\ pc \in Exchange => loc.req = Taken

\* What waits in the stream was sent on the live connection.
WaitingOK ==
  /\ \A r \in 1..Len(reqs) : reqs[r].conn <= conn
  /\ \A r \in 1..Len(reqs) : r > Taken => reqs[r].conn = conn

\* The call answers its request on the stream and with the id it came with.
AddressOK ==
  pc \in Exchange => reqs[loc.req].conn = conn /\ reqs[loc.req].tid = loc.tid

\* Answers so far are older than the request in hand, and as long as the
\* connection has seen no error every other request read off it is answered.
ServedOK ==
  /\ \A j \in 1..Len(delivered) : /\ delivered[j].req <= Taken
                                  /\ pc \in Exchange => delivered[j].req < Taken
  /\ pc \notin {"idle", "failed"} =>
       \A r \in 1..Len(reqs) :
         r <= Taken /\ reqs[r].conn = conn /\ (pc \in Exchange => r # Taken)
           => \E j \in 1..Len(delivered) : delivered[j].req = r

OrderInv == TypedControl /\ QueueOK /\ WaitingOK /\ AddressOK /\ ServedOK /\ AnswersInOrder

-----------------------------------------------------------------------------

\* What no step changes but the four that move requests.
LEMMA OtherSteps ==
  ASSUME TypedControl, Next, ~Accept, ~TcpListenOk, ~TcpListenReject, ~ClientSend
  PROVE  /\ UNCHANGED <<reqs, tcpIn, conn>>
         /\ delivered' = delivered \/ ReplySend
         /\ pc' \in Exchange => pc \in Exchange /\ loc'.req = loc.req /\ loc'.tid = loc.tid
         /\ pc' \notin {"idle", "failed"} => /\ pc \notin {"idle", "failed"}
                                             /\ pc \in Exchange => pc' \in Exchange \/ ReplySend
  <1> USE DEF tcpVars, lineVars, Exchange
  <1>1. loc \in Locals
    BY DEF TypedControl, TypeOK
  <1>2. CASE CallNext \/ IntoStream
    BY <1>2 DEF CallNext, IntoStream
  <1>3. CASE TcpListenEof \/ TcpListenError \/ SendError \/ ReadEof \/ ReadGiveUp
             \/ ReplyError \/ AsyncDeadlines \/ PollExpire \/ PollError
    BY <1>3 DEF TcpListenEof, TcpListenError, SendError, ReadEof, ReadGiveUp, ReplyError,
                AsyncDeadlines, TcpDeadline, RtuDeadline, PollExpire, PollError, Fail
  <1>4. CASE SendFlush \/ SendDrain \/ ReplySend
    BY <1>4 DEF SendFlush, SendDrain, ReplySend
  <1>5. CASE SendWrite \/ PollReady \/ PollSleep \/ ReadRetry
    BY <1>1, <1>5 DEF SendWrite, PollReady, ReadReady, PollSleep, ReadRetry, NothingReady, Locals
  <1>6. CASE ReadHeader \/ ReadBody
    <2>1. \/ loc' = [loc EXCEPT !.got = Got]
          \/ \E n : loc' = [loc EXCEPT !.got = Got, !.need = n, !.attempt = 1]
      BY <1>6 DEF ReadHeader, ReadBody
    <2>2. pc = "receive" /\ pc' = "receive" /\ UNCHANGED <<reqs, tcpIn, conn, delivered>>
      BY <1>6 DEF ReadHeader, ReadBody
    <2> HIDE DEF Got
    <2>3. loc'.req = loc.req /\ loc'.tid = loc.tid
      BY <1>1, <2>1 DEF Locals
    <2> QED  BY <2>2, <2>3
  <1>7. CASE ReadLast
    <2>1. pc = "receive" /\ UNCHANGED <<reqs, tcpIn>>
      BY <1>7 DEF ReadLast
    <2>2. CASE Fail(RtuErr.Crc)
      BY <2>1, <2>2 DEF Fail
    <2>3. ASSUME NEW r, pc' = "reply", UNCHANGED <<conn, delivered>>,
                 loc' = [loc EXCEPT !.got = Got, !.need = 0, !.attempt = 1, !.resp = r]
          PROVE  loc'.req = loc.req /\ loc'.tid = loc.tid
      <3> HIDE DEF Got
      <3> QED  BY <1>1, <2>3 DEF Locals
    <2> QED  BY <1>7, <2>1, <2>2, <2>3 DEF ReadLast
  <1>8. CASE ClientBegin \/ ClientClose \/ Line
    BY <1>8 DEF ClientBegin, ClientClose, Line, DeviceAnswer, DeviceIgnore, Arrive, Babble
  <1> QED  BY <1>2, <1>3, <1>4, <1>5, <1>6, <1>7, <1>8
           DEF Next, Cycle, Listen, ListenFrame, Send, SendFrame, Receive, ReadUnit, Reply,
               SyncPolls, Polling, Client

LEMMA Counts ==
  ASSUME TypedControl
  PROVE  /\ reqs \in Seq(Request) /\ Len(reqs) \in Nat
         /\ tcpIn \in Seq(1..MaxReq) /\ Len(tcpIn) \in Nat
         /\ delivered \in Seq(Delivery) /\ Len(delivered) \in Nat
         /\ Taken \in Int
  BY DEF TypedControl, TypeOK, Taken

\* A request leaves the stream.
LEMMA TakeStep ==
  ASSUME TypedControl, QueueOK, TcpListenOk \/ TcpListenReject
  PROVE  /\ UNCHANGED <<reqs, conn>> /\ pc = "tcpListen"
         /\ Taken' = Taken + 1 /\ Taken' \in 1..Len(reqs)
         /\ Head(tcpIn) = Taken' /\ Len(tcpIn') <= Len(reqs')
         /\ \A i \in 1..Len(tcpIn') : tcpIn'[i] = Taken' + i
  <1>1. /\ UNCHANGED <<reqs, conn>> /\ pc = "tcpListen"
        /\ tcpIn # <<>> /\ tcpIn' = Tail(tcpIn)
    BY DEF TcpListenOk, TcpListenReject, Fail
  <1>2. /\ Head(tcpIn) = tcpIn[1] /\ Len(tcpIn') = Len(tcpIn) - 1 /\ Len(tcpIn) > 0
        /\ \A i \in 1..Len(tcpIn') : i + 1 \in 1..Len(tcpIn) /\ tcpIn'[i] = tcpIn[i + 1]
    BY <1>1, Counts, HeadTail
  <1>3. Taken' = Taken + 1 /\ tcpIn[1] = Taken + 1
    BY <1>1, <1>2, Counts DEF Taken, QueueOK
  <1>4. \A i \in 1..Len(tcpIn') : tcpIn'[i] = Taken' + i
    BY <1>2, <1>3, Counts DEF QueueOK
  <1>5. Taken' \in 1..Len(reqs) /\ Len(tcpIn') <= Len(reqs')
    BY <1>1, <1>2, <1>3, Counts DEF Taken, QueueOK
  <1> QED  BY <1>1, <1>2, <1>3, <1>4, <1>5

\* The call takes it up.
LEMMA TakeUp ==
  ASSUME TypedControl, QueueOK, TcpListenOk
  PROVE  /\ pc' \in {"rtuPoll", "flush"} /\ delivered' = delivered
         /\ loc'.req = Taken' /\ loc'.tid = reqs[Taken'].tid
  <1>1. loc \in Locals
    BY DEF TypedControl, TypeOK
  <1> DEFINE s == IF Head0.kind = "bare" THEN 0 ELSE Head(tcpIn)
  <1>2. /\ pc' \in {"rtuPoll", "flush"} /\ delivered' = delivered
        /\ loc' = [loc EXCEPT !.req = Head(tcpIn), !.tid = reqs[Head(tcpIn)].tid,
                              !.seen = s]
    BY DEF TcpListenOk, Head0
  <1> HIDE DEF s
  <1>3. loc'.req = Head(tcpIn) /\ loc'.tid = reqs[Head(tcpIn)].tid
    BY <1>1, <1>2 DEF Locals
  <1> QED  BY <1>2, <1>3, TakeStep

\* A client sends one more.
LEMMA SendStep ==
  ASSUME TypedControl, ClientSend
  PROVE  /\ UNCHANGED <<pc, conn, loc, delivered>>
         /\ Len(reqs') = Len(reqs) + 1 /\ Len(tcpIn') = Len(tcpIn) + 1 /\ Taken' = Taken
         /\ reqs'[Len(reqs) + 1].conn = conn
         /\ \A r \in 1..Len(reqs) : reqs'[r] = reqs[r]
         /\ tcpIn'[Len(tcpIn) + 1] = Len(reqs) + 1
         /\ \A i \in 1..Len(tcpIn) : tcpIn'[i] = tcpIn[i]
  <1>1. /\ UNCHANGED <<pc, conn, loc, delivered>> /\ pc # "idle" /\ Len(reqs) < MaxReq
        /\ tcpIn' = Append(tcpIn, Len(reqs'))
    BY DEF ClientSend
  <1>2. PICK t \in Tids, k \in Kinds : reqs' = Append(reqs, [conn |-> conn, tid |-> t, kind |-> k])
    BY DEF ClientSend
  <1> DEFINE q == [conn |-> conn, tid |-> t, kind |-> k]
  <1>3. q \in Request /\ q.conn = conn
    BY <1>1 DEF Request, TypedControl, ControlOK
  <1> HIDE DEF q
  <1>4. /\ Len(reqs') = Len(reqs) + 1 /\ reqs'[Len(reqs) + 1] = q
        /\ \A r \in 1..Len(reqs) : reqs'[r] = reqs[r]
    BY <1>2, <1>3, Counts, AppendLast DEF q
  <1>5. Len(reqs') \in 1..MaxReq
    BY <1>1, <1>4, Counts, BoundAssumption
  <1>6. /\ Len(tcpIn') = Len(tcpIn) + 1 /\ tcpIn'[Len(tcpIn) + 1] = Len(reqs')
        /\ \A i \in 1..Len(tcpIn) : tcpIn'[i] = tcpIn[i]
    BY <1>1, <1>5, Counts, AppendLast
  <1>7. Taken' = Taken
    BY <1>4, <1>6, Counts DEF Taken
  <1> QED  BY <1>1, <1>3, <1>4, <1>6, <1>7

LEMMA OrderInit == Init => OrderInv
  <1> SUFFICES ASSUME Init  PROVE OrderInv
    OBVIOUS
  <1>1. reqs = <<>> /\ tcpIn = <<>> /\ delivered = <<>> /\ pc = "idle"
    BY DEF Init
  <1>2. /\ Len(reqs) = 0 /\ Len(tcpIn) = 0 /\ 1..Len(tcpIn) = {} /\ 1..Len(reqs) = {}
        /\ 1..Len(delivered) = {} /\ DOMAIN delivered = {}
    BY <1>1
  <1>3. QueueOK /\ WaitingOK /\ AddressOK /\ ServedOK /\ AnswersInOrder
    BY <1>1, <1>2 DEF QueueOK, WaitingOK, AddressOK, ServedOK, AnswersInOrder, Exchange
  <1> QED  BY <1>3, TypesInit DEF OrderInv

LEMMA QueueNext ==
  ASSUME TypedControl, QueueOK, [Next]_vars  PROVE QueueOK'
  <1>1. CASE Accept
    <2>1. tcpIn' = <<>> /\ reqs' = reqs /\ pc' = "ready"
      BY <1>1 DEF Accept
    <2>2. Len(tcpIn') = 0 /\ 1..Len(tcpIn') = {}
      BY <2>1
    <2> QED  BY <2>1, <2>2, Counts DEF QueueOK, Exchange
  <1>2. CASE TcpListenOk
    BY <1>2, TakeStep, TakeUp DEF QueueOK
  <1>3. CASE TcpListenReject
    BY <1>3, TakeStep DEF QueueOK, TcpListenReject, Fail, Exchange
  <1>4. CASE ClientSend
    <2>1. \A i \in 1..Len(tcpIn') : i # Len(tcpIn) + 1 => i \in 1..Len(tcpIn)
      BY <1>4, SendStep, Counts
    <2>2. tcpIn'[Len(tcpIn) + 1] = Taken' + (Len(tcpIn) + 1)
      BY <1>4, SendStep, Counts DEF Taken
    <2>3. \A i \in 1..Len(tcpIn') : tcpIn'[i] = Taken' + i
      BY <1>4, <2>1, <2>2, SendStep DEF QueueOK
    <2> QED  BY <1>4, <2>3, SendStep, Counts DEF QueueOK
  <1>5. CASE Next /\ ~Accept /\ ~TcpListenOk /\ ~TcpListenReject /\ ~ClientSend
    BY <1>5, OtherSteps DEF QueueOK, Taken
  <1>6. CASE UNCHANGED vars
    BY <1>6 DEF vars, tcpVars, QueueOK, Taken
  <1> QED  BY <1>1, <1>2, <1>3, <1>4, <1>5, <1>6

LEMMA WaitingNext ==
  ASSUME TypedControl, QueueOK, WaitingOK, [Next]_vars  PROVE WaitingOK'
  <1>0. conn \in Nat
    BY BoundAssumption DEF TypedControl, TypeOK
  <1>1. CASE Accept
    <2>1. tcpIn' = <<>> /\ reqs' = reqs /\ conn' = conn + 1
      BY <1>1 DEF Accept
    <2>2. Taken' = Len(reqs')
      BY <2>1, Counts DEF Taken
    <2>3. \A r \in 1..Len(reqs) : reqs[r].conn \in Nat
      <3> TAKE r \in 1..Len(reqs)
      <3>1. reqs[r] \in Request
        BY Counts, ElementOfSeq
      <3> QED  BY <3>1, BoundAssumption DEF Request
    <2> QED  BY <1>0, <2>1, <2>2, <2>3, Counts DEF WaitingOK
  <1>2. CASE TcpListenOk \/ TcpListenReject
    BY <1>2, TakeStep, Counts DEF WaitingOK
  <1>3. CASE ClientSend
    <2>1. \A r \in 1..Len(reqs') : r # Len(reqs) + 1 => r \in 1..Len(reqs)
      BY <1>3, SendStep, Counts
    <2> QED  BY <1>0, <1>3, <2>1, SendStep DEF WaitingOK
  <1>4. CASE Next /\ ~Accept /\ ~TcpListenOk /\ ~TcpListenReject /\ ~ClientSend
    BY <1>4, OtherSteps DEF WaitingOK, Taken
  <1>5. CASE UNCHANGED vars
    BY <1>5 DEF vars, tcpVars, WaitingOK, Taken
  <1> QED  BY <1>1, <1>2, <1>3, <1>4, <1>5

LEMMA AddressNext ==
  ASSUME TypedControl, QueueOK, WaitingOK, AddressOK, [Next]_vars  PROVE AddressOK'
  <1> USE DEF Exchange
  <1>1. CASE Accept \/ TcpListenReject
    BY <1>1 DEF Accept, TcpListenReject, Fail, AddressOK
  <1>2. CASE TcpListenOk
    <2>1. reqs[Taken'].conn = conn
      BY <1>2, TakeStep, Counts DEF WaitingOK
    <2> QED  BY <1>2, <2>1, TakeStep, TakeUp DEF AddressOK
  <1>3. CASE ClientSend
    <2>1. pc \in Exchange => loc.req \in 1..Len(reqs)
      BY DEF TypedControl, ControlOK
    <2> QED  BY <1>3, <2>1, SendStep DEF AddressOK
  <1>4. CASE Next /\ ~Accept /\ ~TcpListenOk /\ ~TcpListenReject /\ ~ClientSend
    BY <1>4, OtherSteps DEF AddressOK
  <1>5. CASE UNCHANGED vars
    BY <1>5 DEF vars, tcpVars, AddressOK
  <1> QED  BY <1>1, <1>2, <1>3, <1>4, <1>5

\* An answer is given to the request in hand.
LEMMA ReplyStep ==
  ASSUME TypedControl, ReplySend
  PROVE  /\ pc = "reply" /\ pc' = "ready" /\ UNCHANGED <<reqs, tcpIn, conn>>
         /\ Len(delivered') = Len(delivered) + 1
         /\ \A j \in 1..Len(delivered) : delivered'[j] = delivered[j]
         /\ LET d == delivered'[Len(delivered) + 1] IN
              /\ d.conn = conn /\ d.tid = loc.tid /\ d.req = loc.req
              /\ d.resp = loc.resp
  <1> DEFINE d == [conn |-> conn, tid |-> loc.tid, req |-> loc.req, seen |-> loc.seen,
                   resp |-> loc.resp, dirty |-> loc.dirty]
  <1>1. /\ pc = "reply" /\ pc' = "ready" /\ UNCHANGED <<reqs, tcpIn, conn>>
        /\ delivered' = Append(delivered, d)
    BY DEF ReplySend, tcpVars
  <1>2. d.conn = conn /\ d.tid = loc.tid /\ d.req = loc.req /\ d.resp = loc.resp
    OBVIOUS
  <1>3. delivered' \in Seq(Delivery) /\ delivered \in Seq(Delivery)
    BY TypesReply DEF Reply, TypedControl, TypeOK
  <1> HIDE DEF d
  <1>4. /\ Len(delivered') = Len(delivered) + 1 /\ delivered'[Len(delivered) + 1] = d
        /\ \A j \in 1..Len(delivered) : delivered'[j] = delivered[j]
    BY <1>1, <1>3
  <1> QED  BY <1>1, <1>2, <1>4

LEMMA ServedNext ==
  ASSUME TypedControl, QueueOK, WaitingOK, ServedOK, [Next]_vars  PROVE ServedOK'
  <1> USE DEF Exchange
  <1>1. CASE Accept
    <2>1. /\ tcpIn' = <<>> /\ reqs' = reqs /\ conn' = conn + 1 /\ delivered' = delivered
          /\ pc' = "ready"
      BY <1>1 DEF Accept
    <2>2. Taken' = Len(reqs') /\ Taken <= Taken'
      BY <2>1, Counts DEF Taken
    <2>3. \A r \in 1..Len(reqs) : reqs[r].conn # conn'
      <3> TAKE r \in 1..Len(reqs)
      <3>1. reqs[r] \in Request /\ reqs[r].conn <= conn
        BY Counts, ElementOfSeq DEF WaitingOK
      <3>2. reqs[r].conn \in Nat /\ conn \in Nat
        BY <3>1, BoundAssumption DEF Request, TypedControl, TypeOK
      <3> QED  BY <2>1, <3>1, <3>2
    <2>4. \A j \in 1..Len(delivered) : delivered[j].req \in Nat
      <3> TAKE j \in 1..Len(delivered)
      <3>1. delivered[j] \in Delivery
        BY Counts, ElementOfSeq
      <3> QED  BY <3>1, BoundAssumption DEF Delivery
    <2> QED  BY <2>1, <2>2, <2>3, <2>4, Counts DEF ServedOK
  <1>2. CASE TcpListenReject
    <2>1. pc' = "failed" /\ delivered' = delivered /\ Taken' = Taken + 1
      BY <1>2, TakeStep DEF TcpListenReject, Fail
    <2>2. \A j \in 1..Len(delivered) : delivered[j].req <= Taken + 1
      <3> TAKE j \in 1..Len(delivered)
      <3>1. delivered[j] \in Delivery
        BY Counts, ElementOfSeq
      <3>2. delivered[j].req \in Nat /\ delivered[j].req <= Taken
        BY <3>1, BoundAssumption DEF Delivery, ServedOK
      <3> QED  BY <3>2, Counts
    <2> QED  BY <2>1, <2>2 DEF ServedOK
  <1>3. CASE TcpListenOk
    <2>1. /\ pc = "tcpListen" /\ pc' \in Exchange /\ delivered' = delivered
          /\ Taken' = Taken + 1 /\ UNCHANGED <<reqs, conn>>
      BY <1>3, TakeStep, TakeUp
    <2>2. \A j \in 1..Len(delivered) : delivered[j].req <= Taken + 1 /\ delivered[j].req < Taken + 1
      <3> TAKE j \in 1..Len(delivered)
      <3>1. delivered[j] \in Delivery
        BY Counts, ElementOfSeq
      <3>2. delivered[j].req \in Nat /\ delivered[j].req <= Taken
        BY <3>1, BoundAssumption DEF Delivery, ServedOK
      <3> QED  BY <3>2, Counts
    <2>3. \A r \in 1..Len(reqs) : r <= Taken + 1 /\ r # Taken + 1 => r <= Taken
      BY Counts
    <2> QED  BY <2>1, <2>2, <2>3 DEF ServedOK
  <1>4. CASE ClientSend
    <2>1. \A r \in 1..Len(reqs') : r <= Taken' => r \in 1..Len(reqs)
      BY <1>4, SendStep, Counts DEF Taken
    <2> QED  BY <1>4, <2>1, SendStep DEF ServedOK
  <1>5. CASE ReplySend
    <2> DEFINE n == Len(delivered) + 1
    <2>1. Taken' = Taken /\ n \in 1..Len(delivered')
      BY <1>5, ReplyStep, Counts DEF Taken
    <2>2. \A j \in 1..Len(delivered') : j # n => j \in 1..Len(delivered)
      BY <1>5, ReplyStep, Counts
    <2>3. delivered'[n].req = Taken
      BY <1>5, ReplyStep DEF QueueOK
    <2>4. \A j \in 1..Len(delivered') : delivered'[j].req <= Taken
      BY <1>5, <2>2, <2>3, ReplyStep, Counts DEF ServedOK
    <2>5. \A j \in 1..Len(delivered) : j \in 1..Len(delivered') /\ delivered'[j] = delivered[j]
      BY <1>5, ReplyStep, Counts
    <2> HIDE DEF n
    <2>6. ASSUME NEW r \in 1..Len(reqs), r <= Taken, reqs[r].conn = conn
          PROVE  \E j \in 1..Len(delivered') : delivered'[j].req = r
      <3>1. CASE r = Taken
        BY <2>1, <2>3, <3>1
      <3>2. CASE r # Taken
        <4>1. PICK j \in 1..Len(delivered) : delivered[j].req = r
          BY <1>5, <2>6, <3>2, ReplyStep DEF ServedOK
        <4> QED  BY <2>5, <4>1
      <3> QED  BY <3>1, <3>2
    <2> QED  BY <1>5, <2>1, <2>4, <2>6, ReplyStep DEF ServedOK
  <1>6. CASE Next /\ ~Accept /\ ~TcpListenOk /\ ~TcpListenReject /\ ~ClientSend /\ ~ReplySend
    <2>1. Taken' = Taken
      BY <1>6, OtherSteps DEF Taken
    <2> QED  BY <1>6, <2>1, OtherSteps DEF ServedOK
  <1>7. CASE UNCHANGED vars
    BY <1>7 DEF vars, tcpVars, ServedOK, Taken
  <1> QED  BY <1>1, <1>2, <1>3, <1>4, <1>5, <1>6, <1>7

LEMMA InOrderNext ==
  ASSUME OrderInv, [Next]_vars  PROVE AnswersInOrder'
  <1> USE DEF OrderInv
  <1>1. DOMAIN delivered = 1..Len(delivered)
    BY Counts, LenProperties
  <1>2. \A i \in 1..Len(delivered) : delivered[i].req \in 1..Len(reqs)
    <2> TAKE i \in 1..Len(delivered)
    <2>1. delivered[i] \in Delivery /\ delivered[i].req <= Taken
      BY Counts, ElementOfSeq DEF ServedOK
    <2>2. delivered[i].req \in 1..MaxReq
      BY <2>1 DEF Delivery
    <2>3. delivered[i].req \in Nat /\ delivered[i].req >= 1
      BY <2>2, BoundAssumption
    <2>4. Taken <= Len(reqs) /\ Taken \in Int /\ Len(reqs) \in Nat
      BY Counts DEF Taken
    <2> QED  BY <2>1, <2>3, <2>4
  <1>3. CASE ReplySend
    <2> DEFINE n == Len(delivered) + 1
               d == delivered'[n]
    <2>1. DOMAIN delivered' = 1..n /\ n \in 1..n /\ n - 1 = Len(delivered)
      <3>1. delivered' \in Seq(Delivery)
        BY <1>3, TypesReply DEF Reply, TypedControl, TypeOK
      <3> QED  BY <1>3, <3>1, ReplyStep, Counts, LenProperties
    <2>2. /\ reqs' = reqs /\ pc = "reply"
          /\ \A j \in 1..Len(delivered) : delivered'[j] = delivered[j]
          /\ d.conn = conn /\ d.tid = loc.tid /\ d.req = loc.req
      BY <1>3, ReplyStep
    <2>3. /\ d.req = Taken /\ d.req \in 1..Len(reqs)
          /\ d.conn = reqs[d.req].conn /\ d.tid = reqs[d.req].tid
      BY <2>2 DEF AddressOK, QueueOK, TypedControl, ControlOK, Exchange
    <2>4. \A j \in 1..(n - 1) : delivered'[j].req < d.req
      BY <2>1, <2>2, <2>3 DEF ServedOK, Exchange
    <2>5. ASSUME NEW r \in 1..(d.req - 1), reqs[r].conn = d.conn
          PROVE  \E j \in 1..(n - 1) : delivered'[j].req = r
      <3>1. r \in 1..Len(reqs) /\ r <= Taken /\ r # Taken
        BY <2>3, Counts
      <3>2. PICK j \in 1..Len(delivered) : delivered[j].req = r
        BY <2>2, <2>5, <3>1 DEF ServedOK
      <3> QED  BY <2>1, <2>2, <3>2
    <2>6. ASSUME NEW i \in 1..Len(delivered)
          PROVE  LET e == delivered'[i] IN
                 /\ e.conn = reqs[e.req].conn /\ e.tid = reqs[e.req].tid
                 /\ \A j \in 1..(i - 1) : delivered'[j].req < e.req
                 /\ \A r \in 1..(e.req - 1) :
                      reqs[r].conn = e.conn => \E j \in 1..(i - 1) : delivered'[j].req = r
      <3>1. delivered'[i] = delivered[i] /\ \A j \in 1..(i - 1) : delivered'[j] = delivered[j]
        BY <2>2, Counts
      <3> QED  BY <1>1, <3>1 DEF AnswersInOrder
    <2>7. \A i \in 1..n : i = n \/ i \in 1..Len(delivered)
      BY Counts
    <2> HIDE DEF n, d
    <2> QED  BY <2>1, <2>2, <2>3, <2>4, <2>5, <2>6, <2>7 DEF AnswersInOrder, d
  <1>4. CASE delivered' = delivered /\ reqs' = reqs
    BY <1>4 DEF AnswersInOrder
  <1>5. CASE ClientSend
    <2>0. TypedControl
      OBVIOUS
    <2>1. delivered' = delivered /\ \A r \in 1..Len(reqs) : reqs'[r] = reqs[r]
      BY <1>5, <2>0, SendStep
    <2>2. ASSUME NEW i \in 1..Len(delivered)
          PROVE  /\ reqs'[delivered[i].req] = reqs[delivered[i].req]
                 /\ \A r \in 1..(delivered[i].req - 1) : reqs'[r] = reqs[r]
      <3> DEFINE q == delivered[i].req
      <3>1. q \in 1..Len(reqs) /\ Len(reqs) \in Nat
        BY <1>2, <2>0, Counts
      <3> HIDE DEF q
      <3>2. \A r \in 1..(q - 1) : r \in 1..Len(reqs)
        BY <3>1
      <3>3. reqs'[q] = reqs[q] /\ \A r \in 1..(q - 1) : reqs'[r] = reqs[r]
        BY <2>1, <3>1, <3>2
      <3> QED  BY <3>3 DEF q
    <2> QED  BY <1>1, <2>1, <2>2 DEF AnswersInOrder
  <1>6. CASE Accept \/ TcpListenOk \/ TcpListenReject
    BY <1>4, <1>6 DEF Accept, TcpListenOk, TcpListenReject, Fail
  <1>7. CASE Next /\ ~Accept /\ ~TcpListenOk /\ ~TcpListenReject /\ ~ClientSend /\ ~ReplySend
    BY <1>4, <1>7, OtherSteps
  <1>8. CASE UNCHANGED vars
    BY <1>4, <1>8 DEF vars, tcpVars
  <1> QED  BY <1>3, <1>5, <1>6, <1>7, <1>8

LEMMA OrderNext == OrderInv /\ [Next]_vars => OrderInv'
  <1> SUFFICES ASSUME OrderInv, [Next]_vars  PROVE OrderInv'
    OBVIOUS
  <1>1. TypedControl /\ QueueOK /\ WaitingOK /\ AddressOK /\ ServedOK
    BY DEF OrderInv
  <1>2. TypedControl'
    BY <1>1, TypesNext
  <1>3. QueueOK' /\ WaitingOK' /\ AddressOK' /\ ServedOK'
    BY <1>1, QueueNext, WaitingNext, AddressNext, ServedNext
  <1> QED  BY <1>2, <1>3, InOrderNext DEF OrderInv

THEOREM OrderInductive == Spec => []OrderInv
  BY OrderInit, OrderNext, PTL DEF Spec

(***************************************************************************)
(* A client is answered on the stream it asked on, under its transaction   *)
(* id, once per request, in the order it asked, and with no request        *)
(* skipped: whatever the serial line does, and whichever body of next      *)
(* runs, an error ends the connection before a later request could         *)
(* overtake the lost one.                                                  *)
(***************************************************************************)
THEOREM InOrder == Spec => []AnswersInOrder
  <1>1. OrderInv => AnswersInOrder
    BY DEF OrderInv
  <1> QED  BY <1>1, OrderInductive, PTL

-----------------------------------------------------------------------------
(* Errors returned: what is recorded of them, and where they arise. *)

\* A send cut short ends in RtuIo or Timeout, and a polling loop returns
\* Timeout only when its budget is spent.  No error touches the pin.
ErrorReturned ==
  \E e \in Errors :
    /\ Fail(e) /\ txEn' = txEn
    /\ pc \in {"write", "drain"} => e \in {"RtuIo", "Timeout"}
    /\ e = "Timeout" /\ pc \in Polls => PollExpire

\* What the other steps do to the pin.
PinStep ==
  \/ pc' \in {"write", "drain"} /\ (txEn' \/ (pc = "write" /\ txEn' = txEn))
  \/ ~txEn' /\ pc' \notin {"write", "drain"}
  \/ UNCHANGED <<pc, txEn, delivered>>
  \/ /\ pc \notin {"write", "drain"} /\ pc' \notin {"write", "drain"} /\ txEn' = txEn
     /\ delivered' = delivered \/ pc = "reply"

LEMMA StepKinds ==
  ASSUME [Next]_vars  PROVE ErrorReturned \/ (failures' = failures /\ PinStep)
  <1>1. CASE TcpListenReject \/ TcpListenEof \/ TcpListenError \/ ReplyError
    BY <1>1 DEF TcpListenReject, TcpListenEof, TcpListenError, ReplyError, TcpErr, Errors,
                Polls, ErrorReturned
  <1>2. CASE SendError \/ ReadEof \/ ReadGiveUp \/ AsyncDeadlines
    BY <1>2 DEF SendError, ReadEof, ReadGiveUp, AsyncDeadlines, TcpDeadline, RtuDeadline,
                RtuErr, Errors, Polls, ErrorReturned
  <1>3. CASE PollExpire \/ PollError
    <2>1. \E e \in {"Timeout", "TcpIo", "RtuIo"} :
            Fail(e) /\ txEn' = txEn /\ pc \in Polls /\ (e = "Timeout" => PollExpire)
      BY <1>3 DEF PollExpire, PollError, NothingReady, Polls
    <2> QED  BY <2>1 DEF ErrorReturned, Errors, Polls
  <1>4. CASE ReadLast
    BY <1>4 DEF ReadLast, RtuErr, Errors, Polls, ErrorReturned, PinStep
  <1>5. CASE SendFlush \/ SendWrite \/ SendDrain
    BY <1>5 DEF SendFlush, SendWrite, SendDrain, PinStep
  <1>6. CASE Accept \/ CallNext \/ IntoStream \/ TcpListenOk \/ ReplySend \/ PollReady
    BY <1>6 DEF Accept, CallNext, IntoStream, TcpListenOk, ReplySend, PollReady, ReadReady,
                PinStep
  <1>7. CASE \/ ReadHeader \/ ReadBody \/ ReadRetry \/ PollSleep \/ Client \/ Line
             \/ UNCHANGED vars
    BY <1>7 DEF ReadHeader, ReadBody, ReadRetry, PollSleep, Client, ClientBegin, ClientSend,
                ClientClose, Line, DeviceAnswer, DeviceIgnore, Arrive, Babble, vars, PinStep
  <1> QED  BY <1>1, <1>2, <1>3, <1>4, <1>5, <1>6, <1>7
           DEF Next, Cycle, Listen, ListenFrame, Send, SendFrame, Receive, ReadUnit, Reply,
               SyncPolls, Polling

\* The record of an error returned, and that the records before it stay.
LEMMA ErrorRecord ==
  ASSUME TypedControl, NEW e \in Errors, Fail(e)
  PROVE  LET n == Len(failures) + 1 IN
         /\ Len(failures) \in Nat
         /\ DOMAIN failures = 1..Len(failures) /\ DOMAIN failures' = 1..n
         /\ failures'[n].err = e /\ failures'[n].at = pc
         /\ failures'[n].req = loc.req /\ failures'[n].slept = loc.slept
         /\ \A i \in 1..Len(failures) : failures'[i] = failures[i]
  <1>1. failures \in Seq(Failure) /\ failures' \in Seq(Failure)
    BY FailTyped DEF TypedControl, TypeOK
  <1>2. TypeOK
    BY DEF TypedControl
  <1> QED  BY <1>1, <1>2, FailTyped, LenProperties

-----------------------------------------------------------------------------
(* The transmit-enable pin. *)

LEMMA PinFollowsInit == Init => PinFollowsSend
  BY DEF Init, PinFollowsSend

\* A send that is cut short is newer than every answer given so far.
LEMMA PinCut ==
  ASSUME OrderInv, NEW e \in {"RtuIo", "Timeout"}, Fail(e), pc \in {"write", "drain"}
  PROVE  PinFollowsSend'
  <1> DEFINE n == Len(failures) + 1
  <1>1. TypedControl /\ e \in Errors
    BY DEF OrderInv, Errors
  <1>2. /\ n \in Nat /\ n \in DOMAIN failures' /\ (n + 1)..Len(failures') = {}
        /\ failures'[n].err = e /\ failures'[n].at = pc /\ failures'[n].req = loc.req
    <2>1. Len(failures') = n
      BY <1>1, FailTyped DEF TypedControl
    <2> QED  BY <1>1, <2>1, ErrorRecord
  <1>3. \A k \in DOMAIN delivered : delivered[k].req < loc.req
    <2>1. DOMAIN delivered = 1..Len(delivered)
      BY <1>1, Counts, LenProperties
    <2>2. loc.req = Taken /\ \A k \in 1..Len(delivered) : delivered[k].req < Taken
      BY DEF OrderInv, QueueOK, ServedOK, Exchange
    <2> QED  BY <2>1, <2>2
  <1>4. pc' = "failed" /\ delivered' = delivered
    BY DEF Fail
  <1> HIDE DEF n
  <1>5. PICK m \in Nat : m = n
    BY <1>2
  <1>6. /\ failures'[m].at \in {"write", "drain"}
        /\ failures'[m].err \in {"RtuIo", "Timeout"}
        /\ \A j \in (m + 1)..Len(failures') : failures'[j].at \notin {"receive", "reply"}
        /\ \A k \in DOMAIN delivered' : delivered'[k].req < failures'[m].req
    BY <1>2, <1>3, <1>4, <1>5
  <1>7. CutSend(m)'
    BY <1>6 DEF CutSend
  <1> QED  BY <1>2, <1>4, <1>5, <1>7 DEF PinFollowsSend

\* An error returned while the pin is high outside send leaves the cut send
\* the last to have raised it: such a call was not waiting for an answer.
LEMMA PinStuck ==
  ASSUME TypedControl, PinOK, PinFollowsSend, NEW e \in Errors, Fail(e),
         txEn' = txEn, pc \notin {"write", "drain"}
  PROVE  PinFollowsSend'
  <1>1. pc' = "failed" /\ delivered' = delivered
    BY DEF Fail
  <1> SUFFICES ASSUME txEn  PROVE \E i \in DOMAIN failures' : CutSend(i)'
    BY <1>1 DEF PinFollowsSend
  <1> DEFINE n == Len(failures) + 1
  <1>2. PICK i \in DOMAIN failures : CutSend(i)
    BY DEF PinFollowsSend
  <1>3. /\ n \in Nat /\ Len(failures) \in Nat /\ i \in 1..Len(failures) /\ i \in DOMAIN failures'
        /\ Len(failures') = n /\ failures'[n].at = pc
        /\ \A j \in 1..Len(failures) : failures'[j] = failures[j]
    <2>1. Len(failures') = n
      BY FailTyped DEF TypedControl
    <2> QED  BY <1>2, <2>1, ErrorRecord
  <1>4. pc \notin {"receive", "reply"}
    BY DEF PinOK
  <1>5. \A j \in (i + 1)..Len(failures') : j = n \/ j \in (i + 1)..Len(failures)
    BY <1>3
  <1>6. \A j \in (i + 1)..Len(failures) : j \in 1..Len(failures)
    BY <1>3
  <1> HIDE DEF n
  <1>7. CutSend(i)'
    BY <1>1, <1>2, <1>3, <1>4, <1>5, <1>6 DEF CutSend
  <1> QED  BY <1>3, <1>7

LEMMA PinFollowsNext ==
  ASSUME OrderInv, PinOK, PinFollowsSend, [Next]_vars  PROVE PinFollowsSend'
  <1>1. TypedControl
    BY DEF OrderInv
  <1>2. CASE ErrorReturned
    <2>1. PICK e \in Errors :
            /\ Fail(e) /\ txEn' = txEn
            /\ pc \in {"write", "drain"} => e \in {"RtuIo", "Timeout"}
      BY <1>2 DEF ErrorReturned
    <2>2. CASE pc \in {"write", "drain"}
      BY <2>1, <2>2, PinCut
    <2>3. CASE pc \notin {"write", "drain"}
      BY <1>1, <2>1, <2>3, PinStuck
    <2> QED  BY <2>2, <2>3
  <1>3. CASE failures' = failures /\ PinStep
    <2>1. CASE pc' \in {"write", "drain"} /\ (txEn' \/ (pc = "write" /\ txEn' = txEn))
      BY <2>1 DEF PinFollowsSend
    <2>2. CASE ~txEn' /\ pc' \notin {"write", "drain"}
      BY <2>2 DEF PinFollowsSend
    <2>3. CASE UNCHANGED <<pc, txEn, delivered>>
      BY <1>3, <2>3 DEF PinFollowsSend, CutSend
    <2>4. CASE /\ pc \notin {"write", "drain"} /\ pc' \notin {"write", "drain"} /\ txEn' = txEn
               /\ delivered' = delivered
      BY <1>3, <2>4 DEF PinFollowsSend, CutSend
    <2>5. CASE pc = "reply" /\ pc' \notin {"write", "drain"} /\ txEn' = txEn
      BY <2>5 DEF PinFollowsSend, PinOK
    <2> QED  BY <1>3, <2>1, <2>2, <2>3, <2>4, <2>5 DEF PinStep
  <1> QED  BY <1>2, <1>3, StepKinds

(***************************************************************************)
(* The pin is high while send writes; and outside send it is high only     *)
(* because a send was cut short, by an error that next returned as RtuIo   *)
(* or Timeout, and no send has completed since.  In every build, with any  *)
(* timeouts and whatever fails.                                            *)
(***************************************************************************)
THEOREM PinFollows == Spec => []PinFollowsSend
  <1>1. Spec => []PinOK
    BY PinInit, PinNext, PTL DEF Spec
  <1> QED  BY <1>1, OrderInductive, PinFollowsInit, PinFollowsNext, PTL DEF Spec

-----------------------------------------------------------------------------
(* Polling loops. *)

\* A loop runs only with a budget and within it, its count is that of its
\* sleeps, and it leaves none to the other loop.
PollOK ==
  /\ pc = "tcpPoll" => Timed(TcpTimeout) /\ loc.elapsed <= TcpTimeout
  /\ pc = "rtuPoll" => Timed(RtuTimeout) /\ loc.elapsed <= RtuTimeout
  /\ pc = "tcpListen" => loc.elapsed = 0
  /\ loc.slept = loc.elapsed

LEMMA PollInit == Init => PollOK
  BY DEF Init, Fresh, PollOK

LEMMA PollNext == TypedControl /\ PollOK /\ [Next]_vars => PollOK'
  <1> SUFFICES ASSUME TypedControl, PollOK, [Next]_vars  PROVE PollOK'
    OBVIOUS
  <1>0. /\ loc \in Locals /\ loc.elapsed \in Nat /\ loc.slept = loc.elapsed
        /\ Timed(TcpTimeout) => TcpTimeout \in Nat
        /\ Timed(RtuTimeout) => RtuTimeout \in Nat
    BY ConfigAssumption DEF TypedControl, TypeOK, Locals, Timed, PollOK
  <1>1. CASE pc' \notin {"tcpPoll", "rtuPoll", "tcpListen"} /\ loc'.slept = loc'.elapsed
    BY <1>1 DEF PollOK
  <1>2. CASE UNCHANGED pc /\ loc'.elapsed = loc.elapsed /\ loc'.slept = loc.slept
    BY <1>2 DEF PollOK
  <1>3. CASE CallNext
    <2>1. pc' = IF Mode = "sync" /\ Timed(TcpTimeout) THEN "tcpPoll" ELSE "tcpListen"
      BY <1>3 DEF CallNext
    <2>2. loc'.elapsed = 0 /\ loc'.slept = 0
      <3> HIDE DEF Owed
      <3> QED  BY <1>3 DEF CallNext, Fresh
    <2> QED  BY <1>0, <2>1, <2>2 DEF PollOK
  <1>4. CASE TcpListenOk
    <2>1. pc' = IF Mode = "sync" /\ Timed(RtuTimeout) THEN "rtuPoll" ELSE "flush"
      BY <1>4 DEF TcpListenOk
    <2>2. loc'.elapsed = loc.elapsed /\ loc'.slept = loc.slept /\ loc.elapsed = 0
      BY <1>0, <1>4 DEF TcpListenOk, Locals, PollOK
    <2> QED  BY <1>0, <2>1, <2>2 DEF PollOK
  <1>5. CASE PollSleep
    <2>1. /\ loc'.elapsed = loc.elapsed + 1 /\ loc'.slept = loc.slept + 1 /\ pc' = pc
          /\ loc.elapsed < Budget
      BY <1>0, <1>5 DEF PollSleep, Locals
    <2>2. pc \in {"tcpPoll", "rtuPoll"}
      BY <1>5 DEF PollSleep, NothingReady
    <2> QED  BY <1>0, <2>1, <2>2 DEF PollOK, Budget, BudgetAt
  <1>6. CASE PollReady
    <2>1. pc' \in {"tcpListen", "flush"} /\ loc'.elapsed = 0 /\ loc'.slept = 0
      BY <1>0, <1>6 DEF PollReady, ReadReady, Locals
    <2> QED  BY <2>1 DEF PollOK
  <1>7. CASE \E e \in Errors : Fail(e)
    BY <1>1, <1>7 DEF Fail, Fresh
  <1>8. CASE IntoStream \/ Accept
    BY <1>0, <1>1, <1>8 DEF Accept, IntoStream
  <1>9. CASE SendFrame \/ ReplySend
    <2>1. pc' \in {"write", "drain", "receive", "ready"} /\ loc'.slept = loc'.elapsed
      BY <1>0, <1>9 DEF SendFrame, SendFlush, SendWrite, SendDrain, ReplySend, Fresh, Locals
    <2> QED  BY <1>1, <2>1
  <1>10. CASE ReadHeader \/ ReadBody \/ ReadRetry
    <2>1. pc' = pc /\ loc'.elapsed = loc.elapsed /\ loc'.slept = loc.slept
      BY <1>0, <1>10 DEF ReadHeader, ReadBody, ReadRetry, Locals
    <2> QED  BY <1>2, <2>1
  <1>11. CASE ReadLast
    <2>1. CASE \E r \in Intact(Got) :
                 /\ pc' = "reply"
                 /\ loc' = [loc EXCEPT !.got = Got, !.need = 0, !.attempt = 1, !.resp = r]
      <3>1. pc' = "reply" /\ loc'.elapsed = loc.elapsed /\ loc'.slept = loc.slept
        BY <1>0, <2>1 DEF Locals
      <3> QED  BY <1>0, <1>1, <3>1
    <2> QED  BY <1>7, <1>11, <2>1, ErrorNames DEF ReadLast
  <1>12. CASE Client \/ Line \/ UNCHANGED vars
    BY <1>2, <1>12 DEF Client, ClientBegin, ClientSend, ClientClose, Line, DeviceAnswer,
                       DeviceIgnore, Arrive, Babble, vars
  <1>13. CASE \/ TcpListenReject \/ TcpListenEof \/ TcpListenError \/ SendError \/ ReadEof
              \/ ReadGiveUp \/ ReplyError \/ AsyncDeadlines \/ PollExpire \/ PollError
    <2>1. \E e \in Errors : Fail(e)
      BY <1>13, ErrorNames
         DEF TcpListenReject, TcpListenEof, TcpListenError, SendError, ReadEof, ReadGiveUp,
             ReplyError, AsyncDeadlines, TcpDeadline, RtuDeadline, PollExpire, PollError, Errors
    <2> QED  BY <1>7, <2>1
  <1> QED  BY <1>3, <1>4, <1>5, <1>6, <1>8, <1>9, <1>10, <1>11, <1>12, <1>13
           DEF Next, Cycle, Listen, ListenFrame, Send, Receive, ReadUnit, Reply, SyncPolls,
               Polling

LEMMA BudgetInit == Init => PollsTheirBudget
  BY DEF Init, PollsTheirBudget, Polls

LEMMA BudgetNext ==
  ASSUME TypedControl, PollOK, PollOK', PollsTheirBudget, [Next]_vars
  PROVE  PollsTheirBudget'
  <1>1. (pc \in Polls => loc.slept <= Budget)'
    BY DEF PollOK, Polls, Budget, BudgetAt
  <1>2. CASE failures' = failures
    BY <1>1, <1>2 DEF PollsTheirBudget, BudgetAt
  <1>3. CASE ErrorReturned
    <2>1. PICK e \in Errors : Fail(e) /\ (e = "Timeout" /\ pc \in Polls => PollExpire)
      BY <1>3 DEF ErrorReturned
    <2> DEFINE n == Len(failures) + 1
    <2>2. ASSUME e = "Timeout", pc \in Polls  PROVE loc.slept = BudgetAt(pc)
      <3>1. loc.elapsed >= BudgetAt(pc) /\ loc.elapsed <= BudgetAt(pc)
        BY <2>1, <2>2 DEF PollExpire, PollOK, Polls, Budget, BudgetAt
      <3>2. BudgetAt(pc) \in Nat /\ loc.elapsed \in Nat /\ loc.slept = loc.elapsed
        BY <2>2, ConfigAssumption
           DEF PollOK, Polls, BudgetAt, Timed, TypedControl, TypeOK, Locals
      <3> QED  BY <3>1, <3>2
    <2>3. /\ n \in Nat /\ DOMAIN failures = 1..Len(failures) /\ DOMAIN failures' = 1..n
          /\ failures'[n].err = e /\ failures'[n].at = pc /\ failures'[n].slept = loc.slept
          /\ \A i \in 1..Len(failures) : failures'[i] = failures[i]
      BY <2>1, ErrorRecord
    <2>4. \A i \in 1..n : i = n \/ i \in 1..Len(failures)
      BY <2>1, ErrorRecord
    <2> HIDE DEF n
    <2> QED  BY <1>1, <2>2, <2>3, <2>4 DEF PollsTheirBudget, BudgetAt
  <1> QED  BY <1>2, <1>3, StepKinds

(***************************************************************************)
(* A polling loop never sleeps more than its own budget, and has slept all *)
(* of it when it returns Timeout, whatever the other loop of the call has  *)
(* waited and whichever of the two budgets is the larger.                  *)
(***************************************************************************)
THEOREM PollsEnd == Spec => []PollsTheirBudget
  <1>1. Spec => []TypedControl
    BY TypesInit, TypesNext, PTL DEF Spec
  <1>2. Spec => []PollOK
    BY <1>1, PollInit, PollNext, PTL DEF Spec
  <1> QED  BY <1>1, <1>2, BudgetInit, BudgetNext, PTL DEF Spec

-----------------------------------------------------------------------------
(* The answer of a call that began clean. *)

\* A line that delivers what it is given, and a serial port that stays open.
FaithfulLine == Faults \cap {"noise", "loss", "babble", "serialEof"} = {}

\* s is a stretch of the answer to r, from the unit after the n-th.
Run(s, r, n) == \A i \in 1..Len(s) : s[i] = [req |-> r, ix |-> n + i]

\* What has been read, what is in the UART and what is on the line make up
\* the whole answer to r, in order; or the device has not begun it.
Whole(r, d, g, q, w) ==
  /\ Run(g, r, 0) /\ Run(q, r, Len(g)) /\ Run(w, r, Len(g) + Len(q))
  /\ Len(g) + Len(q) + Len(w) \in {0, RespLen}
  /\ d = <<>> \/ (d = <<r>> /\ Len(g) + Len(q) + Len(w) = 0)

\* The units read_exact still asks for once the header is in.
Need(g) == IF Len(g) < Hdr THEN 0 ELSE RespLen - Len(g)

CallOK ==
  /\ \A i \in 1..Len(rx) : rx[i].req # 0
  /\ ~loc.dirty =>
       /\ pc \in {"drain", "receive"} => Whole(loc.req, dev, loc.got, rx, wire)
       /\ pc \in Unsent \cup {"drain", "receive"} => loc.need = Need(loc.got)

LEMMA CallTypes ==
  ASSUME TypedControl
  PROVE  /\ loc \in Locals /\ loc.got \in Seq(Unit) /\ rx \in Seq(Unit)
         /\ wire \in Seq(Unit) /\ dev \in Seq(1..MaxReq)
         /\ Len(loc.got) \in Nat /\ Len(rx) \in Nat /\ Len(wire) \in Nat
         /\ RespLen \in Nat /\ Hdr \in Nat /\ Hdr > 0 /\ RespLen > Hdr
  <1>1. /\ loc \in Locals /\ rx \in Seq(Unit) /\ wire \in Seq(Unit) /\ dev \in Seq(1..MaxReq)
    BY DEF TypedControl, TypeOK
  <1>2. loc.got \in Seq(Unit)
    BY <1>1 DEF Locals
  <1>3. Len(loc.got) \in Nat /\ Len(rx) \in Nat /\ Len(wire) \in Nat
    BY <1>1, <1>2, LenProperties
  <1>4. RespLen \in Nat /\ Hdr \in Nat /\ Hdr > 0 /\ RespLen > Hdr
    BY FrameAssumption
  <1> QED  BY <1>1, <1>2, <1>3, <1>4

\* The next unit of the stretch q follows the stretch g.
LEMMA RunHead ==
  ASSUME NEW r, NEW m \in Nat, NEW g \in Seq(Unit), NEW q \in Seq(Unit), q # <<>>,
         Run(g, r, m), Run(q, r, m + Len(g))
  PROVE  /\ Run(Append(g, Head(q)), r, m) /\ Run(Tail(q), r, m + Len(Append(g, Head(q))))
         /\ Append(g, Head(q)) \in Seq(Unit) /\ Tail(q) \in Seq(Unit)
         /\ Len(Append(g, Head(q))) = Len(g) + 1 /\ Len(Tail(q)) = Len(q) - 1
         /\ Len(g) \in Nat /\ Len(q) \in Nat
  <1> DEFINE h == Append(g, Head(q))
             t == Tail(q)
             n == Len(g) + 1
  <1>1. /\ Head(q) = q[1] /\ 1 \in 1..Len(q) /\ Len(q) \in Nat
        /\ t \in Seq(Unit) /\ Len(t) = Len(q) - 1
        /\ \A i \in 1..Len(t) : i + 1 \in 1..Len(q) /\ t[i] = q[i + 1]
    BY HeadTail
  <1>2. /\ h \in Seq(Unit) /\ Len(h) = n /\ h[n] = q[1] /\ Len(g) \in Nat
        /\ \A i \in 1..Len(g) : h[i] = g[i]
    BY <1>1, HeadTail, AppendLast
  <1> HIDE DEF h, t
  <1>3. ASSUME NEW i \in 1..Len(h)  PROVE h[i] = [req |-> r, ix |-> m + i]
    <2>1. CASE i \in 1..Len(g)
      BY <1>2, <2>1 DEF Run
    <2>2. CASE i = n
      <3>1. q[1] = [req |-> r, ix |-> m + Len(g) + 1]
        BY <1>1 DEF Run
      <3>2. m + i = m + Len(g) + 1
        BY <1>2, <2>2
      <3> QED  BY <1>2, <2>2, <3>1, <3>2
    <2> QED  BY <1>2, <2>1, <2>2
  <1>4. ASSUME NEW i \in 1..Len(t)  PROVE t[i] = [req |-> r, ix |-> m + n + i]
    <2>1. i + 1 \in 1..Len(q) /\ t[i] = q[i + 1]
      BY <1>1
    <2>2. q[i + 1] = [req |-> r, ix |-> m + Len(g) + (i + 1)]
      BY <2>1 DEF Run
    <2>3. m + Len(g) + (i + 1) = m + n + i
      BY <1>2
    <2> QED  BY <2>1, <2>2, <2>3
  <1> QED  BY <1>1, <1>2, <1>3, <1>4 DEF Run, h, t

\* Reading a unit, or taking it off the line, keeps the answer whole.
LEMMA WholeRead ==
  ASSUME NEW r, NEW d, NEW g \in Seq(Unit), NEW q \in Seq(Unit), NEW w \in Seq(Unit),
         q # <<>>, Whole(r, d, g, q, w)
  PROVE  Whole(r, d, Append(g, Head(q)), Tail(q), w)
  <1>1. /\ Run(Append(g, Head(q)), r, 0) /\ Run(Tail(q), r, 0 + Len(Append(g, Head(q))))
        /\ Len(Append(g, Head(q))) = Len(g) + 1 /\ Len(Tail(q)) = Len(q) - 1
        /\ Len(g) \in Nat /\ Len(q) \in Nat
    <2>1. Run(g, r, 0) /\ Run(q, r, 0 + Len(g)) /\ 0 \in Nat
      BY DEF Whole
    <2> QED  BY <2>1, RunHead
  <1> DEFINE h == Append(g, Head(q))
             t == Tail(q)
  <1>2. Len(w) \in Nat /\ Len(h) = Len(g) + 1 /\ Len(t) = Len(q) - 1
    BY <1>1
  <1>3. Run(h, r, 0) /\ Run(t, r, Len(h))
    BY <1>1, <1>2
  <1> HIDE DEF h, t
  <1>4. Len(h) + Len(t) = Len(g) + Len(q)
    BY <1>1, <1>2
  <1>5. Whole(r, d, h, t, w)
    BY <1>3, <1>4 DEF Whole
  <1> QED  BY <1>5 DEF h, t

LEMMA WholeArrive ==
  ASSUME NEW r, NEW d, NEW g \in Seq(Unit), NEW q \in Seq(Unit), NEW w \in Seq(Unit),
         w # <<>>, Whole(r, d, g, q, w)
  PROVE  Whole(r, d, g, Append(q, Head(w)), Tail(w))
  <1> DEFINE h == Append(q, Head(w))
             t == Tail(w)
             m == Len(g)
  <1>1. Run(q, r, m) /\ Run(w, r, m + Len(q)) /\ m \in Nat
    BY DEF Whole
  <1>2. /\ Run(h, r, m) /\ Run(t, r, m + Len(h))
        /\ Len(h) = Len(q) + 1 /\ Len(t) = Len(w) - 1
        /\ Len(q) \in Nat /\ Len(w) \in Nat
    BY <1>1, RunHead
  <1> HIDE DEF h, t, m
  <1>3. m + Len(h) + Len(t) = m + Len(q) + Len(w)
    BY <1>1, <1>2
  <1>4. Whole(r, d, g, h, t)
    BY <1>2, <1>3 DEF Whole, m
  <1> QED  BY <1>4 DEF h, t

\* The device answers.
LEMMA WholeAnswer ==
  ASSUME NEW r \in 1..MaxReq, NEW g \in Seq(Unit), NEW q \in Seq(Unit), NEW w \in Seq(Unit),
         Whole(r, <<r>>, g, q, w)
  PROVE  Whole(r, <<>>, g, q, w \o Frame(r))
  <1> DEFINE f == Frame(r)
             u == w \o f
  <1>1. Len(g) \in Nat /\ Len(q) \in Nat /\ Len(w) \in Nat /\ <<r>> # <<>>
    OBVIOUS
  <1>2. Len(g) + Len(q) + Len(w) = 0
    BY <1>1 DEF Whole
  <1>3. Len(g) = 0 /\ Len(q) = 0 /\ Len(w) = 0
    BY <1>1, <1>2
  <1>4. /\ f \in Seq(Unit) /\ Len(f) = RespLen /\ RespLen \in Nat
        /\ \A i \in 1..RespLen : f[i] = [req |-> r, ix |-> i]
    BY FrameUnits
  <1> HIDE DEF f
  <1>5. /\ Len(u) = Len(w) + RespLen
        /\ \A i \in 1..Len(u) : u[i] = IF i <= Len(w) THEN w[i] ELSE f[i - Len(w)]
    BY <1>4, Joined
  <1> HIDE DEF u
  <1>6. /\ Len(u) = RespLen
        /\ \A i \in 1..Len(u) : u[i] = [req |-> r, ix |-> 0 + 0 + i]
    <2>1. Len(u) = RespLen
      BY <1>3, <1>4, <1>5
    <2>2. \A i \in 1..RespLen : ~(i <= Len(w)) /\ i - Len(w) = i /\ 0 + 0 + i = i
      BY <1>3, <1>4
    <2> QED  BY <1>4, <1>5, <2>1, <2>2
  <1>7. Run(g, r, 0) /\ Run(q, r, Len(g)) /\ Run(u, r, Len(g) + Len(q))
    BY <1>3, <1>6 DEF Run, Whole
  <1>8. Len(g) + Len(q) + Len(u) = RespLen
    BY <1>3, <1>4, <1>6
  <1>9. Whole(r, <<>>, g, q, u)
    BY <1>7, <1>8 DEF Whole
  <1> QED  BY <1>9 DEF u, f

\* A call that has not sent its request yet finds the line empty.
LEMMA CleanEmpty ==
  ASSUME TypedControl, LineOK, CallOK, ~loc.dirty, pc \in Unsent
  PROVE  dev = <<>> /\ wire = <<>> /\ rx = <<>>
  <1>1. dev = <<>> /\ Real(wire) = {} /\ Real(rx) = {}
    BY NothingOwed DEF LineOK
  <1>2. \A i \in 1..Len(wire) : wire[i].req # 0
    BY DEF TypedControl, ControlOK
  <1>3. \A s \in Seq(Unit) : Real(s) = {} /\ (\A i \in 1..Len(s) : s[i].req # 0) => s = <<>>
    <2> SUFFICES ASSUME NEW s \in Seq(Unit), Real(s) = {}, \A i \in 1..Len(s) : s[i].req # 0,
                        s # <<>>
                 PROVE  FALSE
      OBVIOUS
    <2>1. 1 \in 1..Len(s)
      OBVIOUS
    <2> QED  BY <2>1, RealUnits
  <1> QED  BY <1>1, <1>2, <1>3, CallTypes DEF CallOK

\* The steps of a call that read nothing and hand nothing over.
LEMMA CallKeeps ==
  ASSUME CallOK, UNCHANGED lineVars,
         loc'.dirty = loc.dirty, loc'.need = loc.need, loc'.got = loc.got, loc'.req = loc.req,
         \/ pc' = pc
         \/ pc \in Unsent /\ pc' \in Unsent
         \/ pc \in {"drain", "receive"} /\ pc' \in {"drain", "receive"}
  PROVE  CallOK'
  BY DEF CallOK, Unsent, lineVars

LEMMA CallEnds ==
  ASSUME TypedControl, CallOK, pc' \notin Unsent \cup {"drain", "receive"},
         rx' = rx \/ (rx # <<>> /\ rx' = Tail(rx))
  PROVE  CallOK'
  <1>1. \A i \in 1..Len(rx') : rx'[i].req # 0
    <2>1. rx \in Seq(Unit) /\ \A i \in 1..Len(rx) : rx[i].req # 0
      BY CallTypes DEF CallOK
    <2>2. CASE rx # <<>> /\ rx' = Tail(rx)
      BY <2>1, <2>2, HeadTail
    <2> QED  BY <2>1, <2>2
  <1> QED  BY <1>1 DEF CallOK

\* The header of the answer to a standard request tells its length.
LEMMA HeaderTells ==
  ASSUME TypedControl, "vendor" \notin Kinds, loc.req \in 1..Len(reqs),
         NEW g \in Seq(Unit), Run(g, loc.req, 0), Len(g) = Hdr
  PROVE  Remaining(g) = {RespLen - Hdr}
  <1> DEFINE r == loc.req
             f == Frame(r)
             h == SubSeq(f, 1, Hdr)
  <1>1. reqs[r].kind # "vendor"
    <2>1. reqs[r] \in Request
      <3>1. reqs \in Seq(Request)
        BY DEF TypedControl, TypeOK
      <3> QED  BY <3>1, ElementOfSeq
    <2> QED  BY <2>1 DEF Request
  <1>2. /\ f \in Seq(Unit) /\ Len(f) = RespLen /\ RespLen \in Nat
        /\ \A i \in 1..RespLen : f[i] = [req |-> r, ix |-> i]
    <2>1. r \in 1..MaxReq
      BY RequestNumbers DEF TypedControl
    <2> QED  BY <2>1, FrameUnits
  <1> HIDE DEF f
  <1>3. /\ h \in Seq(Unit) /\ Len(h) = Hdr
        /\ \A i \in 1..Hdr : h[i] = f[i] /\ i \in 1..RespLen
    BY <1>2, CallTypes
  <1> HIDE DEF h
  <1>4. \A i \in 1..Hdr : g[i] = h[i]
    <2> TAKE i \in 1..Hdr
    <2>1. g[i] = [req |-> r, ix |-> 0 + i] /\ 0 + i = i
      BY CallTypes DEF Run
    <2> QED  BY <1>2, <1>3, <2>1
  <1>5. g = h
    BY <1>3, <1>4, SeqEqual
  <1> QED  BY <1>1, <1>5 DEF Remaining, h, f

LEMMA CallReads ==
  ASSUME TypedControl, CallOK, "vendor" \notin Kinds, ReadHeader \/ ReadBody
  PROVE  CallOK'
  <1> USE CallTypes
  <1>1. /\ pc = "receive" /\ pc' = "receive" /\ rx # <<>> /\ rx' = Tail(rx)
        /\ UNCHANGED <<dev, wire, reqs>>
    BY DEF ReadHeader, ReadBody, tcpVars
  <1>2. /\ Len(Got) = Len(loc.got) + 1 /\ Got \in Seq(Unit)
        /\ \A i \in 1..Len(rx') : rx'[i].req # 0
    BY <1>1, HeadTail, GotUnits DEF CallOK, TypedControl
  <1>3. ~loc.dirty => Whole(loc.req, dev, Got, rx', wire)
    BY <1>1, WholeRead DEF CallOK, Got
  <1>4. ~loc.dirty => Run(Got, loc.req, 0)
    BY <1>3 DEF Whole
  <1>5. ~loc.dirty => loc.need = Need(loc.got)
    BY <1>1 DEF CallOK
  <1>6. loc.req \in 1..Len(reqs)
    BY <1>1 DEF TypedControl, ControlOK, Exchange
  <1>7. CASE ReadHeader
    <2>1. Len(loc.got) < Hdr
      BY <1>7 DEF ReadHeader
    <2>2. CASE Len(Got) < Hdr
      <3>1. loc' = [loc EXCEPT !.got = Got]
        BY <1>7, <2>2 DEF ReadHeader
      <3> HIDE DEF Got
      <3>2. loc'.got = Got /\ loc'.req = loc.req /\ loc'.dirty = loc.dirty /\ loc'.need = loc.need
        BY <3>1 DEF Locals
      <3>3. Need(Got) = Need(loc.got)
        BY <2>1, <2>2 DEF Need
      <3> QED  BY <1>1, <1>2, <1>3, <1>5, <3>2, <3>3 DEF CallOK
    <2>3. CASE ~(Len(Got) < Hdr)
      <3>1. PICK n \in Remaining(Got) : loc' = [loc EXCEPT !.got = Got, !.need = n, !.attempt = 1]
        BY <1>7, <2>3 DEF ReadHeader
      <3>2. Len(Got) = Hdr
        BY <1>2, <2>1, <2>3
      <3>3. ~loc.dirty => n = RespLen - Hdr
        BY <1>2, <1>4, <1>6, <3>2, HeaderTells
      <3> HIDE DEF Got
      <3>4. loc'.got = Got /\ loc'.req = loc.req /\ loc'.dirty = loc.dirty /\ loc'.need = n
        BY <3>1 DEF Locals
      <3>5. Need(Got) = RespLen - Hdr
        BY <3>2 DEF Need
      <3> QED  BY <1>1, <1>2, <1>3, <3>3, <3>4, <3>5 DEF CallOK
    <2> QED  BY <2>2, <2>3
  <1>8. CASE ReadBody
    <2>1. loc' = [loc EXCEPT !.got = Got, !.need = @ - 1, !.attempt = 1] /\ loc.need > 1
      BY <1>8 DEF ReadBody
    <2> HIDE DEF Got
    <2>2. /\ loc'.got = Got /\ loc'.req = loc.req /\ loc'.dirty = loc.dirty
          /\ loc'.need = loc.need - 1
      BY <2>1 DEF Locals
    <2>3. ~loc.dirty => loc.need - 1 = Need(Got)
      <3> SUFFICES ASSUME ~loc.dirty  PROVE loc.need - 1 = Need(Got)
        OBVIOUS
      <3>1. ~(Len(loc.got) < Hdr) /\ loc.need = RespLen - Len(loc.got)
        BY <1>5, <2>1 DEF Need
      <3> QED  BY <1>2, <3>1 DEF Need
    <2> QED  BY <1>1, <1>2, <1>3, <2>2, <2>3 DEF CallOK
  <1> QED  BY <1>7, <1>8

LEMMA CallLine ==
  ASSUME FaithfulLine, TypedControl, CallOK, Line
  PROVE  CallOK'
  <1> USE CallTypes
  <1>1. UNCHANGED <<pc, loc>>
    BY DEF Line, DeviceAnswer, DeviceIgnore, Arrive, Babble
  <1>2. ~Babble
    BY DEF Babble, FaithfulLine
  <1>3. CASE dev # <<>> /\ dev' = Tail(dev) /\ rx' = rx
             /\ (wire' = wire \/ wire' = wire \o Frame(Head(dev)))
    <2> SUFFICES ASSUME ~loc.dirty, pc \in {"drain", "receive"}
                 PROVE  Whole(loc.req, dev', loc.got, rx, wire')
      BY <1>1, <1>3 DEF CallOK
    <2>1. Whole(loc.req, dev, loc.got, rx, wire)
      BY DEF CallOK
    <2>2. dev = <<loc.req>>
      BY <1>3, <2>1 DEF Whole
    <2>3. Head(dev) = loc.req /\ dev' = <<>>
      BY <1>3, <2>2
    <2>4. loc.req \in 1..MaxReq
      <3>1. loc.req \in 1..Len(reqs)
        BY DEF TypedControl, ControlOK, Exchange
      <3> QED  BY <3>1, RequestNumbers DEF TypedControl
    <2>5. Whole(loc.req, <<>>, loc.got, rx, wire)
      BY <2>1 DEF Whole
    <2>6. Whole(loc.req, <<>>, loc.got, rx, wire \o Frame(loc.req))
      BY <2>1, <2>2, <2>4, WholeAnswer
    <2> QED  BY <1>3, <2>3, <2>5, <2>6
  <1>4. CASE Arrive
    <2>1. /\ wire # <<>> /\ wire' = Tail(wire) /\ dev' = dev
          /\ rx' = Append(rx, Head(wire))
      BY <1>4 DEF Arrive, FaithfulLine
    <2>2. ~loc.dirty /\ pc \in {"drain", "receive"} => Whole(loc.req, dev', loc.got, rx', wire')
      BY <2>1, WholeArrive DEF CallOK
    <2>3. \A i \in 1..Len(rx') : rx'[i].req # 0
      <3>1. Head(wire) \in Unit /\ Head(wire).req # 0
        <4>1. \A i \in 1..Len(wire) : wire[i].req # 0
          BY DEF TypedControl, ControlOK
        <4>2. Head(wire) \in Unit /\ Head(wire) = wire[1] /\ 1 \in 1..Len(wire)
          BY <2>1, HeadTail
        <4> QED  BY <4>1, <4>2
      <3>2. \A i \in 1..Len(rx) : rx[i].req # 0
        BY DEF CallOK
      <3> QED  BY <2>1, <3>1, <3>2, AppendLast
    <2> QED  BY <1>1, <2>2, <2>3 DEF CallOK
  <1>5. CASE DeviceAnswer \/ DeviceIgnore
    BY <1>3, <1>5 DEF DeviceAnswer, DeviceIgnore
  <1> QED  BY <1>2, <1>4, <1>5 DEF Line

\* The last write hands an empty line the request.
LEMMA CallWrites ==
  ASSUME TypedControl, LineOK, CallOK, SendWrite
  PROVE  CallOK'
  <1>1. PICK n \in 1..(ReqLen - loc.wrote) :
          /\ loc' = [loc EXCEPT !.wrote = @ + n]
          /\ \/ pc' = "write" /\ dev' = dev
             \/ pc' = "drain" /\ dev' = Append(dev, loc.req)
    BY DEF SendWrite
  <1>2. /\ pc = "write" /\ UNCHANGED <<wire, rx>> /\ loc.got = <<>>
        /\ loc'.dirty = loc.dirty /\ loc'.need = loc.need /\ loc'.got = loc.got
        /\ loc'.req = loc.req
    BY <1>1, CallTypes DEF SendWrite, Locals, TypedControl, ControlOK, Unsent
  <1>3. CASE pc' = "write" /\ dev' = dev
    BY <1>2, <1>3, CallKeeps DEF lineVars
  <1>4. CASE pc' = "drain" /\ dev' = Append(dev, loc.req)
    <2>1. \A i \in 1..Len(rx') : rx'[i].req # 0
      BY <1>2 DEF CallOK
    <2>2. ASSUME ~loc.dirty  PROVE Whole(loc.req, dev', loc.got, rx', wire')
      <3>1. dev = <<>> /\ wire' = <<>> /\ rx' = <<>>
        BY <1>2, <2>2, CleanEmpty DEF Unsent
      <3>2. dev' = <<loc.req>>
        BY <1>4, <3>1
      <3>3. \A s : s = <<>> => Len(s) = 0 /\ 1..Len(s) = {}
        OBVIOUS
      <3>4. /\ Len(loc.got) = 0 /\ Len(rx') = 0 /\ Len(wire') = 0
            /\ 1..Len(loc.got) = {} /\ 1..Len(rx') = {} /\ 1..Len(wire') = {}
        BY <1>2, <3>1, <3>3
      <3> QED  BY <3>2, <3>4 DEF Whole, Run
    <2>3. ~loc.dirty => loc.need = Need(loc.got)
      BY <1>2 DEF CallOK, Unsent
    <2> QED  BY <1>2, <1>4, <2>1, <2>2, <2>3 DEF CallOK
  <1> QED  BY <1>1, <1>3, <1>4

LEMMA CallBegins ==
  ASSUME TypedControl, CallOK, CallNext
  PROVE  CallOK'
  <1>1. pc' \in {"tcpPoll", "tcpListen"} /\ UNCHANGED lineVars
    BY DEF CallNext
  <1>2. loc'.need = 0 /\ loc'.got = <<>>
    <2> HIDE DEF Owed
    <2> QED  BY DEF CallNext, Fresh
  <1>3. Need(<<>>) = 0
    BY CallTypes DEF Need
  <1> QED  BY <1>1, <1>2, <1>3 DEF CallOK, lineVars

LEMMA CallInit == Init => CallOK
  <1> SUFFICES ASSUME Init  PROVE CallOK
    OBVIOUS
  <1>1. rx = <<>> /\ pc = "idle"
    BY DEF Init
  <1>2. 1..Len(rx) = {}
    BY <1>1
  <1> QED  BY <1>1, <1>2 DEF CallOK, Unsent

LEMMA CallNextStep ==
  ASSUME FaithfulLine, "vendor" \notin Kinds, TypedControl, LineOK, CallOK, [Next]_vars
  PROVE  CallOK'
  <1>1. CASE UNCHANGED vars
    BY <1>1, CallKeeps DEF vars
  <1>2. CASE Accept \/ IntoStream
    BY <1>2, CallEnds DEF Accept, IntoStream, lineVars, Unsent
  <1>3. CASE Client
    BY <1>3, CallKeeps DEF Client, ClientBegin, ClientSend, ClientClose
  <1>4. CASE TcpListenReject \/ TcpListenEof \/ TcpListenError \/ SendError \/ ReadLast
             \/ ReadEof \/ ReadGiveUp \/ Reply \/ AsyncDeadlines \/ PollExpire \/ PollError
    <2>1. pc' \in {"ready", "reply", "failed"} /\ (rx' = rx \/ (rx # <<>> /\ rx' = Tail(rx)))
      BY <1>4 DEF TcpListenReject, TcpListenEof, TcpListenError, SendError, ReadLast, ReadEof,
                  ReadGiveUp, Reply, ReplySend, ReplyError, AsyncDeadlines, TcpDeadline,
                  RtuDeadline, PollExpire, PollError, Fail, lineVars
    <2> QED  BY <2>1, CallEnds DEF Unsent
  <1>5. CASE TcpListenOk \/ PollReady \/ PollSleep
    <2>1. pc \in Unsent /\ pc' \in Unsent /\ UNCHANGED lineVars
      BY <1>5 DEF TcpListenOk, PollReady, ReadReady, PollSleep, NothingReady, Unsent
    <2>2. loc'.dirty = loc.dirty /\ loc'.need = loc.need /\ loc'.got = loc.got
      BY <1>5, CallTypes DEF TcpListenOk, PollReady, ReadReady, PollSleep, Locals
    <2> QED  BY <2>1, <2>2 DEF CallOK, Unsent, lineVars
  <1>6. CASE SendFlush \/ SendDrain
    BY <1>6, CallKeeps DEF SendFlush, SendDrain, Unsent
  <1>7. CASE ReadRetry
    <2>1. /\ loc'.dirty = loc.dirty /\ loc'.need = loc.need /\ loc'.got = loc.got
          /\ loc'.req = loc.req /\ pc' = pc /\ UNCHANGED lineVars
      BY <1>7, CallTypes DEF ReadRetry, Locals
    <2> QED  BY <2>1, CallKeeps
  <1> QED  BY <1>1, <1>2, <1>3, <1>4, <1>5, <1>6, <1>7, CallBegins, CallWrites, CallReads,
              CallLine
           DEF Next, Cycle, Listen, ListenFrame, Send, SendFrame, Receive, ReadUnit,
               SyncPolls, Polling

-----------------------------------------------------------------------------
(* What a CRC error means. *)

LEMMA ErrorStale ==
  ASSUME TypedControl, CrcErrorMeansStale, NEW e \in Errors, Fail(e),
         e = "RtuCrcMismatch" => loc.dirty
  PROVE  CrcErrorMeansStale'
  <1> DEFINE f == [err |-> e, at |-> pc, req |-> loc.req, wrote |-> loc.wrote,
                   slept |-> loc.slept, dirty |-> loc.dirty]
             n == Len(failures) + 1
  <1>1. /\ failures \in Seq(Failure) /\ failures' \in Seq(Failure) /\ Len(failures) \in Nat
        /\ Len(failures') = n /\ \A i \in 1..Len(failures) : failures'[i] = failures[i]
    BY FailTyped DEF TypedControl, TypeOK
  <1>2. failures'[n] = f
    BY <1>1 DEF Fail
  <1>3. f.err = e /\ f.dirty = loc.dirty
    OBVIOUS
  <1>4. DOMAIN failures = 1..Len(failures) /\ DOMAIN failures' = 1..n
    BY <1>1, LenProperties
  <1>5. \A i \in 1..n : i = n \/ i \in 1..Len(failures)
    BY <1>1
  <1> HIDE DEF f, n
  <1> QED  BY <1>1, <1>2, <1>3, <1>4, <1>5 DEF CrcErrorMeansStale

\* A clean call that reads to the end of its answer has the whole of it.
LEMMA LastOfClean ==
  ASSUME TypedControl, CallOK, ReadLast, ~loc.dirty
  PROVE  Intact(Got) # {}
  <1> USE CallTypes
  <1>1. pc = "receive" /\ rx # <<>> /\ loc.need = 1
    BY DEF ReadLast
  <1>2. loc.req \in 1..Len(reqs) /\ loc.req \in 1..MaxReq
    <2>1. loc.req \in 1..Len(reqs)
      BY <1>1 DEF TypedControl, ControlOK, Exchange
    <2> QED  BY <2>1, RequestNumbers DEF TypedControl
  <1> DEFINE f == Frame(loc.req)
  <1>3. /\ f \in Seq(Unit) /\ Len(f) = RespLen
        /\ \A i \in 1..RespLen : f[i] = [req |-> loc.req, ix |-> i]
    BY <1>2, FrameUnits
  <1> HIDE DEF f
  <1>4. /\ Run(Got, loc.req, 0) /\ Got \in Seq(Unit) /\ Len(Got) = Len(loc.got) + 1
    <2>1. Whole(loc.req, dev, loc.got, rx, wire)
      BY <1>1 DEF CallOK
    <2>2. Whole(loc.req, dev, Got, Tail(rx), wire)
      BY <1>1, <2>1, WholeRead DEF Got
    <2> QED  BY <1>1, <2>2, GotUnits DEF Whole, TypedControl
  <1>5. Len(Got) = RespLen
    <2>1. loc.need = Need(loc.got)
      BY <1>1 DEF CallOK
    <2> QED  BY <1>1, <1>4, <2>1 DEF Need
  <1>6. \A i \in 1..RespLen : Got[i] = f[i]
    <2> TAKE i \in 1..RespLen
    <2>1. i \in 1..Len(Got)
      BY <1>5
    <2>2. Got[i] = [req |-> loc.req, ix |-> 0 + i]
      BY <1>4, <2>1 DEF Run
    <2>3. 0 + i = i
      OBVIOUS
    <2> QED  BY <1>3, <2>2, <2>3
  <1>7. Got = f
    BY <1>3, <1>4, <1>5, <1>6, SeqEqual
  <1> QED  BY <1>2, <1>7 DEF Intact, f

LEMMA StaleInit == Init => CrcErrorMeansStale
  BY DEF Init, CrcErrorMeansStale

LEMMA StaleNext ==
  ASSUME FaithfulLine, TypedControl, CallOK, CrcErrorMeansStale, [Next]_vars
  PROVE  CrcErrorMeansStale'
  <1>1. CASE failures' = failures
    BY <1>1 DEF CrcErrorMeansStale
  <1>2. CASE \E e \in Errors \ {"RtuCrcMismatch"} : Fail(e)
    BY <1>2, ErrorStale
  <1>3. CASE ReadLast
    <2>1. CASE loc.dirty /\ Fail(RtuErr.Crc)
      BY <2>1, ErrorStale, ErrorNames
    <2> QED  BY <1>1, <1>3, <2>1, LastOfClean DEF ReadLast
  <1>4. CASE UNCHANGED vars
    BY <1>1, <1>4 DEF vars
  <1>5. CASE Next /\ ~ReadLast
    <2>1. ~ReadEof
      BY DEF ReadEof, FaithfulLine
    <2>2. CASE \/ TcpListenReject \/ TcpListenEof \/ TcpListenError \/ SendError \/ ReadGiveUp
               \/ ReplyError \/ AsyncDeadlines \/ PollExpire \/ PollError
      <3>1. \E e \in {"TcpClosed", "TcpIo", "RtuIo", "BufferOverflow", "Timeout"} : Fail(e)
        BY <2>2 DEF TcpListenReject, TcpListenEof, TcpListenError, SendError, ReadGiveUp,
                    ReplyError, AsyncDeadlines, TcpDeadline, RtuDeadline, PollExpire,
                    PollError, TcpErr, RtuErr
      <3> QED  BY <1>2, <3>1 DEF Errors
    <2>3. CASE ~(\/ TcpListenReject \/ TcpListenEof \/ TcpListenError \/ SendError \/ ReadGiveUp
                 \/ ReplyError \/ AsyncDeadlines \/ PollExpire \/ PollError)
      <3>1. failures' = failures
        BY <1>5, <2>1, <2>3
           DEF Next, Accept, CallNext, IntoStream, Cycle, Listen, ListenFrame, TcpListenOk,
               Send, SendFrame, SendFlush, SendWrite, SendDrain, Receive, ReadUnit,
               ReadHeader, ReadBody, ReadRetry, Reply, ReplySend, SyncPolls, Polling,
               PollReady, ReadReady, PollSleep, Client, ClientBegin, ClientSend, ClientClose, Line,
               DeviceAnswer, DeviceIgnore, Arrive, Babble
      <3> QED  BY <1>1, <3>1
    <2> QED  BY <2>2, <2>3
  <1> QED  BY <1>3, <1>4, <1>5

(***************************************************************************)
(* On a line that delivers what it is given, and for the function codes    *)
(* the bridge can frame, a CRC error is never the device's doing: the call *)
(* that reports it began while an earlier answer was owed.  Devices may be *)
(* silent and reads, writes, polls and streams may fail.                   *)
(***************************************************************************)
THEOREM CrcErrorStale ==
  ASSUME FaithfulLine, "vendor" \notin Kinds
  PROVE  Spec => []CrcErrorMeansStale
  <1> DEFINE Inv == CallOK /\ CrcErrorMeansStale
  <1>1. Init => Inv
    BY CallInit, StaleInit
  <1>2. IInv /\ Inv /\ [Next]_vars => Inv'
    <2> SUFFICES ASSUME IInv, Inv, [Next]_vars  PROVE Inv'
      OBVIOUS
    <2>1. TypedControl /\ LineOK
      BY DEF IInv, TypedControl
    <2> QED  BY <2>1, CallNextStep, StaleNext
  <1>3. Inv => CrcErrorMeansStale
    OBVIOUS
  <1> HIDE DEF Inv
  <1> QED  BY <1>1, <1>2, <1>3, Inductive, PTL DEF Spec
=============================================================================
