-------------------------- MODULE ConnectionProofs --------------------------
(***************************************************************************)
(* Theorems about Connection: types, the pairing of answers and requests,  *)
(* who may leave the serial line dirty, the half-duplex discipline.        *)
(***************************************************************************)
EXTENDS Connection, SequenceTheorems, TLAPS

-----------------------------------------------------------------------------
(* Queues. *)

\* Taking the head off a queue.
LEMMA HeadTail ==
  ASSUME NEW S, NEW s \in Seq(S), s # <<>>
  PROVE  /\ Head(s) \in S /\ Head(s) = s[1]
         /\ Tail(s) \in Seq(S) /\ Len(Tail(s)) = Len(s) - 1
         /\ Len(s) \in Nat /\ Len(s) > 0
         /\ \A i \in 1..Len(Tail(s)) : i + 1 \in 1..Len(s) /\ Tail(s)[i] = s[i + 1]
  OBVIOUS

\* Adding an element at the end of a queue.
LEMMA AppendLast ==
  ASSUME NEW S, NEW s \in Seq(S), NEW e \in S
  PROVE  /\ Append(s, e) \in Seq(S) /\ Len(Append(s, e)) = Len(s) + 1
         /\ Len(s) \in Nat
         /\ Append(s, e)[Len(s) + 1] = e
         /\ \A i \in 1..Len(s) : Append(s, e)[i] = s[i]
  OBVIOUS

\* Joining two queues.
LEMMA Joined ==
  ASSUME NEW S, NEW s \in Seq(S), NEW t \in Seq(S)
  PROVE  /\ s \o t \in Seq(S) /\ Len(s \o t) = Len(s) + Len(t)
         /\ Len(s) \in Nat /\ Len(t) \in Nat
         /\ \A i \in 1..Len(s \o t) :
              (s \o t)[i] = IF i <= Len(s) THEN s[i] ELSE t[i - Len(s)]
  OBVIOUS

\* An answer is a queue of units.
LEMMA FrameUnits ==
  ASSUME NEW r \in 1..MaxReq
  PROVE  /\ Frame(r) \in Seq(Unit) /\ Len(Frame(r)) = RespLen
         /\ \A i \in 1..RespLen : /\ Frame(r)[i] = [req |-> r, ix |-> i]
                                 /\ Frame(r)[i].req = r /\ Frame(r)[i].ix = i
         /\ r # 0 /\ RespLen \in Nat
  <1>1. RespLen \in Nat /\ MaxReq \in Nat
    BY FrameAssumption, BoundAssumption
  <1>2. \A i \in 1..RespLen : [req |-> r, ix |-> i] \in Unit
    BY <1>1 DEF Unit
  <1>3. Frame(r) \in [1..RespLen -> Unit]
    BY <1>2 DEF Frame
  <1> QED  BY <1>1, <1>3 DEF Frame

-----------------------------------------------------------------------------
(* Types. *)

\* The locals of a call that has not begun.
LEMMA FreshLocals == Fresh \in Locals
  BY FrameAssumption, BoundAssumption DEF Fresh, Locals

\* An error return leaves everything it touches well typed.
LEMMA FailTyped ==
  ASSUME TypeOK, NEW e \in Errors, Fail(e)
  PROVE  /\ pc' = "failed" /\ loc' = Fresh /\ failures' \in Seq(Failure)
         /\ pc' \in PCs /\ loc' \in Locals
         /\ conn' = conn /\ delivered' = delivered
         /\ Len(failures) \in Nat /\ Len(failures') = Len(failures) + 1
         /\ failures'[Len(failures) + 1].err = e
         /\ failures'[Len(failures) + 1].at = pc
         /\ failures'[Len(failures) + 1].req = loc.req
         /\ failures'[Len(failures) + 1].slept = loc.slept
         /\ \A i \in 1..Len(failures) : failures'[i] = failures[i]
  <1> DEFINE f == [err |-> e, at |-> pc, req |-> loc.req, wrote |-> loc.wrote,
                   slept |-> loc.slept, dirty |-> loc.dirty]
  <1>1. loc \in Locals /\ failures \in Seq(Failure) /\ pc \in PCs
    BY DEF TypeOK
  <1>2. f \in Failure
    BY <1>1 DEF Failure, Locals
  <1>3. failures' = Append(failures, f)
    BY DEF Fail
  <1>4. f.err = e /\ f.at = pc /\ f.req = loc.req /\ f.slept = loc.slept
    OBVIOUS
  <1> HIDE DEF f
  <1>5. pc' = "failed" /\ loc' = Fresh /\ conn' = conn /\ delivered' = delivered
    BY DEF Fail
  <1> QED  BY <1>1, <1>2, <1>3, <1>4, <1>5, FreshLocals, AppendLast DEF PCs

\* The map_err closures return errors of BridgeError.
LEMMA ErrorNames ==
  /\ TcpErr.PayloadTooShort \in Errors /\ TcpErr.Tcp \in Errors /\ TcpErr.Push \in Errors
  /\ RtuErr.Serial \in Errors /\ RtuErr.Crc \in Errors /\ RtuErr.PayloadTooShort \in Errors
  /\ "Timeout" \in Errors
  BY DEF TcpErr, RtuErr, Errors

TypedControl == TypeOK /\ ControlOK

\* A call that returns an error keeps TypedControl, whatever it has read of
\* the stream and of the serial port.
LEMMA FailKeepsTypes ==
  ASSUME TypedControl, NEW e \in Errors, Fail(e), pc # "idle",
         txEn' \in BOOLEAN, reqs' = reqs, part' = part, eof' = eof,
         tcpIn' = tcpIn \/ (tcpIn # <<>> /\ tcpIn' = Tail(tcpIn)),
         dev' = dev, wire' = wire, rx' \in Seq(Unit)
  PROVE  TypedControl'
  <1>1. TypeOK /\ ControlOK
    BY DEF TypedControl
  <1>2. /\ tcpIn' \in Seq(1..MaxReq)
        /\ \A i \in 1..Len(tcpIn') : tcpIn'[i] \in 1..Len(reqs)
    <2>1. tcpIn \in Seq(1..MaxReq) /\ \A i \in 1..Len(tcpIn) : tcpIn[i] \in 1..Len(reqs)
      BY <1>1 DEF TypeOK, ControlOK
    <2>2. CASE tcpIn' = tcpIn
      BY <2>1, <2>2
    <2>3. CASE tcpIn # <<>> /\ tcpIn' = Tail(tcpIn)
      BY <2>1, <2>3, HeadTail
    <2> QED  BY <2>2, <2>3
  <1>3. TypeOK'
    BY <1>1, <1>2, FailTyped DEF TypeOK
  <1>4. ControlOK'
    BY <1>1, <1>2, FailTyped DEF ControlOK, Exchange, Unsent
  <1> QED  BY <1>3, <1>4 DEF TypedControl

LEMMA FailAloneKeepsTypes ==
  ASSUME TypedControl, NEW e \in Errors, Fail(e), pc # "idle",
         UNCHANGED <<txEn, tcpVars, lineVars>>
  PROVE  TypedControl'
  <1>1. txEn \in BOOLEAN /\ rx \in Seq(Unit)
    BY DEF TypedControl, TypeOK
  <1>2. UNCHANGED <<txEn, reqs, tcpIn, part, eof, dev, wire, rx>>
    BY DEF tcpVars, lineVars
  <1> QED  BY <1>1, <1>2, FailKeepsTypes

LEMMA TypesInit == Init => TypedControl
  <1> SUFFICES ASSUME Init PROVE TypeOK /\ ControlOK
    BY DEF TypedControl
  <1>1. TypeOK
    <2>1. txEn \in BOOLEAN /\ part \in BOOLEAN /\ eof \in BOOLEAN
      BY Zenon DEF Init
    <2>3. pc \in PCs /\ conn \in 0..MaxConn
      BY BoundAssumption DEF Init, PCs
    <2>2. /\ delivered = <<>> /\ failures = <<>> /\ reqs = <<>> /\ tcpIn = <<>>
          /\ dev = <<>> /\ wire = <<>> /\ rx = <<>> /\ loc = Fresh
      BY DEF Init
    <2> QED  BY <2>1, <2>2, <2>3, FreshLocals, EmptySeq, BoundAssumption DEF TypeOK
  <1>2. pc = "idle" /\ tcpIn = <<>> /\ wire = <<>>
    BY DEF Init
  <1>3. 1..Len(tcpIn) = {} /\ 1..Len(wire) = {}
    BY <1>2
  <1>4. ControlOK
    BY <1>2, <1>3 DEF ControlOK, Exchange, Unsent
  <1> QED  BY <1>1, <1>4

\* The units read so far and the one on top of the UART buffer.
LEMMA GotUnits ==
  ASSUME TypeOK, rx # <<>>
  PROVE  /\ Got \in Seq(Unit) /\ Len(Got) = Len(loc.got) + 1
         /\ Tail(rx) \in Seq(Unit) /\ Len(loc.got) \in Nat
  <1>1. loc.got \in Seq(Unit) /\ rx \in Seq(Unit)
    BY DEF TypeOK, Locals
  <1> QED  BY <1>1, HeadTail, AppendLast DEF Got

\* A header never asks for more units than the bound.
LEMMA RemainingBound ==
  ASSUME NEW h, NEW n \in Remaining(h)  PROVE n \in 1..MaxNeed
  BY FrameAssumption DEF Remaining

\* A request number that names a sent request is within the bound.
LEMMA RequestNumbers ==
  ASSUME TypeOK  PROVE Len(reqs) \in Nat /\ 1..Len(reqs) \subseteq 1..MaxReq
  BY BoundAssumption DEF TypeOK

LEMMA TypesCaller ==
  ASSUME TypedControl, Accept \/ CallNext \/ IntoStream  PROVE TypedControl'
  <1> SUFFICES TypeOK' /\ ControlOK'
    BY DEF TypedControl
  <1> USE DEF TypedControl
  <1>1. CASE Accept
    <2>1. 1..Len(tcpIn') = {} /\ tcpIn' = <<>>
      BY <1>1 DEF Accept
    <2>2. part' \in BOOLEAN /\ eof' \in BOOLEAN
      BY <1>1, Zenon DEF Accept
    <2>3. pc' = "ready" /\ conn' \in 1..MaxConn
      BY <1>1, BoundAssumption DEF Accept, TypeOK
    <2>4. UNCHANGED <<loc, txEn, failures, delivered, reqs, dev, wire, rx>>
      BY <1>1 DEF Accept, lineVars
    <2>5. TypeOK'
      BY <2>1, <2>2, <2>3, <2>4, EmptySeq DEF TypeOK, PCs
    <2>6. ControlOK'
      BY <2>1, <2>3, <2>4 DEF ControlOK, Exchange, Unsent
    <2> QED  BY <2>5, <2>6
  <1>2. CASE CallNext
    <2>1. [Fresh EXCEPT !.dirty = Owed] \in Locals /\ [Fresh EXCEPT !.dirty = Owed].got = <<>>
      <3>1. Owed \in BOOLEAN
        BY Zenon DEF Owed
      <3> HIDE DEF Owed
      <3> QED  BY <3>1, FreshLocals DEF Locals, Fresh
    <2>2. loc' = [Fresh EXCEPT !.dirty = Owed] /\ pc' \in {"tcpPoll", "tcpListen"} /\ pc = "ready"
      BY <1>2 DEF CallNext
    <2>3. UNCHANGED <<conn, txEn, failures, delivered, reqs, tcpIn, part, eof, dev, wire, rx>>
      BY <1>2 DEF CallNext, tcpVars, lineVars
    <2>4. TypeOK'
      BY <2>1, <2>2, <2>3 DEF TypeOK, PCs
    <2>5. ControlOK'
      BY <2>1, <2>2, <2>3 DEF ControlOK, Exchange, Unsent
    <2> QED  BY <2>4, <2>5
  <1>3. CASE IntoStream
    BY <1>3 DEF IntoStream, TypeOK, ControlOK, PCs, Exchange, Unsent, tcpVars, lineVars
  <1> QED  BY <1>1, <1>2, <1>3

LEMMA TypesListen ==
  ASSUME TypedControl, Listen  PROVE TypedControl'
  <1> USE DEF TypedControl, tcpVars, lineVars
  <1>1. CASE TcpListenOk
    <2>1. tcpIn \in Seq(1..MaxReq) /\ tcpIn # <<>>
      BY <1>1 DEF TcpListenOk, TypeOK
    <2>2. Head(tcpIn) \in 1..Len(reqs) /\ Head(tcpIn) \in 1..MaxReq
      <3>1. Head(tcpIn) = tcpIn[1] /\ 1 \in 1..Len(tcpIn)
        BY <2>1, HeadTail
      <3>2. TypeOK /\ \A i \in 1..Len(tcpIn) : tcpIn[i] \in 1..Len(reqs)
        BY DEF ControlOK
      <3> QED  BY <3>1, <3>2, RequestNumbers
    <2>3. Head0 \in Request
      BY <2>2 DEF Head0, TypeOK
    <2>4. /\ loc' \in Locals /\ loc'.req = Head(tcpIn) /\ loc'.tid \in Tids
          /\ loc'.got = loc.got
      <3>1. loc \in Locals
        BY DEF TypeOK
      <3>2. Head0.tid \in Tids
        BY <2>3 DEF Request
      <3>3. loc' = [loc EXCEPT !.req  = Head(tcpIn), !.tid = Head0.tid,
                        !.seen = IF Head0.kind = "bare" THEN 0 ELSE Head(tcpIn)]
        BY <1>1 DEF TcpListenOk
      <3> DEFINE tid == Head0.tid
                 seen == IF Head0.kind = "bare" THEN 0 ELSE Head(tcpIn)
                 r == Head(tcpIn)
      <3>4. seen \in 0..MaxReq /\ r \in 0..MaxReq /\ tid \in Tids
        BY <2>2, <3>2, BoundAssumption
      <3>5. loc' = [loc EXCEPT !.req = r, !.tid = tid, !.seen = seen]
        BY <3>3
      <3> HIDE DEF tid, seen, r
      <3>6. loc' \in Locals /\ loc'.req = r /\ loc'.tid = tid /\ loc'.got = loc.got
        BY <3>1, <3>4, <3>5 DEF Locals
      <3> QED  BY <3>4, <3>6 DEF r
    <2>5. pc = "tcpListen" /\ pc' \in {"rtuPoll", "flush"} /\ tcpIn' = Tail(tcpIn)
      BY <1>1 DEF TcpListenOk
    <2>6. UNCHANGED <<conn, txEn, failures, delivered, reqs, part, eof, dev, wire, rx>>
      BY <1>1 DEF TcpListenOk
    <2>7. TypeOK'
      BY <2>1, <2>4, <2>5, <2>6, HeadTail DEF TypeOK, PCs
    <2>8. ControlOK'
      BY <2>1, <2>2, <2>4, <2>5, <2>6, HeadTail DEF ControlOK, Exchange, Unsent
    <2> QED  BY <2>7, <2>8
  <1>2. CASE TcpListenReject \/ TcpListenEof \/ TcpListenError
    <2>1. PICK e \in Errors : Fail(e)
      BY <1>2, ErrorNames DEF TcpListenReject, TcpListenEof, TcpListenError
    <2>2. /\ pc # "idle" /\ UNCHANGED <<txEn, reqs, part, eof, dev, wire, rx>>
          /\ tcpIn' = tcpIn \/ (tcpIn # <<>> /\ tcpIn' = Tail(tcpIn))
      BY <1>2 DEF TcpListenReject, TcpListenEof, TcpListenError
    <2> QED  BY <2>1, <2>2, FailKeepsTypes DEF TypeOK
  <1> QED  BY <1>1, <1>2 DEF Listen, ListenFrame

LEMMA TypesSend ==
  ASSUME TypedControl, Send  PROVE TypedControl'
  <1> USE DEF TypedControl, tcpVars, lineVars
  <1>1. CASE SendFlush \/ SendDrain
    <2>1. txEn' \in BOOLEAN
      BY <1>1, Zenon DEF SendFlush, SendDrain
    <2>2. \/ pc = "flush" /\ pc' = "write"
          \/ pc = "drain" /\ pc' = "receive"
      BY <1>1 DEF SendFlush, SendDrain
    <2>3. UNCHANGED <<conn, loc, failures, delivered, reqs, tcpIn, part, eof, dev, wire, rx>>
      BY <1>1 DEF SendFlush, SendDrain
    <2> QED  BY <2>1, <2>2, <2>3 DEF TypeOK, ControlOK, PCs, Exchange, Unsent
  <1>2. CASE SendWrite
    <2>1. PICK n \in 1..(ReqLen - loc.wrote) :
            /\ loc' = [loc EXCEPT !.wrote = @ + n]
            /\ pc' \in {"write", "drain"}
            /\ dev' \in {dev, Append(dev, loc.req)}
      BY <1>2 DEF SendWrite
    <2>2. loc \in Locals /\ loc.req \in 1..MaxReq /\ pc = "write"
      <3>1. pc = "write" /\ loc \in Locals /\ loc.req \in 1..Len(reqs)
        BY <1>2 DEF SendWrite, TypeOK, ControlOK, Exchange
      <3> QED  BY <3>1, RequestNumbers
    <2>3. loc' \in Locals /\ loc'.req = loc.req /\ loc'.tid = loc.tid /\ loc'.got = loc.got
      <3>1. loc.wrote \in 0..ReqLen
        BY <2>2 DEF Locals
      <3>2. loc.wrote + n \in 0..ReqLen
        BY <3>1, FrameAssumption
      <3> QED  BY <2>1, <2>2, <3>2 DEF Locals
    <2>4. dev' \in Seq(1..MaxReq)
      <3>1. dev \in Seq(1..MaxReq)
        BY DEF TypeOK
      <3>2. Append(dev, loc.req) \in Seq(1..MaxReq)
        BY <3>1, <2>2
      <3> QED  BY <2>1, <3>1, <3>2
    <2>5. UNCHANGED <<conn, txEn, failures, delivered, reqs, tcpIn, part, eof, wire, rx>>
      BY <1>2 DEF SendWrite
    <2>6. TypeOK'
      BY <2>1, <2>3, <2>4, <2>5 DEF TypeOK, PCs
    <2>7. ControlOK'
      BY <2>1, <2>2, <2>3, <2>5 DEF ControlOK, Exchange, Unsent
    <2> QED  BY <2>6, <2>7
  <1>3. CASE SendError
    <2>1. Fail(RtuErr.Serial) /\ pc # "idle" /\ UNCHANGED <<txEn, tcpVars, lineVars>>
      BY <1>3 DEF SendError
    <2> QED  BY <2>1, ErrorNames, FailAloneKeepsTypes
  <1> QED  BY <1>1, <1>2, <1>3 DEF Send, SendFrame

LEMMA TypesReceive ==
  ASSUME TypedControl, Receive  PROVE TypedControl'
  <1> USE DEF TypedControl
  <1>1. loc \in Locals /\ pc = "receive" /\ pc # "idle"
    BY DEF TypeOK, Receive, ReadUnit, ReadHeader, ReadBody, ReadLast, ReadEof,
           ReadRetry, ReadGiveUp
  <1>a. 1 \in 1..(MaxAttempt + 1) /\ MaxAttempt \in Nat
    BY FrameAssumption
  <1>2. ASSUME loc' \in Locals, loc'.req = loc.req, loc'.tid = loc.tid, loc'.dirty = loc.dirty,
               pc' = "receive" \/ (pc' = "reply" /\ loc'.resp \in 1..Len(reqs)),
               rx' \in Seq(Unit),
               UNCHANGED <<conn, txEn, failures, delivered, tcpVars, dev, wire>>
        PROVE  TypedControl'
    <2>1. UNCHANGED <<reqs, tcpIn, part, eof>>
      BY <1>2 DEF tcpVars
    <2>2. TypeOK'
      BY <1>2, <2>1 DEF TypeOK, PCs
    <2>3. ControlOK'
      BY <1>1, <1>2, <2>1 DEF ControlOK, Exchange, Unsent
    <2> QED  BY <2>2, <2>3
  <1>3. CASE ReadHeader
    <2>1. Got \in Seq(Unit) /\ rx' \in Seq(Unit)
      BY <1>3, GotUnits DEF ReadHeader
    <2>2. \/ loc' = [loc EXCEPT !.got = Got]
          \/ \E n \in 1..MaxNeed : loc' = [loc EXCEPT !.got = Got, !.need = n, !.attempt = 1]
      BY <1>3, RemainingBound DEF ReadHeader
    <2>3. /\ loc' \in Locals /\ loc'.req = loc.req /\ loc'.tid = loc.tid
          /\ loc'.dirty = loc.dirty
      <3> HIDE DEF Got
      <3>1. CASE loc' = [loc EXCEPT !.got = Got]
        BY <1>1, <2>1, <3>1 DEF Locals
      <3>2. ASSUME NEW n \in 1..MaxNeed,
                   loc' = [loc EXCEPT !.got = Got, !.need = n, !.attempt = 1]
            PROVE  /\ loc' \in Locals /\ loc'.req = loc.req /\ loc'.tid = loc.tid
                   /\ loc'.dirty = loc.dirty
        <4>1. n \in 0..MaxNeed
          BY FrameAssumption
        <4> QED  BY <1>1, <1>a, <2>1, <3>2, <4>1 DEF Locals
      <3> QED  BY <2>2, <3>1, <3>2
    <2> QED  BY <1>1, <1>2, <1>3, <2>1, <2>3 DEF ReadHeader
  <1>4. CASE ReadBody
    <2>1. Got \in Seq(Unit) /\ rx' \in Seq(Unit)
      BY <1>4, GotUnits DEF ReadBody
    <2>2. loc' = [loc EXCEPT !.got = Got, !.need = @ - 1, !.attempt = 1] /\ loc.need > 1
      BY <1>4 DEF ReadBody
    <2>3. loc.need - 1 \in 0..MaxNeed
      BY <1>1, <2>2, FrameAssumption DEF Locals
    <2>4. /\ loc' \in Locals /\ loc'.req = loc.req /\ loc'.tid = loc.tid
          /\ loc'.dirty = loc.dirty
      <3> HIDE DEF Got
      <3> QED  BY <1>1, <1>a, <2>1, <2>2, <2>3 DEF Locals
    <2> QED  BY <1>1, <1>2, <1>4, <2>1, <2>4 DEF ReadBody
  <1>5. CASE ReadLast
    <2>1. Got \in Seq(Unit) /\ rx' \in Seq(Unit)
      BY <1>5, GotUnits DEF ReadLast
    <2>2. CASE \E r \in Intact(Got) :
                 /\ loc' = [loc EXCEPT !.got = Got, !.need = 0, !.attempt = 1, !.resp = r]
                 /\ pc' = "reply"
                 /\ UNCHANGED <<conn, failures, delivered>>
      <3>1. PICK r \in 1..Len(reqs) :
              /\ loc' = [loc EXCEPT !.got = Got, !.need = 0, !.attempt = 1, !.resp = r]
              /\ pc' = "reply" /\ UNCHANGED <<conn, failures, delivered>>
        BY <2>2 DEF Intact
      <3>2. r \in 0..MaxReq /\ 0 \in 0..MaxNeed
        BY <3>1, RequestNumbers, FrameAssumption, BoundAssumption
      <3>3. /\ loc' \in Locals /\ loc'.req = loc.req /\ loc'.tid = loc.tid
            /\ loc'.dirty = loc.dirty /\ loc'.resp = r
        <4> HIDE DEF Got
        <4> QED  BY <1>1, <1>a, <2>1, <3>1, <3>2 DEF Locals
      <3> QED  BY <1>2, <1>5, <2>1, <3>1, <3>3 DEF ReadLast
    <2>3. CASE Fail(RtuErr.Crc)
      <3>1. UNCHANGED <<txEn, reqs, tcpIn, part, eof, dev, wire>> /\ txEn \in BOOLEAN
        BY <1>5 DEF ReadLast, tcpVars, TypeOK
      <3> QED  BY <1>1, <2>1, <2>3, <3>1, ErrorNames, FailKeepsTypes
    <2> QED  BY <1>5, <2>2, <2>3 DEF ReadLast
  <1>6. CASE ReadEof \/ ReadGiveUp
    <2>1. /\ Fail(RtuErr.PayloadTooShort) \/ Fail(RtuErr.Serial)
          /\ UNCHANGED <<txEn, tcpVars, lineVars>>
      BY <1>6 DEF ReadEof, ReadGiveUp
    <2> QED  BY <1>1, <2>1, ErrorNames, FailAloneKeepsTypes
  <1>7. CASE ReadRetry
    <2>1. loc' = [loc EXCEPT !.attempt = @ + 1] /\ loc.attempt <= MaxAttempt
      BY <1>7 DEF ReadRetry
    <2>2. loc.attempt + 1 \in 1..(MaxAttempt + 1)
      BY <1>1, <1>a, <2>1 DEF Locals
    <2>3. /\ loc' \in Locals /\ loc'.req = loc.req /\ loc'.tid = loc.tid
          /\ loc'.dirty = loc.dirty
      BY <1>1, <2>1, <2>2 DEF Locals
    <2> QED  BY <1>1, <1>2, <1>7, <2>3 DEF ReadRetry, TypeOK, lineVars
  <1> QED  BY <1>3, <1>4, <1>5, <1>6, <1>7 DEF Receive, ReadUnit

LEMMA TypesReply ==
  ASSUME TypedControl, Reply  PROVE TypedControl'
  <1> USE DEF TypedControl
  <1>1. CASE ReplySend
    <2> DEFINE d == [conn |-> conn, tid |-> loc.tid, req |-> loc.req, seen |-> loc.seen,
                     resp |-> loc.resp, dirty |-> loc.dirty]
    <2>1. /\ pc = "reply" /\ pc' = "ready" /\ loc' = Fresh
          /\ delivered' = Append(delivered, d)
          /\ UNCHANGED <<conn, txEn, failures, tcpVars, lineVars>>
      BY <1>1 DEF ReplySend
    <2>2. /\ conn \in 1..MaxConn /\ loc.req \in 1..Len(reqs) /\ loc.tid \in Tids
          /\ loc.resp \in 1..Len(reqs) /\ loc \in Locals
      BY <2>1 DEF ControlOK, Exchange, TypeOK
    <2>3. loc.req \in 1..MaxReq /\ loc.resp \in 1..MaxReq
      BY <2>2, RequestNumbers
    <2>4. d \in Delivery
      BY <2>2, <2>3 DEF Delivery, Locals
    <2> HIDE DEF d
    <2>5. delivered' \in Seq(Delivery)
      BY <2>1, <2>4 DEF TypeOK
    <2>6. UNCHANGED <<reqs, tcpIn, part, eof, dev, wire, rx>>
      BY <2>1 DEF tcpVars, lineVars
    <2>7. TypeOK'
      BY <2>1, <2>5, <2>6, FreshLocals DEF TypeOK, PCs
    <2>8. ControlOK'
      BY <2>1, <2>2, <2>6 DEF ControlOK, Exchange, Unsent
    <2> QED  BY <2>7, <2>8
  <1>2. CASE ReplyError
    <2>1. Fail("TcpIo") /\ pc # "idle" /\ UNCHANGED <<txEn, tcpVars, lineVars>>
      BY <1>2 DEF ReplyError
    <2> QED  BY <2>1, FailAloneKeepsTypes DEF Errors
  <1> QED  BY <1>1, <1>2 DEF Reply

LEMMA TypesDeadlines ==
  ASSUME TypedControl, AsyncDeadlines  PROVE TypedControl'
  <1>1. Fail("Timeout") /\ pc # "idle" /\ UNCHANGED <<txEn, tcpVars, lineVars>>
    BY DEF AsyncDeadlines, TcpDeadline, RtuDeadline
  <1> QED  BY <1>1, ErrorNames, FailAloneKeepsTypes

LEMMA TypesPolls ==
  ASSUME TypedControl, SyncPolls  PROVE TypedControl'
  <1> USE DEF TypedControl
  <1>1. loc \in Locals /\ pc \in {"tcpPoll", "rtuPoll"}
    BY DEF TypeOK, SyncPolls, Polling, PollReady, ReadReady, PollSleep, PollExpire, PollError,
           NothingReady
  <1>2. CASE PollReady \/ PollSleep
    <2>1. /\ \/ loc' = [loc EXCEPT !.elapsed = 0, !.slept = 0]
             \/ loc' = [loc EXCEPT !.elapsed = @ + 1, !.slept = @ + 1]
          /\ \/ pc' = pc
             \/ pc = "tcpPoll" /\ pc' = "tcpListen"
             \/ pc = "rtuPoll" /\ pc' = "flush"
          /\ UNCHANGED <<conn, txEn, failures, delivered, tcpVars, lineVars>>
      BY <1>2 DEF PollReady, ReadReady, PollSleep
    <2>2. UNCHANGED <<reqs, tcpIn, part, eof, dev, wire, rx>>
      BY <2>1 DEF tcpVars, lineVars
    <2>3. /\ loc' \in Locals /\ loc'.req = loc.req /\ loc'.tid = loc.tid
          /\ loc'.got = loc.got
      <3>1. loc.elapsed \in Nat /\ loc.slept \in Nat
        BY <1>1 DEF Locals
      <3>2. CASE loc' = [loc EXCEPT !.elapsed = 0, !.slept = 0]
        BY <1>1, <3>2 DEF Locals
      <3>3. CASE loc' = [loc EXCEPT !.elapsed = @ + 1, !.slept = @ + 1]
        <4> DEFINE a == loc.elapsed + 1
                   b == loc.slept + 1
        <4>1. a \in Nat /\ b \in Nat /\ loc' = [loc EXCEPT !.elapsed = a, !.slept = b]
          BY <3>1, <3>3
        <4> HIDE DEF a, b
        <4> QED  BY <1>1, <4>1 DEF Locals
      <3> QED  BY <2>1, <3>2, <3>3
    <2>4. TypeOK'
      BY <2>1, <2>2, <2>3 DEF TypeOK, PCs
    <2>5. ControlOK'
      BY <1>1, <2>1, <2>2, <2>3 DEF ControlOK, Exchange, Unsent
    <2> QED  BY <2>4, <2>5
  <1>3. CASE PollExpire \/ PollError
    <2>1. PICK e \in {"Timeout", "TcpIo", "RtuIo"} : Fail(e)
      BY <1>3 DEF PollExpire, PollError
    <2>2. UNCHANGED <<txEn, tcpVars, lineVars>> /\ e \in Errors /\ pc # "idle"
      BY <1>1, <1>3, <2>1 DEF PollExpire, PollError, Errors
    <2> QED  BY <2>1, <2>2, FailAloneKeepsTypes
  <1> QED  BY <1>2, <1>3 DEF SyncPolls, Polling

LEMMA TypesClient ==
  ASSUME TypedControl, Client  PROVE TypedControl'
  <1> USE DEF TypedControl, lineVars
  <1>1. CASE ClientBegin \/ ClientClose
    <2>1. part' \in BOOLEAN /\ eof' \in BOOLEAN
      BY <1>1, Zenon DEF ClientBegin, ClientClose, TypeOK
    <2>2. UNCHANGED <<pc, conn, loc, txEn, failures, delivered, reqs, tcpIn, dev, wire, rx>>
      BY <1>1 DEF ClientBegin, ClientClose
    <2> QED  BY <2>1, <2>2 DEF TypeOK, ControlOK
  <1>2. CASE ClientSend
    <2>1. /\ pc # "idle" /\ Len(reqs) < MaxReq /\ part' = FALSE
          /\ tcpIn' = Append(tcpIn, Len(reqs'))
          /\ UNCHANGED <<pc, conn, loc, txEn, failures, delivered, eof, dev, wire, rx>>
      BY <1>2 DEF ClientSend
    <2>2. PICK t \in Tids, k \in Kinds : reqs' = Append(reqs, [conn |-> conn, tid |-> t, kind |-> k])
      BY <1>2 DEF ClientSend
    <2>3. [conn |-> conn, tid |-> t, kind |-> k] \in Request
      BY <2>1 DEF ControlOK, Request
    <2>4. /\ reqs \in Seq(Request) /\ tcpIn \in Seq(1..MaxReq)
          /\ \A i \in 1..Len(tcpIn) : tcpIn[i] \in 1..Len(reqs)
      BY DEF TypeOK, ControlOK
    <2>5. reqs' \in Seq(Request) /\ Len(reqs') = Len(reqs) + 1 /\ Len(reqs) \in Nat
      BY <2>2, <2>3, <2>4, AppendLast
    <2>6. Len(reqs') \in 1..MaxReq /\ Len(reqs') <= MaxReq
      BY <2>1, <2>5, BoundAssumption
    <2>7. /\ tcpIn' \in Seq(1..MaxReq)
          /\ \A i \in 1..Len(tcpIn') : tcpIn'[i] \in 1..Len(reqs')
      BY <2>1, <2>4, <2>5, <2>6, AppendLast
    <2>8. part' \in BOOLEAN
      BY <2>1, Zenon
    <2>9. TypeOK'
      BY <2>1, <2>5, <2>6, <2>7, <2>8 DEF TypeOK
    <2>10. ControlOK'
      BY <2>1, <2>5, <2>7 DEF ControlOK
    <2> QED  BY <2>9, <2>10
  <1> QED  BY <1>1, <1>2 DEF Client

LEMMA TypesLine ==
  ASSUME TypedControl, Line  PROVE TypedControl'
  <1> USE DEF TypedControl
  <1>1. /\ dev \in Seq(1..MaxReq) /\ wire \in Seq(Unit) /\ rx \in Seq(Unit)
        /\ \A i \in 1..Len(wire) : wire[i].req # 0
    BY DEF TypeOK, ControlOK
  <1>2. UNCHANGED <<pc, conn, loc, txEn, failures, delivered, reqs, tcpIn, part, eof>>
    BY DEF Line, DeviceAnswer, DeviceIgnore, Arrive, Babble, tcpVars
  <1>3. Noise \in Unit
    BY FrameAssumption, BoundAssumption DEF Noise, Unit
  <1>4. /\ dev' \in Seq(1..MaxReq) /\ wire' \in Seq(Unit) /\ rx' \in Seq(Unit)
        /\ \A i \in 1..Len(wire') : wire'[i].req # 0
    <2>1. CASE DeviceAnswer
      <3>1. dev # <<>> /\ dev' = Tail(dev) /\ wire' = wire \o Frame(Head(dev)) /\ rx' = rx
        BY <2>1 DEF DeviceAnswer
      <3>2. Head(dev) \in 1..MaxReq /\ dev' \in Seq(1..MaxReq)
        BY <1>1, <3>1, HeadTail
      <3> DEFINE r == Head(dev)
                 f == Frame(r)
      <3>r. r \in 1..MaxReq
        BY <3>2
      <3> HIDE DEF r
      <3>3. /\ f \in Seq(Unit) /\ Len(f) = RespLen
            /\ \A i \in 1..RespLen : f[i].req # 0
        BY <3>r, FrameUnits
      <3> HIDE DEF f
      <3>4. wire' = wire \o f
        BY <3>1 DEF f, r
      <3>5. wire' \in Seq(Unit) /\ \A i \in 1..Len(wire') : wire'[i].req # 0
        BY <1>1, <3>3, <3>4, Joined
      <3> QED  BY <1>1, <3>1, <3>2, <3>5
    <2>2. CASE DeviceIgnore
      BY <1>1, <2>2, HeadTail DEF DeviceIgnore
    <2>3. CASE Arrive
      <3>1. wire # <<>> /\ wire' = Tail(wire) /\ dev' = dev
        BY <2>3 DEF Arrive
      <3>2. rx' \in {rx, Append(rx, Head(wire)), Append(rx, Noise)}
        BY <2>3 DEF Arrive
      <3>3. Head(wire) \in Unit /\ wire' \in Seq(Unit)
        BY <1>1, <3>1, HeadTail
      <3>4. \A i \in 1..Len(wire') : wire'[i].req # 0
        BY <1>1, <3>1, HeadTail
      <3>5. /\ Append(rx, Head(wire)) \in Seq(Unit)
            /\ Append(rx, Noise) \in Seq(Unit)
        BY <1>1, <1>3, <3>3, AppendLast
      <3>6. rx' \in Seq(Unit)
        BY <1>1, <3>2, <3>5
      <3> QED  BY <1>1, <3>1, <3>3, <3>4, <3>6
    <2>4. CASE Babble
      BY <1>1, <1>3, <2>4, AppendLast DEF Babble
    <2> QED  BY <2>1, <2>2, <2>3, <2>4 DEF Line
  <1> QED  BY <1>2, <1>4 DEF TypeOK, ControlOK

LEMMA TypesNext == TypedControl /\ [Next]_vars => TypedControl'
  <1> SUFFICES ASSUME TypedControl, [Next]_vars PROVE TypedControl'
    OBVIOUS
  <1>1. CASE UNCHANGED vars
    BY <1>1 DEF vars, tcpVars, lineVars, TypedControl, TypeOK, ControlOK
  <1>2. CASE Next
    BY <1>2, TypesCaller, TypesListen, TypesSend, TypesReceive, TypesReply,
       TypesDeadlines, TypesPolls, TypesClient, TypesLine DEF Next, Cycle
  <1> QED  BY <1>1, <1>2

(***************************************************************************)
(* Every variable keeps its type: no answer is delivered, no request read  *)
(* or sent, that no client asked for, and no attempt is made beyond the    *)
(* limit of read_exact.                                                    *)
(***************************************************************************)
THEOREM TypeCorrect == Spec => []TypeOK
  <1>1. TypedControl => TypeOK
    BY DEF TypedControl
  <1> QED  BY <1>1, TypesInit, TypesNext, PTL DEF Spec

-----------------------------------------------------------------------------
(* The units on the line. *)

LEMMA RealUnits ==
  ASSUME NEW s
  PROVE  Real(s) = {} <=> \A i \in 1..Len(s) : s[i].req = 0
  BY DEF Real

LEMMA ApartSymmetric ==
  ASSUME NEW s, NEW t, Apart(s, t)  PROVE Apart(t, s)
  BY DEF Apart

\* Moving the head of one queue to the end of another keeps every unit in
\* one place.
LEMMA MoveUnit ==
  ASSUME NEW w, NEW g \in Seq(Unit), NEW q \in Seq(Unit), q # <<>>,
         Once(g), Once(q), Apart(g, q), Apart(g, w), Apart(q, w)
  PROVE  LET h == Append(g, Head(q)) IN
         /\ Once(h) /\ Once(Tail(q))
         /\ Apart(h, Tail(q)) /\ Apart(h, w) /\ Apart(Tail(q), w)
  <1> DEFINE h == Append(g, Head(q))
             t == Tail(q)
             n == Len(g) + 1
  <1>1. /\ Head(q) = q[1] /\ 1 \in 1..Len(q)
        /\ \A i \in 1..Len(t) : i + 1 \in 1..Len(q) /\ t[i] = q[i + 1] /\ i + 1 # 1
    BY HeadTail
  <1>2. /\ Len(h) = n /\ h[n] = q[1] /\ Len(g) \in Nat
        /\ \A i \in 1..Len(h) : i # n => i \in 1..Len(g) /\ h[i] = g[i]
    BY <1>1, HeadTail, AppendLast
  <1> HIDE DEF h, t, n
  <1>4. Once(t)
    <2> SUFFICES ASSUME NEW i \in 1..Len(t), NEW j \in 1..Len(t), i # j, t[i].req # 0
                 PROVE  t[i] # t[j]
      BY DEF Once
    <2>1. /\ i + 1 \in 1..Len(q) /\ j + 1 \in 1..Len(q) /\ i + 1 # j + 1
          /\ t[i] = q[i + 1] /\ t[j] = q[j + 1]
      BY <1>1
    <2>2. \A k, l \in 1..Len(q) : k # l /\ q[k].req # 0 => q[k] # q[l]
      BY DEF Once
    <2> QED  BY <2>1, <2>2, Zenon
  <1>5. Once(h)
    <2> SUFFICES ASSUME NEW i \in 1..Len(h), NEW j \in 1..Len(h), i # j, h[i].req # 0
                 PROVE  h[i] # h[j]
      BY DEF Once
    <2>1. CASE i # n /\ j # n
      BY <1>2, <2>1 DEF Once
    <2>2. CASE i # n /\ j = n
      BY <1>1, <1>2, <2>2 DEF Apart
    <2>3. CASE i = n /\ j # n
      BY <1>1, <1>2, <2>3 DEF Apart
    <2> QED  BY <2>1, <2>2, <2>3
  <1>6. Apart(h, t)
    <2> SUFFICES ASSUME NEW i \in 1..Len(h), NEW j \in 1..Len(t), h[i].req # 0
                 PROVE  h[i] # t[j]
      BY DEF Apart
    <2>1. CASE i = n
      BY <1>1, <1>2, <2>1 DEF Once
    <2>2. CASE i # n
      BY <1>1, <1>2, <2>2 DEF Apart
    <2> QED  BY <2>1, <2>2
  <1>7. Apart(h, w)
    <2> SUFFICES ASSUME NEW i \in 1..Len(h), NEW j \in 1..Len(w), h[i].req # 0
                 PROVE  h[i] # w[j]
      BY DEF Apart
    <2>1. CASE i = n
      BY <1>1, <1>2, <2>1 DEF Apart
    <2>2. CASE i # n
      BY <1>1, <1>2, <2>2 DEF Apart
    <2> QED  BY <2>1, <2>2
  <1>8. Apart(t, w)
    <2> SUFFICES ASSUME NEW i \in 1..Len(t), NEW j \in 1..Len(w), t[i].req # 0
                 PROVE  t[i] # w[j]
      BY DEF Apart
    <2>1. i + 1 \in 1..Len(q) /\ t[i] = q[i + 1]
      BY <1>1
    <2> QED  BY <2>1 DEF Apart
  <1> QED  BY <1>4, <1>5, <1>6, <1>7, <1>8 DEF h, t

LEMMA MoveHead ==
  ASSUME NEW r, NEW w,
         NEW g \in Seq(Unit), NEW q \in Seq(Unit), q # <<>>,
         Own(g, r), Own(q, r), Once(g), Once(q),
         Apart(g, q), Apart(g, w), Apart(q, w)
  PROVE  LET h == Append(g, Head(q)) IN
         /\ Own(h, r) /\ Own(Tail(q), r) /\ Once(h) /\ Once(Tail(q))
         /\ Apart(h, Tail(q)) /\ Apart(h, w) /\ Apart(Tail(q), w)
  <1> DEFINE h == Append(g, Head(q))
             t == Tail(q)
             n == Len(g) + 1
  <1>1. /\ Head(q) = q[1] /\ 1 \in 1..Len(q)
        /\ \A i \in 1..Len(t) : i + 1 \in 1..Len(q) /\ t[i] = q[i + 1]
    BY HeadTail
  <1>2. /\ Len(h) = n /\ h[n] = q[1] /\ Len(g) \in Nat
        /\ \A i \in 1..Len(h) : i # n => i \in 1..Len(g) /\ h[i] = g[i]
    BY <1>1, HeadTail, AppendLast
  <1> HIDE DEF h, t, n
  <1>3. Own(h, r) /\ Own(t, r)
    <2>1. Own(h, r)
      BY <1>1, <1>2 DEF Own
    <2>2. Own(t, r)
      BY <1>1 DEF Own
    <2> QED  BY <2>1, <2>2
  <1> QED  BY <1>3, MoveUnit DEF h, t

\* Noise is nobody's unit: it may be added anywhere.
LEMMA AddNoiseUnit ==
  ASSUME NEW w, NEW q \in Seq(Unit), Once(q), Apart(w, q), Noise \in Unit
  PROVE  LET h == Append(q, Noise) IN
         Once(h) /\ Apart(w, h) /\ (Real(q) = {} => Real(h) = {})
  <1> DEFINE h == Append(q, Noise)
             n == Len(q) + 1
  <1>1. /\ Len(h) = n /\ h[n].req = 0 /\ Len(q) \in Nat
        /\ \A i \in 1..Len(h) : i # n => i \in 1..Len(q) /\ h[i] = q[i]
    <2>1. Noise.req = 0
      BY DEF Noise
    <2> QED  BY <2>1, AppendLast
  <1> HIDE DEF h, n
  <1>3. Once(h)
    <2> SUFFICES ASSUME NEW i \in 1..Len(h), NEW j \in 1..Len(h), i # j, h[i].req # 0
                 PROVE  h[i] # h[j]
      BY DEF Once
    <2>1. i # n
      BY <1>1
    <2>2. CASE j = n
      BY <1>1, <2>2
    <2>3. CASE j # n
      BY <1>1, <2>1, <2>3 DEF Once
    <2> QED  BY <2>2, <2>3
  <1>4. Apart(w, h)
    <2> SUFFICES ASSUME NEW i \in 1..Len(w), NEW j \in 1..Len(h), w[i].req # 0
                 PROVE  w[i] # h[j]
      BY DEF Apart
    <2>1. CASE j = n
      BY <1>1, <2>1
    <2>2. CASE j # n
      BY <1>1, <2>2 DEF Apart
    <2> QED  BY <2>1, <2>2
  <1>5. Real(q) = {} => Real(h) = {}
    BY <1>1, RealUnits
  <1> QED  BY <1>3, <1>4, <1>5 DEF h

LEMMA AddNoise ==
  ASSUME NEW r, NEW w, NEW q \in Seq(Unit), Own(q, r), Once(q), Apart(w, q), Noise \in Unit
  PROVE  LET h == Append(q, Noise) IN
         Own(h, r) /\ Once(h) /\ Apart(w, h) /\ (Real(q) = {} => Real(h) = {})
  <1> DEFINE h == Append(q, Noise)
             n == Len(q) + 1
  <1>1. /\ Len(h) = n /\ h[n].req = 0 /\ Len(q) \in Nat
        /\ \A i \in 1..Len(h) : i # n => i \in 1..Len(q) /\ h[i] = q[i]
    <2>1. Noise.req = 0
      BY DEF Noise
    <2> QED  BY <2>1, AppendLast
  <1> HIDE DEF h, n
  <1>2. Own(h, r)
    BY <1>1 DEF Own
  <1> QED  BY <1>2, AddNoiseUnit DEF h

\* An answer that begins on a line with no real unit.
LEMMA BeginAnswer ==
  ASSUME NEW r \in 1..MaxReq, NEW w \in Seq(Unit), Real(w) = {}
  PROVE  Own(w \o Frame(r), r) /\ Once(w \o Frame(r))
  <1> DEFINE f == Frame(r)
             u == w \o f
  <1>1. /\ f \in Seq(Unit) /\ Len(f) = RespLen /\ RespLen \in Nat
        /\ \A i \in 1..RespLen : f[i].req = r /\ f[i].ix = i
    BY FrameUnits
  <1>2. \A i \in 1..Len(w) : w[i].req = 0
    BY RealUnits
  <1> HIDE DEF f
  <1>3. /\ Len(w) \in Nat /\ Len(u) = Len(w) + RespLen
        /\ \A i \in 1..Len(u) : u[i] = IF i <= Len(w) THEN w[i] ELSE f[i - Len(w)]
    BY <1>1, Joined
  <1> HIDE DEF u
  <1>4. \A i \in 1..Len(u) : u[i].req # 0 =>
          /\ i > Len(w) /\ i - Len(w) \in 1..RespLen
          /\ u[i].req = r /\ u[i].ix = i - Len(w)
    <2> SUFFICES ASSUME NEW i \in 1..Len(u), u[i].req # 0
                 PROVE  /\ i > Len(w) /\ i - Len(w) \in 1..RespLen
                        /\ u[i].req = r /\ u[i].ix = i - Len(w)
      OBVIOUS
    <2>1. i > Len(w)
      BY <1>2, <1>3
    <2>2. i - Len(w) \in 1..RespLen
      BY <1>1, <1>3, <2>1
    <2>3. u[i] = f[i - Len(w)]
      BY <1>3, <2>1
    <2> QED  BY <1>1, <2>1, <2>2, <2>3
  <1>5. Own(u, r)
    BY <1>4 DEF Own
  <1>6. Once(u)
    <2> SUFFICES ASSUME NEW i \in 1..Len(u), NEW j \in 1..Len(u), i # j, u[i].req # 0,
                        u[i] = u[j]
                 PROVE  FALSE
      BY DEF Once
    <2>1. i - Len(w) = j - Len(w)
      BY <1>4
    <2> QED  BY <1>3, <2>1
  <1> QED  BY <1>5, <1>6 DEF u, f

\* Once the whole answer to r has been read, no unit of it is left.
LEMMA AnswerComplete ==
  ASSUME NEW r \in 1..MaxReq, NEW s \in Seq(Unit), Own(s, r), Apart(Frame(r), s)
  PROVE  Real(s) = {}
  <1> SUFFICES ASSUME NEW i \in 1..Len(s), s[i].req # 0  PROVE FALSE
    BY RealUnits
  <1> DEFINE f == Frame(r)
  <1>1. /\ f \in Seq(Unit) /\ Len(f) = RespLen
        /\ \A k \in 1..RespLen : f[k] = [req |-> r, ix |-> k] /\ f[k].req # 0
    BY FrameUnits
  <1>2. s[i] \in Unit /\ s[i].req = r /\ s[i].ix \in 1..RespLen
    BY DEF Own
  <1> HIDE DEF f
  <1>3. s[i] = f[s[i].ix]
    BY <1>1, <1>2 DEF Unit
  <1> QED  BY <1>1, <1>2, <1>3 DEF Apart, f

-----------------------------------------------------------------------------
(* The line through a call of next. *)

LEMMA NothingOwed ==
  ~Owed <=> dev = <<>> /\ Real(wire) = {} /\ Real(rx) = {}
  BY DEF Owed

LEMMA LineInit == Init => LineOK
  BY DEF Init, LineOK, Unsent

\* Between two calls nothing is claimed of the line.
LEMMA LineAtRest ==
  ASSUME pc' \in {"idle", "ready", "failed"}  PROVE LineOK'
  BY DEF LineOK, Unsent

\* Before the request is out, and after the answer is in, a step that leaves
\* the serial side alone keeps the line clean.
LEMMA LineUntouched ==
  ASSUME LineOK, pc \in Unsent, pc' \in Unsent, loc'.dirty = loc.dirty, UNCHANGED lineVars
  PROVE  LineOK'
  <1>1. ~Owed => ~Owed'
    BY DEF lineVars, Owed
  <1> QED  BY <1>1 DEF LineOK, Unsent

LEMMA LineCaller ==
  ASSUME Accept \/ CallNext \/ IntoStream  PROVE LineOK'
  <1>1. CASE Accept \/ IntoStream
    BY <1>1, LineAtRest DEF Accept, IntoStream
  <1>2. CASE CallNext
    <2>1. pc' \in {"tcpPoll", "tcpListen"} /\ loc'.dirty = Owed /\ UNCHANGED lineVars
      <3> HIDE DEF Owed
      <3> QED  BY <1>2 DEF CallNext, Fresh
    <2>2. ~loc'.dirty => ~Owed'
      BY <2>1 DEF lineVars, Owed
    <2> QED  BY <2>1, <2>2 DEF LineOK, Unsent
  <1> QED  BY <1>1, <1>2

LEMMA LineBefore ==
  ASSUME TypedControl, LineOK, Listen \/ SyncPolls  PROVE LineOK'
  <1>1. loc \in Locals
    BY DEF TypedControl, TypeOK
  <1>2. CASE TcpListenOk
    <2>1. loc'.dirty = loc.dirty
      BY <1>1, <1>2 DEF TcpListenOk, Locals
    <2> QED  BY <1>2, <2>1, LineUntouched DEF TcpListenOk, Unsent
  <1>3. CASE PollReady \/ PollSleep
    <2>1. loc'.dirty = loc.dirty
      BY <1>1, <1>3 DEF PollReady, ReadReady, PollSleep, Locals
    <2>2. pc \in Unsent /\ pc' \in Unsent /\ UNCHANGED lineVars
      BY <1>3 DEF PollReady, ReadReady, PollSleep, NothingReady, Unsent
    <2> QED  BY <2>1, <2>2, LineUntouched
  <1>4. CASE TcpListenReject \/ TcpListenEof \/ TcpListenError \/ PollExpire \/ PollError
    BY <1>4, LineAtRest
       DEF TcpListenReject, TcpListenEof, TcpListenError, PollExpire, PollError, Fail
  <1> QED  BY <1>2, <1>3, <1>4 DEF Listen, ListenFrame, SyncPolls, Polling

LEMMA LineSend ==
  ASSUME TypedControl, LineOK, Send  PROVE LineOK'
  <1>1. loc \in Locals /\ dev \in Seq(1..MaxReq) /\ wire \in Seq(Unit) /\ rx \in Seq(Unit)
    BY DEF TypedControl, TypeOK
  <1>2. CASE SendFlush
    BY <1>2, LineUntouched DEF SendFlush, Unsent
  <1>3. CASE SendWrite
    <2>1. PICK n \in 1..(ReqLen - loc.wrote) :
            /\ loc' = [loc EXCEPT !.wrote = @ + n]
            /\ \/ pc' = "write" /\ dev' = dev
               \/ pc' = "drain" /\ dev' = Append(dev, loc.req)
      BY <1>3 DEF SendWrite
    <2>2. /\ pc = "write" /\ UNCHANGED <<wire, rx>>
          /\ loc'.dirty = loc.dirty /\ loc'.req = loc.req /\ loc'.got = loc.got
          /\ loc.got = <<>>
      BY <1>1, <1>3, <2>1 DEF SendWrite, Locals, TypedControl, ControlOK, Unsent
    <2>3. CASE pc' = "write" /\ dev' = dev
      BY <2>2, <2>3, LineUntouched DEF Unsent, lineVars
    <2>4. CASE pc' = "drain" /\ dev' = Append(dev, loc.req)
      <3> SUFFICES ASSUME ~loc.dirty
                   PROVE  UnitsOf(loc.req, loc.got)' /\ Awaiting(loc.req, loc.got)'
        BY <2>2, <2>4 DEF LineOK, Unsent
      <3>1. dev = <<>> /\ Real(wire) = {} /\ Real(rx) = {}
        BY <2>2, NothingOwed DEF LineOK, Unsent
      <3>2. /\ \A i \in 1..Len(wire) : wire[i].req = 0
            /\ \A i \in 1..Len(rx) : rx[i].req = 0
        BY <3>1, RealUnits
      <3>3. 1..Len(loc.got) = {}
        BY <2>2
      <3>4. Real(loc.got) = {}
        BY <3>3, RealUnits
      <3>5. dev' = <<loc.req>>
        BY <2>4, <3>1
      <3>6. UnitsOf(loc.req, loc.got)
        BY <3>2, <3>3 DEF UnitsOf, Own, Once, Apart
      <3> QED  BY <2>2, <3>1, <3>4, <3>5, <3>6 DEF UnitsOf, Awaiting
    <2> QED  BY <2>1, <2>3, <2>4
  <1>4. CASE SendDrain
    BY <1>4 DEF SendDrain, LineOK, Unsent, UnitsOf, Awaiting, lineVars
  <1>5. CASE SendError
    BY <1>5, LineAtRest DEF SendError, Fail
  <1> QED  BY <1>2, <1>3, <1>4, <1>5 DEF Send, SendFrame

\* One read moves a unit from the UART into the response.
LEMMA LineRead ==
  ASSUME TypedControl, LineOK, ~loc.dirty, pc = "receive", rx # <<>>,
         rx' = Tail(rx), UNCHANGED <<dev, wire>>
  PROVE  /\ Own(Got, loc.req) /\ Own(rx', loc.req) /\ Own(wire', loc.req)
         /\ Once(Got) /\ Once(rx') /\ Once(wire')
         /\ Apart(Got, rx') /\ Apart(Got, wire') /\ Apart(rx', wire')
         /\ \/ dev' = <<>>
            \/ dev' = <<loc.req>> /\ Real(Got) = {} /\ Real(rx') = {} /\ Real(wire') = {}
  <1>1. UnitsOf(loc.req, loc.got) /\ Awaiting(loc.req, loc.got)
    BY DEF LineOK
  <1>2. rx \in Seq(Unit) /\ loc.got \in Seq(Unit)
    BY DEF TypedControl, TypeOK, Locals
  <1>3. /\ Own(Got, loc.req) /\ Own(rx', loc.req) /\ Once(Got) /\ Once(rx')
        /\ Apart(Got, rx') /\ Apart(Got, wire) /\ Apart(rx', wire)
    BY <1>1, <1>2, MoveHead DEF UnitsOf, Got
  <1>4. ASSUME Real(loc.got) = {}, Real(rx) = {}
        PROVE  Real(Got) = {} /\ Real(rx') = {}
    <2>1. /\ \A i \in 1..Len(loc.got) : loc.got[i].req = 0
          /\ \A i \in 1..Len(rx) : rx[i].req = 0
      BY <1>4, RealUnits
    <2>2. \A i \in 1..Len(rx') : rx'[i].req = 0
      BY <1>2, <2>1, HeadTail
    <2>3. Head(rx).req = 0 /\ Head(rx) \in Unit
      BY <1>2, <2>1, HeadTail
    <2>4. \A i \in 1..Len(Got) : Got[i].req = 0
      BY <1>2, <2>1, <2>3, AppendLast DEF Got
    <2> QED  BY <2>2, <2>4, RealUnits
  <1> QED  BY <1>1, <1>3, <1>4 DEF UnitsOf, Awaiting

LEMMA LineReceive ==
  ASSUME TypedControl, LineOK, Receive  PROVE LineOK'
  <1>1. loc \in Locals /\ rx \in Seq(Unit) /\ wire \in Seq(Unit)
    BY DEF TypedControl, TypeOK
  <1>2. CASE ReadHeader \/ ReadBody
    <2>1. /\ pc = "receive" /\ pc' = "receive" /\ rx # <<>> /\ rx' = Tail(rx)
          /\ UNCHANGED <<dev, wire>>
      BY <1>2 DEF ReadHeader, ReadBody
    <2>2. loc'.got = Got /\ loc'.req = loc.req /\ loc'.dirty = loc.dirty
      <3>1. \/ loc' = [loc EXCEPT !.got = Got]
            \/ \E n : loc' = [loc EXCEPT !.got = Got, !.need = n, !.attempt = 1]
        BY <1>2 DEF ReadHeader, ReadBody
      <3> HIDE DEF Got
      <3> QED  BY <1>1, <3>1 DEF Locals
    <2> SUFFICES ASSUME ~loc.dirty
                 PROVE  UnitsOf(loc.req, loc.got)' /\ Awaiting(loc.req, loc.got)'
      BY <2>1, <2>2 DEF LineOK, Unsent
    <2> HIDE DEF Got
    <2> QED  BY <2>1, <2>2, LineRead DEF UnitsOf, Awaiting
  <1>3. CASE ReadLast
    <2>1. /\ pc = "receive" /\ rx # <<>> /\ rx' = Tail(rx) /\ UNCHANGED <<dev, wire>>
      BY <1>3 DEF ReadLast
    <2>2. CASE Fail(RtuErr.Crc)
      BY <2>2, LineAtRest DEF Fail
    <2>3. ASSUME NEW r \in Intact(Got),
                 loc' = [loc EXCEPT !.got = Got, !.need = 0, !.attempt = 1, !.resp = r],
                 pc' = "reply"
          PROVE  LineOK'
      <3>1. loc'.resp = r /\ loc'.req = loc.req /\ loc'.dirty = loc.dirty
        <4> HIDE DEF Got
        <4> QED  BY <1>1, <2>3 DEF Locals
      <3> SUFFICES ASSUME ~loc.dirty  PROVE ~Owed' /\ r = loc.req
        BY <2>3, <3>1 DEF LineOK, Unsent
      <3>2. r \in 1..MaxReq /\ Got = Frame(r)
        BY RequestNumbers DEF Intact, TypedControl
      <3>3. /\ Own(Got, loc.req) /\ Own(rx', loc.req) /\ Own(wire', loc.req)
            /\ Apart(Got, rx') /\ Apart(Got, wire')
            /\ dev' = <<>> \/ Real(Got) = {}
        BY <2>1, LineRead
      <3>4. /\ Len(Got) = RespLen /\ RespLen \in Nat /\ 1 \in 1..RespLen
            /\ Got[1].req = r /\ r # 0
        <4>1. RespLen \in Nat /\ 1 \in 1..RespLen
          BY FrameAssumption
        <4>2. Len(Frame(r)) = RespLen /\ Frame(r)[1].req = r /\ r # 0
          BY <3>2, <4>1, FrameUnits
        <4> QED  BY <3>2, <4>1, <4>2
      <3>5. r = loc.req
        BY <3>3, <3>4 DEF Own
      <3>6. dev' = <<>>
        BY <3>3, <3>4, RealUnits
      <3>7. rx' \in Seq(Unit) /\ wire' \in Seq(Unit)
        BY <1>1, <2>1, HeadTail
      <3>8. Real(rx') = {} /\ Real(wire') = {}
        BY <3>2, <3>3, <3>5, <3>7, AnswerComplete
      <3> QED  BY <3>5, <3>6, <3>8 DEF Owed
    <2> QED  BY <1>3, <2>2, <2>3 DEF ReadLast
  <1>4. CASE ReadEof \/ ReadGiveUp
    BY <1>4, LineAtRest DEF ReadEof, ReadGiveUp, Fail
  <1>5. CASE ReadRetry
    <2>1. /\ loc'.req = loc.req /\ loc'.got = loc.got /\ loc'.dirty = loc.dirty
          /\ pc = "receive" /\ pc' = "receive" /\ UNCHANGED <<dev, wire, rx>>
      BY <1>1, <1>5 DEF ReadRetry, Locals, lineVars
    <2> QED  BY <2>1 DEF LineOK, Unsent, UnitsOf, Awaiting
  <1> QED  BY <1>2, <1>3, <1>4, <1>5 DEF Receive, ReadUnit

LEMMA LineReply ==
  ASSUME Reply \/ AsyncDeadlines  PROVE LineOK'
  BY LineAtRest
     DEF Reply, ReplySend, ReplyError, AsyncDeadlines, TcpDeadline, RtuDeadline, Fail

LEMMA LineClient ==
  ASSUME LineOK, Client  PROVE LineOK'
  <1>1. UNCHANGED <<pc, loc, dev, wire, rx>>
    BY DEF Client, ClientBegin, ClientSend, ClientClose, lineVars
  <1> QED  BY <1>1 DEF LineOK, Unsent, Owed, UnitsOf, Awaiting

\* Nothing appears on a line that owes nothing, noise apart.
LEMMA LineKeepsClean ==
  ASSUME TypedControl, Line, ~Owed  PROVE ~Owed'
  <1>1. dev = <<>> /\ Real(wire) = {} /\ Real(rx) = {}
    BY NothingOwed
  <1>2. wire \in Seq(Unit) /\ rx \in Seq(Unit) /\ Noise \in Unit
        /\ \A i \in 1..Len(wire) : wire[i].req # 0
    BY FrameAssumption, BoundAssumption DEF TypedControl, TypeOK, ControlOK, Noise, Unit
  <1>3. wire = <<>>
    <2>1. Len(wire) \in Nat /\ (wire # <<>> => 1 \in 1..Len(wire))
      BY <1>2
    <2> QED  BY <1>1, <1>2, <2>1, RealUnits
  <1>4. CASE Babble
    <2>1. rx' = Append(rx, Noise) /\ Noise.req = 0
      BY <1>4 DEF Babble, Noise
    <2>2. \A i \in 1..Len(rx) : rx[i].req = 0
      BY <1>1, RealUnits
    <2>3. \A i \in 1..Len(rx') : rx'[i].req = 0
      BY <1>2, <2>1, <2>2, AppendLast
    <2>4. Real(rx') = {}
      BY <2>3, RealUnits
    <2> QED  BY <1>1, <1>4, <2>4 DEF Babble, Owed
  <1> QED  BY <1>1, <1>3, <1>4 DEF Line, DeviceAnswer, DeviceIgnore, Arrive
LEMMA LineLine ==
  ASSUME TypedControl, LineOK, Line  PROVE LineOK'
  <1>1. UNCHANGED <<pc, loc>>
    BY DEF Line, DeviceAnswer, DeviceIgnore, Arrive, Babble
  <1>2. /\ dev \in Seq(1..MaxReq) /\ wire \in Seq(Unit) /\ rx \in Seq(Unit)
        /\ loc.got \in Seq(Unit) /\ Noise \in Unit
        /\ \A i \in 1..Len(wire) : wire[i].req # 0
    BY FrameAssumption, BoundAssumption
       DEF TypedControl, TypeOK, ControlOK, Locals, Noise, Unit
  <1>3. ~Owed => ~Owed'
    BY LineKeepsClean
  <1>4. ASSUME ~loc.dirty, pc \in {"drain", "receive"}
        PROVE  UnitsOf(loc.req, loc.got)' /\ Awaiting(loc.req, loc.got)'
    <2>1. UnitsOf(loc.req, loc.got) /\ Awaiting(loc.req, loc.got)
      BY <1>4 DEF LineOK
    <2>2. CASE DeviceAnswer
      <3>1. dev # <<>> /\ dev' = Tail(dev) /\ wire' = wire \o Frame(Head(dev)) /\ rx' = rx
        BY <2>2 DEF DeviceAnswer
      <3>2. /\ dev = <<loc.req>>
            /\ Real(loc.got) = {} /\ Real(rx) = {} /\ Real(wire) = {}
        BY <2>1, <3>1 DEF Awaiting
      <3>3. Head(dev) = loc.req /\ Tail(dev) = <<>>
        BY <3>2
      <3>4. loc.req \in 1..MaxReq
        BY <1>2, <3>1, <3>3, HeadTail
      <3>5. Own(wire', loc.req) /\ Once(wire')
        BY <1>2, <3>1, <3>2, <3>3, <3>4, BeginAnswer
      <3>6. Apart(loc.got, wire') /\ Apart(rx, wire')
        BY <3>2, RealUnits DEF Apart
      <3> QED  BY <1>1, <2>1, <3>1, <3>3, <3>5, <3>6 DEF UnitsOf, Awaiting
    <2>3. CASE DeviceIgnore
      <3>1. dev # <<>> /\ dev' = Tail(dev) /\ UNCHANGED <<wire, rx>>
        BY <2>3 DEF DeviceIgnore
      <3>2. dev = <<loc.req>>
        BY <2>1, <3>1 DEF Awaiting
      <3>3. dev' = <<>>
        BY <3>1, <3>2
      <3> QED  BY <1>1, <2>1, <3>1, <3>3 DEF UnitsOf, Awaiting
    <2>4. CASE Arrive
      <3>1. wire # <<>> /\ wire' = Tail(wire) /\ dev' = dev
        BY <2>4 DEF Arrive
      <3>2. rx' \in {rx, Append(rx, Head(wire)), Append(rx, Noise)}
        BY <2>4 DEF Arrive
      <3> DEFINE moved == Append(rx, Head(wire))
                 noisy == Append(rx, Noise)
      <3>3. Apart(wire, loc.got) /\ Apart(rx, loc.got)
        BY <2>1, ApartSymmetric DEF UnitsOf
      <3>4. /\ Own(moved, loc.req) /\ Own(wire', loc.req) /\ Once(moved) /\ Once(wire')
            /\ Apart(moved, wire') /\ Apart(moved, loc.got) /\ Apart(wire', loc.got)
        BY <1>2, <2>1, <3>1, <3>3, MoveHead DEF UnitsOf
      <3>5. Apart(loc.got, moved) /\ Apart(loc.got, wire') /\ Apart(wire', rx)
        <4>1. Apart(wire, rx)
          BY <2>1, ApartSymmetric DEF UnitsOf
        <4>2. Apart(wire', rx)
          BY <1>2, <3>1, <4>1, HeadTail DEF Apart
        <4> QED  BY <3>4, <4>2, ApartSymmetric
      <3>6. /\ Own(noisy, loc.req) /\ Once(noisy) /\ Apart(loc.got, noisy)
            /\ Apart(wire', noisy)
        BY <1>2, <2>1, <3>5, AddNoise DEF UnitsOf
      <3>7. Apart(rx, wire') /\ Apart(noisy, wire')
        BY <3>5, <3>6, ApartSymmetric
      <3>8. dev' = <<>>
        <4>1. Len(wire) \in Nat /\ 1 \in 1..Len(wire)
          BY <1>2, <3>1
        <4>2. Real(wire) # {}
          BY <1>2, <4>1, RealUnits
        <4> QED  BY <2>1, <3>1, <4>2 DEF Awaiting
      <3> HIDE DEF moved, noisy
      <3>9. rx' \in {rx, moved, noisy}
        BY <3>2 DEF moved, noisy
      <3>10. UnitsOf(loc.req, loc.got)'
        BY <1>1, <2>1, <3>4, <3>5, <3>6, <3>7, <3>9 DEF UnitsOf
      <3> QED  BY <3>8, <3>10 DEF Awaiting
    <2>5. CASE Babble
      <3>1. rx' = Append(rx, Noise) /\ UNCHANGED <<dev, wire>>
        BY <2>5 DEF Babble
      <3>2. Apart(wire, rx)
        BY <2>1, ApartSymmetric DEF UnitsOf
      <3>3. /\ Own(rx', loc.req) /\ Once(rx') /\ Apart(loc.got, rx') /\ Apart(wire, rx')
            /\ (Real(rx) = {} => Real(rx') = {})
        BY <1>2, <2>1, <3>1, <3>2, AddNoise DEF UnitsOf
      <3>4. Apart(rx', wire)
        BY <3>3, ApartSymmetric
      <3> QED  BY <1>1, <2>1, <3>1, <3>3, <3>4 DEF UnitsOf, Awaiting
    <2> QED  BY <2>2, <2>3, <2>4, <2>5 DEF Line
  <1> QED  BY <1>1, <1>3, <1>4 DEF LineOK

LEMMA LineNext == TypedControl /\ LineOK /\ [Next]_vars => LineOK'
  <1> SUFFICES ASSUME TypedControl, LineOK, [Next]_vars PROVE LineOK'
    OBVIOUS
  <1>1. CASE UNCHANGED vars
    BY <1>1 DEF vars, tcpVars, lineVars, LineOK, Owed, UnitsOf, Awaiting
  <1>2. CASE Next
    BY <1>2, LineCaller, LineBefore, LineSend, LineReceive, LineReply, LineClient,
       LineLine DEF Next, Cycle
  <1> QED  BY <1>1, <1>2

-----------------------------------------------------------------------------
(* Who dirties the line. *)

LEMMA DirtInit == Init => DirtOK
  <1> SUFFICES ASSUME Init  PROVE DirtOK
    OBVIOUS
  <1>1. dev = <<>> /\ wire = <<>> /\ rx = <<>> /\ loc.dirty = FALSE
    BY DEF Init, Fresh
  <1>2. 1..Len(wire) = {} /\ 1..Len(rx) = {}
    BY <1>1
  <1>3. ~Owed
    BY <1>1, <1>2, RealUnits, NothingOwed
  <1> QED  BY <1>1, <1>3 DEF DirtOK, OnlySerialErrorsDirty

\* The errors returned only grow, by the one that is returned now.
LEMMA ErrsGrow ==
  ASSUME TypeOK, NEW e \in Errors, Fail(e)
  PROVE  Errs' = Errs \cup {e}
  <1>1. failures \in Seq(Failure) /\ failures' \in Seq(Failure)
    BY FailTyped DEF TypeOK
  <1>2. DOMAIN failures = 1..Len(failures) /\ DOMAIN failures' = 1..(Len(failures) + 1)
    BY <1>1, FailTyped, LenProperties
  <1>3. Errs = {failures[i].err : i \in 1..Len(failures)}
    BY <1>2 DEF Errs
  <1>4. Errs' = {failures'[i].err : i \in 1..(Len(failures) + 1)}
    BY <1>2 DEF Errs
  <1> QED  BY <1>3, <1>4, FailTyped

\* A call that ends in a serial error may leave anything behind.
LEMMA DirtSerial ==
  ASSUME TypeOK, DirtOK, NEW e \in SerialErrors, Fail(e)  PROVE DirtOK'
  <1>1. e \in Errors /\ loc' = Fresh
    BY DEF SerialErrors, Errors, Fail
  <1>2. e \in Errs'
    BY <1>1, ErrsGrow
  <1> QED  BY <1>2 DEF DirtOK, OnlySerialErrorsDirty

\* A call that ends in another error, or a step that returns none, leaves
\* behind what was there, if it is outside the exchange.
LEMMA DirtKept ==
  ASSUME DirtOK, Errs \subseteq Errs', Owed' => Owed \/ pc' \in {"drain", "receive"},
         pc \notin {"drain", "receive"}, loc'.dirty => loc.dirty
  PROVE  DirtOK'
  BY DEF DirtOK, OnlySerialErrorsDirty

LEMMA DirtNext ==
  ASSUME TypedControl, LineOK, DirtOK, [Next]_vars  PROVE DirtOK'
  <1> USE DEF SerialErrors
  <1>1. TypeOK /\ loc \in Locals
    BY DEF TypedControl, TypeOK
  <1>2. CASE UNCHANGED vars
    BY <1>2 DEF vars, tcpVars, lineVars, DirtOK, OnlySerialErrorsDirty, Owed, Errs
  <1>3. CASE Accept \/ IntoStream
    BY <1>3 DEF Accept, IntoStream, DirtOK, OnlySerialErrorsDirty, Owed, Errs, lineVars
  <1>4. CASE CallNext
    <2>1. pc = "ready" /\ loc'.dirty = Owed /\ UNCHANGED <<failures, lineVars>>
      <3> HIDE DEF Owed
      <3> QED  BY <1>4 DEF CallNext, Fresh
    <2>2. Owed' = Owed /\ Errs' = Errs
      BY <2>1 DEF Owed, Errs, lineVars
    <2> QED  BY <2>1, <2>2 DEF DirtOK, OnlySerialErrorsDirty
  <1>5. CASE TcpListenOk \/ SendFlush \/ PollReady \/ PollSleep
    <2>1. loc'.dirty = loc.dirty
      BY <1>1, <1>5 DEF TcpListenOk, SendFlush, PollReady, ReadReady, PollSleep, Locals
    <2>2. pc \notin {"drain", "receive"} /\ UNCHANGED <<failures, lineVars>>
      BY <1>5 DEF TcpListenOk, SendFlush, PollReady, ReadReady, PollSleep, NothingReady
    <2>3. Owed' = Owed /\ Errs' = Errs
      BY <2>2 DEF Owed, Errs, lineVars
    <2> QED  BY <2>1, <2>2, <2>3, DirtKept
  <1>6. CASE TcpListenReject \/ TcpListenEof \/ TcpListenError \/ TcpDeadline
             \/ PollExpire \/ PollError \/ ReplyError
    <2>1. PICK e \in Errors : Fail(e)
      BY <1>6, ErrorNames
         DEF TcpListenReject, TcpListenEof, TcpListenError, TcpDeadline, PollExpire,
             PollError, ReplyError, Errors
    <2>2. /\ pc \notin {"drain", "receive"} /\ UNCHANGED lineVars
      BY <1>6 DEF TcpListenReject, TcpListenEof, TcpListenError, TcpDeadline, PollExpire,
                  PollError, ReplyError, NothingReady
    <2>3. Owed' = Owed /\ ~loc'.dirty
      BY <2>1, <2>2 DEF Owed, lineVars, Fail, Fresh
    <2> QED  BY <1>1, <2>1, <2>2, <2>3, ErrsGrow, DirtKept
  <1>7. CASE SendWrite
    <2>1. /\ pc = "write" /\ UNCHANGED <<failures, wire, rx>> /\ loc'.dirty = loc.dirty
          /\ pc' = "drain" \/ dev' = dev
      BY <1>1, <1>7 DEF SendWrite, Locals
    <2>2. Errs' = Errs /\ (Owed' => Owed \/ pc' \in {"drain", "receive"})
      BY <2>1 DEF Errs, Owed
    <2> QED  BY <2>1, <2>2, DirtKept
  <1>8. CASE SendDrain \/ ReadHeader \/ ReadBody \/ ReadRetry
    <2>1. pc' \in {"drain", "receive"} /\ UNCHANGED failures
      BY <1>8 DEF SendDrain, ReadHeader, ReadBody, ReadRetry
    <2>2. loc'.dirty = loc.dirty
      <3>1. CASE SendDrain \/ ReadRetry
        BY <1>1, <3>1 DEF SendDrain, ReadRetry, Locals
      <3>2. CASE ReadHeader \/ ReadBody
        <4>1. \/ loc' = [loc EXCEPT !.got = Got]
              \/ \E n : loc' = [loc EXCEPT !.got = Got, !.need = n, !.attempt = 1]
          BY <3>2 DEF ReadHeader, ReadBody
        <4> HIDE DEF Got
        <4> QED  BY <1>1, <4>1 DEF Locals
      <3> QED  BY <1>8, <3>1, <3>2
    <2>3. Errs' = Errs
      BY <2>1 DEF Errs
    <2> QED  BY <2>1, <2>2, <2>3 DEF DirtOK, OnlySerialErrorsDirty
  <1>9. CASE SendError \/ RtuDeadline \/ ReadEof \/ ReadGiveUp
    <2>1. PICK e \in SerialErrors : Fail(e)
      BY <1>9 DEF SendError, RtuDeadline, ReadEof, ReadGiveUp, RtuErr
    <2> QED  BY <1>1, <2>1, DirtSerial
  <1>10. CASE ReadLast
    <2>1. CASE Fail(RtuErr.Crc)
      BY <1>1, <2>1, DirtSerial DEF RtuErr
    <2>2. ASSUME NEW r \in Intact(Got),
                 loc' = [loc EXCEPT !.got = Got, !.need = 0, !.attempt = 1, !.resp = r],
                 pc' = "reply", UNCHANGED failures
          PROVE  DirtOK'
      <3>1. loc'.dirty = loc.dirty
        <4> HIDE DEF Got
        <4> QED  BY <1>1, <2>2 DEF Locals
      <3>2. LineOK'
        BY <1>10, LineReceive DEF Receive, ReadUnit
      <3>3. ~loc.dirty => ~Owed'
        BY <2>2, <3>1, <3>2 DEF LineOK
      <3>4. Errs' = Errs
        BY <2>2 DEF Errs
      <3> QED  BY <3>1, <3>3, <3>4 DEF DirtOK, OnlySerialErrorsDirty
    <2> QED  BY <1>10, <2>1, <2>2 DEF ReadLast
  <1>11. CASE ReplySend
    BY <1>11 DEF ReplySend, DirtOK, OnlySerialErrorsDirty, Owed, Errs, lineVars, Fresh
  <1>12. CASE Client
    BY <1>12 DEF Client, ClientBegin, ClientSend, ClientClose, DirtOK,
                 OnlySerialErrorsDirty, Owed, Errs, lineVars
  <1>13. CASE Line
    <2>1. UNCHANGED <<pc, loc, failures>>
      BY <1>13 DEF Line, DeviceAnswer, DeviceIgnore, Arrive, Babble
    <2>2. ~Owed => ~Owed'
      BY <1>13, LineKeepsClean
    <2>3. Errs' = Errs
      BY <2>1 DEF Errs
    <2> QED  BY <2>1, <2>2, <2>3 DEF DirtOK, OnlySerialErrorsDirty
  <1> QED  BY <1>2, <1>3, <1>4, <1>5, <1>6, <1>7, <1>8, <1>9, <1>10, <1>11, <1>12, <1>13
           DEF Next, Cycle, Listen, ListenFrame, Send, SendFrame, Receive, ReadUnit, Reply,
               AsyncDeadlines, SyncPolls, Polling

-----------------------------------------------------------------------------
(* What clients are told. *)

LEMMA PairedInit == Init => AnswersPaired
  BY DEF Init, AnswersPaired

\* Only ReplySend answers a client, with the answer the call has read.
LEMMA PairedNext ==
  ASSUME TypedControl, LineOK, AnswersPaired, [Next]_vars  PROVE AnswersPaired'
  <1>1. CASE delivered' = delivered
    BY <1>1 DEF AnswersPaired
  <1>2. CASE ReplySend
    <2> DEFINE d == [conn |-> conn, tid |-> loc.tid, req |-> loc.req, seen |-> loc.seen,
                     resp |-> loc.resp, dirty |-> loc.dirty]
    <2>1. pc = "reply" /\ delivered' = Append(delivered, d)
      BY <1>2 DEF ReplySend
    <2>2. d.resp # d.req => d.dirty
      BY <2>1 DEF LineOK
    <2>3. delivered \in Seq(Delivery) /\ delivered' \in Seq(Delivery)
      BY <1>2, TypesReply DEF Reply, TypedControl, TypeOK
    <2> HIDE DEF d
    <2>4. /\ DOMAIN delivered = 1..Len(delivered) /\ Len(delivered) \in Nat
          /\ DOMAIN delivered' = 1..(Len(delivered) + 1)
          /\ delivered'[Len(delivered) + 1] = d
          /\ \A i \in 1..Len(delivered) : delivered'[i] = delivered[i]
      BY <2>1, <2>3
    <2>5. ASSUME NEW i \in DOMAIN delivered'
          PROVE  delivered'[i].resp # delivered'[i].req => delivered'[i].dirty
      <3>1. CASE i = Len(delivered) + 1
        BY <2>2, <2>4, <3>1
      <3>2. CASE i \in 1..Len(delivered)
        BY <2>4, <3>2 DEF AnswersPaired
      <3> QED  BY <2>4, <3>1, <3>2
    <2> QED  BY <2>5 DEF AnswersPaired
  <1>3. CASE ~ReplySend /\ Next
    <2>1. delivered' = delivered
      BY <1>3
         DEF Next, Accept, CallNext, IntoStream, Cycle, Listen, ListenFrame, TcpListenOk,
             TcpListenReject, TcpListenEof, TcpListenError, Send, SendFrame, SendFlush,
             SendWrite, SendDrain, SendError, Receive, ReadUnit, ReadHeader, ReadBody,
             ReadLast, ReadEof, ReadRetry, ReadGiveUp, Reply, ReplyError, AsyncDeadlines,
             TcpDeadline, RtuDeadline, SyncPolls, Polling, PollReady, ReadReady, PollSleep,
             PollExpire, PollError, Client, ClientBegin, ClientSend, ClientClose, Line,
             DeviceAnswer, DeviceIgnore, Arrive, Babble, Fail
    <2> QED  BY <1>1, <2>1
  <1> QED  BY <1>1, <1>2, <1>3 DEF vars

LEMMA InductiveInit == Init => IInv
  BY TypesInit, LineInit, DirtInit, PairedInit DEF IInv, TypedControl

LEMMA InductiveNext == IInv /\ [Next]_vars => IInv'
  <1> SUFFICES ASSUME IInv, [Next]_vars  PROVE IInv'
    OBVIOUS
  <1>1. TypedControl /\ LineOK /\ DirtOK /\ AnswersPaired
    BY DEF IInv, TypedControl
  <1>2. TypedControl'
    BY <1>1, TypesNext
  <1>3. LineOK'
    BY <1>1, LineNext
  <1>4. DirtOK' /\ AnswersPaired'
    BY <1>1, DirtNext, PairedNext
  <1> QED  BY <1>2, <1>3, <1>4 DEF IInv, TypedControl

THEOREM Inductive == Spec => []IInv
  BY InductiveInit, InductiveNext, PTL DEF Spec

(***************************************************************************)
(* Whatever the serial line corrupts, drops or invents, and whichever of   *)
(* the four bodies of next runs, a call that begins with no answer owed    *)
(* gives its client the answer to the client's own request.                *)
(***************************************************************************)
THEOREM Paired == Spec => []AnswersPaired
  <1>1. IInv => AnswersPaired
    BY DEF IInv
  <1> QED  BY <1>1, Inductive, PTL

\* A call that begins clean and completes has read its answer to the end.
THEOREM CleanCycles == Spec => []CleanCycle
  <1>1. IInv => CleanCycle
    BY DEF IInv, LineOK, CleanCycle
  <1> QED  BY <1>1, Inductive, PTL

\* Only a Timeout, RtuIo or RtuCrcMismatch can leave an answer for a later
\* call: clients that disconnect or send rubbish never do.
THEOREM SerialErrorsDirty == Spec => []OnlySerialErrorsDirty
  <1>1. IInv => OnlySerialErrorsDirty
    BY DEF IInv, DirtOK
  <1> QED  BY <1>1, Inductive, PTL

-----------------------------------------------------------------------------
(* The transmit-enable pin. *)

PinOK == pc \in {"receive", "reply"} => ~txEn

LEMMA PinInit == Init => PinOK
  BY DEF Init, PinOK

LEMMA PinNext == PinOK /\ [Next]_vars => PinOK'
  <1> SUFFICES ASSUME PinOK, [Next]_vars  PROVE PinOK'
    OBVIOUS
  <1>1. CASE pc' \notin {"receive", "reply"}
    BY <1>1 DEF PinOK
  <1>2. CASE UNCHANGED <<pc, txEn>>
    BY <1>2 DEF PinOK
  <1>3. CASE SendDrain
    BY <1>3 DEF SendDrain, PinOK
  <1>4. CASE pc = "receive" /\ UNCHANGED txEn
    BY <1>4 DEF PinOK
  <1>5. CASE Next /\ ~SendDrain
    <2>1. \/ pc' \notin {"receive", "reply"}
          \/ UNCHANGED <<pc, txEn>>
          \/ pc = "receive" /\ UNCHANGED txEn
      BY <1>5
         DEF Next, Accept, CallNext, IntoStream, Cycle, Listen, ListenFrame, TcpListenOk,
             TcpListenReject, TcpListenEof, TcpListenError, Send, SendFrame, SendFlush,
             SendWrite, SendError, Receive, ReadUnit, ReadHeader, ReadBody, ReadLast,
             ReadEof, ReadRetry, ReadGiveUp, Reply, ReplySend, ReplyError, AsyncDeadlines,
             TcpDeadline, RtuDeadline, SyncPolls, Polling, PollReady, ReadReady, PollSleep,
             PollExpire, PollError, Client, ClientBegin, ClientSend, ClientClose, Line,
             DeviceAnswer, DeviceIgnore, Arrive, Babble, Fail
    <2> QED  BY <1>1, <1>2, <1>4, <2>1
  <1> QED  BY <1>2, <1>3, <1>5 DEF vars

(***************************************************************************)
(* The bridge never listens for an answer, nor passes one on, with its own *)
(* driver on the line, and a call that began clean never drives the line   *)
(* while an answer is on it.                                               *)
(***************************************************************************)
THEOREM HalfDuplexKept == Spec => []HalfDuplex
  <1>1. IInv /\ PinOK => HalfDuplex
    <2> SUFFICES ASSUME IInv, PinOK, pc \in {"rtuPoll", "flush", "write"}, ~loc.dirty
                 PROVE  wire = <<>>
      BY DEF HalfDuplex, PinOK
    <2>1. Real(wire) = {}
      BY NothingOwed DEF IInv, LineOK, Unsent
    <2>2. wire \in Seq(Unit) /\ \A i \in 1..Len(wire) : wire[i].req # 0
      BY DEF IInv, TypeOK, ControlOK
    <2>3. Len(wire) \in Nat /\ (wire # <<>> => 1 \in 1..Len(wire))
      BY <2>2
    <2> QED  BY <2>1, <2>2, <2>3, RealUnits
  <1>2. Spec => []PinOK
    BY PinInit, PinNext, PTL DEF Spec
  <1> QED  BY <1>1, <1>2, Inductive, PTL
=============================================================================
