------------------------ MODULE ClientSessionProofs ------------------------
(***************************************************************************)
(* Theorems about ClientSession: types, the transmit-enable pin, when the  *)
(* framing of requests and answers is lost.                                *)
(***************************************************************************)
EXTENDS ClientSession, SequenceTheorems, TLAPS

-----------------------------------------------------------------------------
(* Queues. *)

\* Taking the head off a queue.
LEMMA HeadTail ==
  ASSUME NEW S, NEW s \in Seq(S), s # <<>>
  PROVE  /\ Head(s) \in S /\ Head(s) = s[1]
         /\ Tail(s) \in Seq(S) /\ Len(Tail(s)) = Len(s) - 1
         /\ Len(s) \in Nat /\ Len(s) > 0
         /\ \A i \in 1..Len(Tail(s)) : i + 1 \in 1..Len(s) /\ Tail(s)[i] = s[i + 1]
  OBVIOUS

\* Adding an element at the end of a queue.
LEMMA AppendLast ==
  ASSUME NEW S, NEW s \in Seq(S), NEW e \in S
  PROVE  /\ Append(s, e) \in Seq(S) /\ Len(Append(s, e)) = Len(s) + 1
         /\ Len(s) \in Nat
         /\ Append(s, e)[Len(s) + 1] = e
         /\ \A i \in 1..Len(s) : Append(s, e)[i] = s[i]
  OBVIOUS

\* Joining two queues.
LEMMA Joined ==
  ASSUME NEW S, NEW s \in Seq(S), NEW t \in Seq(S)
  PROVE  /\ s \o t \in Seq(S) /\ Len(s \o t) = Len(s) + Len(t)
         /\ Len(s) \in Nat /\ Len(t) \in Nat
         /\ \A i \in 1..Len(s \o t) :
              (s \o t)[i] = IF i <= Len(s) THEN s[i] ELSE t[i - Len(s)]
  OBVIOUS

\* The first element of a queue.
LEMMA FirstTyped ==
  ASSUME NEW S, NEW s \in Seq(S), NEW e \in S
  PROVE  Append(s, e)[1] \in S
  <1>1. CASE Len(s) = 0
    BY <1>1, AppendLast
  <1>2. CASE Len(s) # 0
    <2>1. 1 \in 1..Len(s) /\ s[1] \in S
      BY <1>2
    <2> QED  BY <2>1, AppendLast
  <1> QED  BY <1>1, <1>2

-----------------------------------------------------------------------------
(* Frames and locals. *)

LEMMA Sizes ==
  /\ TidMod \in Nat /\ TidMod >= 1 /\ Hdr \in Nat /\ Hdr >= 1
  /\ ReqLen \in Nat /\ ReqLen > Hdr /\ RtuBuf \in Nat /\ RtuBuf >= ReqLen
  /\ MaxAttempt \in Nat /\ MaxAttempt >= 1 /\ MaxLeft \in Nat /\ MaxLeft >= 1
  /\ MaxSess \in Nat /\ MaxReq \in Nat /\ MaxRx \in Nat
  BY SizeAssumption, BoundAssumption

\* A request on the line is a queue of units.
LEMMA FrameUnits ==
  ASSUME NEW r \in 1..MaxReq
  PROVE  /\ Frame(r) \in Seq(Unit) /\ Len(Frame(r)) = ReqLen
         /\ \A i \in 1..ReqLen : /\ Frame(r)[i] = [req |-> r, ix |-> i]
                                 /\ Frame(r)[i].req = r /\ Frame(r)[i].ix = i
  <1>1. \A i \in 1..ReqLen : [req |-> r, ix |-> i] \in Unit
    BY Sizes DEF Unit
  <1>2. Frame(r) \in [1..ReqLen -> Unit]
    BY <1>1 DEF Frame
  <1> QED  BY <1>2, Sizes DEF Frame

\* An answer on the stream is two parts.
LEMMA AnswerParts ==
  ASSUME NEW r \in 1..MaxReq, NEW t \in Tids
  PROVE  /\ Answer(r, t) \in Seq(Part) /\ Len(Answer(r, t)) = 2
         /\ \A i \in 1..2 : Answer(r, t)[i].req = r /\ Answer(r, t)[i].tid = t
         /\ Answer(r, t)[1].ix = 1 /\ Answer(r, t)[2].ix = 2
  <1>1. \A i \in 1..2 : [req |-> r, tid |-> t, ix |-> i] \in Part
    BY DEF Part, Tids
  <1>2. Answer(r, t) \in [1..2 -> Part]
    BY <1>1 DEF Answer
  <1>3. \A i \in 1..2 : Answer(r, t)[i] = [req |-> r, tid |-> t, ix |-> i]
    BY DEF Answer
  <1>4. Answer(r, t) \in Seq(Part) /\ Len(Answer(r, t)) = 2
    BY <1>2 DEF Answer
  <1>5. 1 \in 1..2 /\ 2 \in 1..2
    OBVIOUS
  <1>6. Answer(r, t)[1].ix = 1 /\ Answer(r, t)[2].ix = 2
    BY ONLY <1>3, <1>5
  <1>7. \A i \in 1..2 : Answer(r, t)[i].req = r /\ Answer(r, t)[i].tid = t
    BY ONLY <1>3
  <1> QED  BY <1>4, <1>6, <1>7

LEMMA NoiseUnit == Noise \in Unit /\ Noise.req = 0 /\ Noise.ix = 0
  BY Sizes DEF Noise, Unit

\* The next transaction id is an id.
LEMMA NextId == tid \in Tids => next_transaction_id \in Tids
  BY Sizes DEF Tids, next_transaction_id

LEMMA FreshLocals ==
  /\ Fresh \in Locals /\ Fresh.got = <<>> /\ Fresh.tcp = <<>> /\ Len(Fresh.got) = 0
  /\ Fresh.resp = 0 /\ Fresh.need = 0 /\ Fresh.left = 0 /\ Fresh.err = "none"
  BY Sizes DEF Fresh, Locals, Tids

\* The locals after an error.
LEMMA FailedLocals ==
  ASSUME NEW e \in Errors, NEW m, m = [Fresh EXCEPT !.err = e]
  PROVE  /\ m \in Locals /\ m.got = <<>> /\ m.tcp = <<>> /\ Len(m.got) = 0
         /\ m.need = 0 /\ m.left = 0 /\ m.err = e
  BY FreshLocals DEF Fresh, Locals

-----------------------------------------------------------------------------
(* Types. *)

Upstream == {"tcpSend", "tcpPoll", "tcpListen", "flush", "write"}

(***************************************************************************)
(* A session is connected, a call that has its request has one the master  *)
(* made, and what is read of a frame is held by the listen that reads it.  *)
(***************************************************************************)
ControlOK ==
  /\ pc # "idle" => sess \in 1..MaxSess
  /\ pc \in Upstream => loc.req \in 1..sent
  /\ pc # "rtuListen" => loc.got = <<>> /\ loc.need = 0
  /\ pc # "tcpListen" => loc.tcp = <<>> /\ loc.left = 0

TypedControl == TypeOK /\ ControlOK

StreamType == [eof : BOOLEAN, half : BOOLEAN, reused : BOOLEAN, cut : BOOLEAN]
PastType == [torn : BOOLEAN, sendFailed : BOOLEAN]

\* What an error return makes of the history.
LEMMA FailHistory ==
  ASSUME TypeOK, NEW e \in Errors, Fail(e)
  PROVE  /\ past' \in PastType /\ stream' \in StreamType
         /\ stream'.eof = stream.eof /\ stream'.reused = stream.reused
         /\ past'.sendFailed = past.sendFailed
         /\ past'.torn = (past.torn \/ (Abandons(e) /\ loc.got # <<>>))
         /\ stream'.cut = (stream.cut \/ (Abandons(e) /\ loc.tcp # <<>>))
         /\ stream'.half = (stream.half \/ pc = "tcpSend")
  <1> DEFINE t == past.torn \/ (Abandons(e) /\ loc.got # <<>>)
             c == stream.cut \/ (Abandons(e) /\ loc.tcp # <<>>)
             h == stream.half \/ pc = "tcpSend"
  <1>1. past \in PastType /\ stream \in StreamType
    BY DEF TypeOK, PastType, StreamType
  <1>2. t \in BOOLEAN /\ c \in BOOLEAN /\ h \in BOOLEAN
    BY Zenon
  <1>3. /\ past' = [past EXCEPT !.torn = t]
        /\ stream' = [stream EXCEPT !.cut = c, !.half = h]
    BY DEF Fail
  <1> HIDE DEF t, c, h
  <1>4. /\ past' \in PastType /\ stream' \in StreamType
        /\ stream'.eof = stream.eof /\ stream'.reused = stream.reused
        /\ past'.sendFailed = past.sendFailed
        /\ past'.torn = t /\ stream'.cut = c /\ stream'.half = h
    BY <1>1, <1>2, <1>3 DEF PastType, StreamType
  <1> QED  BY <1>4, Zenon DEF t, c, h

LEMMA ErrorNames ==
  /\ TcpErr.PayloadTooShort \in Errors /\ TcpErr.Tcp \in Errors /\ TcpErr.Push \in Errors
  /\ RtuErr.Serial \in Errors /\ RtuErr.Crc \in Errors /\ RtuErr.PayloadTooShort \in Errors
  /\ RtuErr.Push \in Errors /\ "Timeout" \in Errors
  BY DEF TcpErr, RtuErr, Errors

\* An error return keeps TypedControl, whatever was read before it.
LEMMA FailKeepsTypes ==
  ASSUME TypedControl, NEW e \in Errors, Fail(e), pc # "idle", txEn' = txEn,
         rx' \in Seq(Unit), tcpIn' \in Seq(Part)
  PROVE  /\ TypedControl' /\ pc' = "failed" /\ loc'.err = e
         /\ loc'.got = <<>> /\ loc'.tcp = <<>> /\ loc'.need = 0 /\ loc'.left = 0
         /\ UNCHANGED <<setup, sess, tid, sent, mcur, wire, numbered, srv, net, delivered, served>>
  <1>1. /\ pc' = "failed" /\ loc' = [Fresh EXCEPT !.err = e]
        /\ UNCHANGED <<setup, sess, tid, sent, mcur, wire, numbered, srv, net, delivered, served>>
    BY DEF Fail, masterVars, serverVars
  <1>2. /\ loc' \in Locals /\ loc'.got = <<>> /\ loc'.tcp = <<>> /\ Len(loc'.got) = 0
        /\ loc'.need = 0 /\ loc'.left = 0 /\ loc'.err = e
    BY <1>1, FailedLocals
  <1>3. TypeOK'
    <2>1. past' \in PastType /\ stream' \in StreamType
      BY FailHistory DEF TypedControl
    <2>2. TypeOK
      BY DEF TypedControl
    <2>3. Len(loc'.got) <= RtuBuf /\ "failed" \in PCs
      BY ONLY <1>2, Sizes DEF PCs
    <2> QED  BY <1>1, <1>2, <2>1, <2>2, <2>3 DEF TypeOK, PastType, StreamType
  <1>4. ControlOK'
    BY <1>1, <1>2 DEF TypedControl, ControlOK, Upstream
  <1> QED  BY <1>1, <1>2, <1>3, <1>4 DEF TypedControl

\* The steps that return an error from next, and from which place.
FailStep(e) ==
  /\ Fail(e) /\ txEn' = txEn
  /\ \/ /\ pc = "rtuListen" /\ rx # <<>> /\ rx' = Tail(rx) /\ tcpIn' = tcpIn
        /\ ListenOverflow \/ ListenLast
     \/ /\ pc \in {"rtuListen", "rtuPoll", "tcpSend", "tcpPoll", "tcpListen"}
        /\ rx' = rx /\ tcpIn' = tcpIn /\ Abandons(e)
     \/ /\ pc = "tcpListen" /\ tcpIn # <<>> /\ tcpIn' = Tail(tcpIn) /\ rx' = rx
        /\ ~InStep /\ e = "BufferOverflow"

\* Every error return but that of a failed send.
ErrorReturn ==
  \/ ListenOverflow \/ (ListenLast /\ pc' = "failed") \/ ListenEof \/ ListenGiveUp
  \/ TcpSendError \/ TcpListenReject \/ TcpListenEof \/ TcpListenError
  \/ AsyncDeadlines \/ PollExpire \/ PollError

LEMMA ErrorsReturned == ErrorReturn => \E e \in Errors : FailStep(e)
  <1> USE DEF FailStep
  <1>1. CASE ListenOverflow \/ (ListenLast /\ pc' = "failed")
    <2>1. PICK e \in {RtuErr.Push, RtuErr.Crc} : Fail(e)
      BY <1>1 DEF ListenOverflow, ListenLast
    <2>2. e \in Errors
      BY <2>1, ErrorNames
    <2> QED  BY <1>1, <2>1, <2>2 DEF ListenOverflow, ListenLast, ReadUnit
  <1>2. CASE ListenEof \/ ListenGiveUp \/ TcpSendError \/ TcpListenEof \/ TcpListenError
             \/ AsyncDeadlines \/ PollExpire \/ PollError
    <2>1. PICK e \in {RtuErr.PayloadTooShort, RtuErr.Serial, TcpErr.Tcp,
                      TcpErr.PayloadTooShort, "Timeout"} : Fail(e)
      BY <1>2 DEF ListenEof, ListenGiveUp, TcpSendError, TcpListenEof, TcpListenError,
                  AsyncDeadlines, RtuDeadline, TcpDeadline, PollExpire, PollError
    <2>2. e \in Errors /\ Abandons(e)
      BY <2>1, ErrorNames DEF RtuErr, TcpErr, Abandons
    <2> QED  BY <1>2, <2>1, <2>2
             DEF ListenEof, ListenGiveUp, TcpSendError, TcpListenEof, TcpListenError,
                 AsyncDeadlines, RtuDeadline, TcpDeadline, PollExpire, PollError, InPoll
  <1>3. CASE TcpListenReject
    BY <1>3, ErrorNames DEF TcpListenReject, ReadPart, TcpErr
  <1> QED  BY <1>1, <1>2, <1>3 DEF ErrorReturn

LEMMA TypesErrors ==
  ASSUME TypedControl, NEW e \in Errors, FailStep(e)  PROVE TypedControl'
  <1>1. rx \in Seq(Unit) /\ tcpIn \in Seq(Part)
    BY DEF TypedControl, TypeOK
  <1>2. rx' \in Seq(Unit) /\ tcpIn' \in Seq(Part)
    BY <1>1, HeadTail DEF FailStep
  <1>3. pc # "idle" /\ Fail(e) /\ txEn' = txEn
    BY DEF FailStep
  <1> QED  BY <1>2, <1>3, FailKeepsTypes

LEMMA TypesInit == Init => TypedControl
  <1> SUFFICES ASSUME Init PROVE TypeOK /\ ControlOK
    BY DEF TypedControl
  <1>1. TypeOK
    <2>1. txEn \in BOOLEAN /\ stream \in StreamType /\ past \in PastType
      <3>1. /\ txEn = FALSE /\ past = [torn |-> FALSE, sendFailed |-> FALSE]
            /\ stream = [eof |-> FALSE, half |-> FALSE, reused |-> FALSE, cut |-> FALSE]
        BY DEF Init, FreshStream
      <3> QED  BY <3>1 DEF StreamType, PastType
    <2>2. /\ pc \in PCs /\ sess \in 0..MaxSess /\ tid \in Tids /\ sent \in 0..MaxReq
          /\ mcur \in 0..sent /\ setup \in Scenarios /\ loc = Fresh
          /\ srv \subseteq [req : 1..MaxReq, tid : Tids]
      BY Sizes DEF Init, PCs, Tids
    <2>3. /\ wire = <<>> /\ rx = <<>> /\ numbered = <<>> /\ net = <<>> /\ tcpIn = <<>>
          /\ delivered = <<>> /\ served = <<>>
      BY DEF Init
    <2> QED  BY <2>1, <2>2, <2>3, FreshLocals, EmptySeq, Sizes
             DEF TypeOK, StreamType, PastType
  <1>2. pc = "idle" /\ loc = Fresh
    BY DEF Init
  <1>3. ControlOK
    BY <1>2, FreshLocals DEF ControlOK, Upstream
  <1> QED  BY <1>1, <1>3

\* A step that leaves the call where its locals stand.
LEMMA TypesCaller ==
  ASSUME TypedControl, Caller  PROVE TypedControl'
  <1> SUFFICES TypeOK' /\ ControlOK'
    BY DEF TypedControl
  <1> USE DEF TypedControl
  <1>1. loc' = Fresh /\ UNCHANGED <<setup, txEn, sent, mcur, wire, rx, numbered, delivered, served, past>>
    BY DEF Caller, Connect, CallNext, IntoStream, masterVars, lineVars
  <1>2. CASE Connect
    <2>1. pc' = "ready" /\ sess' \in 1..MaxSess /\ tid' \in Tids
      <3>1. pc' = "ready" /\ sess' = sess + 1 /\ sess < MaxSess /\ tid' = 0 /\ sess \in 0..MaxSess
        BY <1>2 DEF Connect, TypeOK
      <3> QED  BY ONLY <3>1, Sizes DEF Tids
    <2>2. stream' \in StreamType
      <3>1. stream' = [stream EXCEPT !.reused = TRUE] \/ stream' = FreshStream
        BY <1>2 DEF Connect
      <3>2. stream \in StreamType
        BY DEF TypeOK, StreamType
      <3> DEFINE t == TRUE
      <3>3. FreshStream \in StreamType
        BY DEF FreshStream, StreamType
      <3>4. t \in BOOLEAN
        OBVIOUS
      <3> HIDE DEF t
      <3>5. [stream EXCEPT !.reused = t] \in StreamType
        BY ONLY <3>2, <3>4 DEF StreamType
      <3> QED  BY <3>1, <3>3, <3>5, Zenon DEF t
    <2>3. /\ srv' \subseteq [req : 1..MaxReq, tid : Tids]
          /\ net' \in Seq(Part) /\ tcpIn' \in Seq(Part)
      BY <1>2, EmptySeq DEF Connect, TypeOK, serverVars
    <2>4. TypeOK'
      BY <1>1, <2>1, <2>2, <2>3, FreshLocals, Sizes DEF TypeOK, PCs, StreamType
    <2> QED  BY <1>1, <2>1, <2>4, FreshLocals DEF ControlOK, Upstream
  <1>3. CASE CallNext \/ IntoStream
    <2>1. /\ UNCHANGED <<sess, tid, srv, net, tcpIn, stream>>
          /\ pc' \in {"idle", "rtuPoll", "rtuListen"} /\ pc \in {"ready", "failed"}
      BY <1>3 DEF CallNext, IntoStream, serverVars
    <2>2. TypeOK'
      BY <1>1, <2>1, FreshLocals, Sizes DEF TypeOK, PCs
    <2> QED  BY <1>1, <2>1, <2>2, FreshLocals DEF ControlOK, Upstream
  <1> QED  BY <1>2, <1>3 DEF Caller

\* Reading a unit that is not the last one.
LEMMA UnitRead ==
  ASSUME TypedControl, ListenHeader \/ ListenBody
  PROVE  /\ pc = "rtuListen" /\ pc' = "rtuListen" /\ rx # <<>> /\ rx' = Tail(rx)
         /\ UNCHANGED <<setup, sess, txEn, tid, sent, mcur, wire, numbered, srv, net,
                        tcpIn, stream, delivered, served, past>>
         /\ loc' \in Locals /\ loc'.got = Got /\ loc'.req = loc.req /\ loc'.tid = loc.tid
         /\ loc'.tcp = loc.tcp /\ loc'.left = loc.left /\ loc'.resp = loc.resp
         /\ Got \in Seq(Unit) /\ Len(Got) = Len(loc.got) + 1 /\ Len(Got) \in 1..RtuBuf
         /\ \/ Len(Got) < Hdr /\ loc'.need = loc.need
            \/ Len(Got) = Hdr /\ loc'.need \in Need(Got)
            \/ loc.need > 1 /\ loc'.need = loc.need - 1
  <1>1. /\ loc \in Locals /\ rx \in Seq(Unit) /\ loc.got \in Seq(Unit)
        /\ loc.need \in 0..(RtuBuf - Hdr + 1) /\ loc.attempt \in 1..(MaxAttempt + 1)
    BY DEF TypedControl, TypeOK, Locals
  <1>2. /\ pc = "rtuListen" /\ pc' = "rtuListen" /\ rx # <<>> /\ rx' = Tail(rx)
        /\ UNCHANGED <<setup, sess, txEn, tid, sent, mcur, wire, numbered, srv, net,
                       tcpIn, stream, delivered, served, past>>
    BY DEF ListenHeader, ListenBody, ReadUnit, masterVars, serverVars
  <1>3. Got \in Seq(Unit) /\ Len(Got) = Len(loc.got) + 1 /\ Len(loc.got) \in Nat
    BY <1>1, <1>2, HeadTail, AppendLast DEF Got
  <1>4. Len(Got) \in 1..RtuBuf
    <2>1. Len(loc.got) < Hdr \/ Len(loc.got) < RtuBuf
      BY DEF ListenHeader, ListenBody
    <2> QED  BY ONLY <1>3, <2>1, Sizes
  <1>5. PICK n \in 0..(RtuBuf - Hdr + 1), a \in 1..(MaxAttempt + 1) :
          /\ loc' = [loc EXCEPT !.got = Got, !.need = n, !.attempt = a]
          /\ \/ Len(Got) < Hdr /\ n = loc.need
             \/ Len(Got) = Hdr /\ n \in Need(Got)
             \/ loc.need > 1 /\ n = loc.need - 1
    <2>1. CASE ListenHeader /\ Len(Got) < Hdr
      <3>1. loc' = [loc EXCEPT !.got = Got]
        BY <2>1 DEF ListenHeader
      <3> HIDE DEF Got
      <3>2. loc' = [loc EXCEPT !.got = Got, !.need = loc.need, !.attempt = loc.attempt]
        BY <1>1, <3>1 DEF Locals
      <3> QED  BY <1>1, <2>1, <3>2
    <2>2. CASE ListenHeader /\ ~(Len(Got) < Hdr)
      <3>1. Len(loc.got) < Hdr
        BY <2>2 DEF ListenHeader
      <3>2. PICK n \in Need(Got) : loc' = [loc EXCEPT !.got = Got, !.need = n, !.attempt = 1]
        BY <2>2 DEF ListenHeader
      <3>3. n \in 0..(RtuBuf - Hdr + 1) /\ 1 \in 1..(MaxAttempt + 1)
        BY Sizes DEF Need
      <3>4. Len(Got) = Hdr
        BY <1>3, <2>2, <3>1, Sizes
      <3> HIDE DEF Got
      <3> QED  BY <3>2, <3>3, <3>4
    <2>3. CASE ListenBody
      <3>0. loc.need > 1
        BY <2>3 DEF ListenBody
      <3>1. loc.need > 1 /\ loc.need - 1 \in 0..(RtuBuf - Hdr + 1)
        BY <1>1, <3>0, Sizes
      <3>2. PICK a \in {1, loc.attempt} :
              loc' = [loc EXCEPT !.got = Got, !.need = loc.need - 1, !.attempt = a]
        BY <2>3 DEF ListenBody
      <3>3. a \in 1..(MaxAttempt + 1)
        <4>1. 1 \in 1..(MaxAttempt + 1)
          BY Sizes
        <4>2. loc.attempt \in 1..(MaxAttempt + 1)
          BY <1>1
        <4> QED  BY <3>2, <4>1, <4>2, Zenon
      <3> QED  BY <3>1, <3>2, <3>3
    <2> QED  BY <2>1, <2>2, <2>3
  <1>6. /\ loc' \in Locals /\ loc'.got = Got /\ loc'.need = n /\ loc'.req = loc.req
        /\ loc'.tid = loc.tid /\ loc'.tcp = loc.tcp /\ loc'.left = loc.left
        /\ loc'.resp = loc.resp
    <2>1. loc' = [loc EXCEPT !.got = Got, !.need = n, !.attempt = a]
      BY <1>5
    <2>2. n \in 0..(RtuBuf - Hdr + 1) /\ a \in 1..(MaxAttempt + 1)
      OBVIOUS
    <2> QED  BY ONLY <1>1, <1>3, <2>1, <2>2 DEF Locals
  <1> QED  BY <1>2, <1>3, <1>4, <1>5, <1>6

\* Taking up the request whose last unit is read.
LEMMA RequestRead ==
  ASSUME TypedControl, ListenLast, pc' # "failed"
  PROVE  /\ pc = "rtuListen" /\ pc' = "tcpSend" /\ rx # <<>> /\ rx' = Tail(rx)
         /\ loc.need = 1 /\ tid' = next_transaction_id
         /\ UNCHANGED <<setup, sess, txEn, sent, mcur, wire, srv, net, tcpIn, stream,
                        delivered, served, past>>
         /\ loc' \in Locals /\ loc'.got = <<>> /\ Len(loc'.got) = 0 /\ loc'.tcp = <<>>
         /\ loc'.need = 0 /\ loc'.left = 0 /\ loc'.resp = 0 /\ loc'.tid = tid'
         /\ loc'.req \in 1..sent /\ loc'.req \in 1..MaxReq /\ Got = Frame(loc'.req)
         /\ numbered' = Append(numbered, [sess |-> sess, req |-> loc'.req])
         /\ [sess |-> sess, req |-> loc'.req] \in Number
  <1>1. /\ pc = "rtuListen" /\ rx # <<>> /\ rx' = Tail(rx) /\ loc.need = 1
        /\ UNCHANGED <<txEn, tcpIn>>
    BY DEF ListenLast, ReadUnit
  <1>2. PICK r \in Intact(Got) :
          /\ pc' = "tcpSend" /\ tid' = next_transaction_id
          /\ loc' = [Fresh EXCEPT !.req = r, !.tid = tid']
          /\ numbered' = Append(numbered, [sess |-> sess, req |-> r])
          /\ UNCHANGED <<setup, sess, sent, mcur, wire, srv, net, stream, delivered, served, past>>
    BY DEF ListenLast, Fail, masterVars, serverVars
  <1>3. r \in 1..sent /\ Got = Frame(r)
    BY <1>2 DEF Intact
  <1>4. sent \in 0..MaxReq /\ tid \in Tids /\ sess \in 1..MaxSess
    BY <1>1 DEF TypedControl, TypeOK, ControlOK
  <1>5. r \in 1..MaxReq /\ tid' \in Tids
    BY <1>2, <1>3, <1>4, NextId, Sizes
  <1>6. /\ loc' \in Locals /\ loc'.got = <<>> /\ Len(loc'.got) = 0 /\ loc'.tcp = <<>>
        /\ loc'.need = 0 /\ loc'.left = 0 /\ loc'.resp = 0 /\ loc'.tid = tid' /\ loc'.req = r
    <2>1. loc' = [Fresh EXCEPT !.req = r, !.tid = tid']
      BY <1>2
    <2>2. Fresh \in Locals /\ r \in 0..MaxReq
      BY <1>5, FreshLocals, Sizes
    <2> QED  BY ONLY <1>5, <2>1, <2>2, FreshLocals DEF Locals
  <1>7. [sess |-> sess, req |-> r] \in Number
    BY <1>4, <1>5 DEF Number
  <1> QED  BY <1>1, <1>2, <1>3, <1>5, <1>6, <1>7

LEMMA TypesListen ==
  ASSUME TypedControl, ListenHeader \/ ListenBody \/ (ListenLast /\ pc' # "failed") \/ ListenRetry
  PROVE  TypedControl'
  <1> SUFFICES TypeOK' /\ ControlOK'
    BY DEF TypedControl
  <1>1. TypeOK /\ ControlOK /\ rx \in Seq(Unit)
    BY DEF TypedControl, TypeOK
  <1>2. CASE ListenHeader \/ ListenBody
    <2>1. rx' \in Seq(Unit)
      BY <1>1, <1>2, UnitRead, HeadTail
    <2>2. /\ UNCHANGED <<setup, sess, txEn, tid, sent, mcur, wire, numbered, srv, net,
                         tcpIn, stream, delivered, served, past>>
          /\ loc' \in Locals /\ Len(loc'.got) <= RtuBuf /\ pc' = pc
      BY <1>2, UnitRead, Sizes
    <2>3. TypeOK'
      BY <1>1, <2>1, <2>2 DEF TypeOK
    <2> QED  BY <1>1, <1>2, <2>3, UnitRead DEF ControlOK, Upstream
  <1>3. CASE ListenLast /\ pc' # "failed"
    <2>1. rx' \in Seq(Unit)
      BY <1>1, <1>3, RequestRead, HeadTail
    <2>2. numbered' \in Seq(Number)
      <3>1. numbered \in Seq(Number)
        BY <1>1 DEF TypeOK
      <3> DEFINE k == [sess |-> sess, req |-> loc'.req]
      <3>2. k \in Number /\ numbered' = Append(numbered, k)
        BY <1>3, RequestRead
      <3> HIDE DEF k
      <3> QED  BY ONLY <3>1, <3>2, AppendLast
    <2>3. tid' \in Tids
      BY <1>1, <1>3, RequestRead, NextId DEF TypeOK
    <2>4. /\ UNCHANGED <<setup, sess, txEn, sent, mcur, wire, srv, net, tcpIn, stream,
                         delivered, served, past>>
          /\ loc' \in Locals /\ Len(loc'.got) <= RtuBuf /\ pc' = "tcpSend"
      BY <1>3, RequestRead, Sizes
    <2>5. TypeOK'
      BY <1>1, <2>1, <2>2, <2>3, <2>4 DEF TypeOK, PCs
    <2> QED  BY <1>1, <1>3, <2>5, RequestRead DEF ControlOK, Upstream
  <1>4. CASE ListenRetry
    <2>1. /\ loc' = [loc EXCEPT !.attempt = loc.attempt + 1] /\ loc.attempt <= MaxAttempt
          /\ UNCHANGED <<setup, pc, sess, txEn, tid, sent, mcur, wire, rx, numbered, srv,
                         net, tcpIn, stream, delivered, served, past>>
      BY <1>4 DEF ListenRetry, masterVars, lineVars, serverVars
    <2>2. /\ loc' \in Locals /\ loc'.got = loc.got /\ loc'.need = loc.need
          /\ loc'.tcp = loc.tcp /\ loc'.left = loc.left /\ loc'.req = loc.req
      <3>1. loc \in Locals
        BY <1>1 DEF TypeOK
      <3>a. loc.attempt \in 1..(MaxAttempt + 1)
        BY <3>1 DEF Locals
      <3>2. loc.attempt + 1 \in 1..(MaxAttempt + 1)
        BY ONLY <2>1, <3>a, Sizes
      <3> QED  BY <2>1, <3>1, <3>2 DEF Locals
    <2>3. TypeOK'
      BY <1>1, <2>1, <2>2 DEF TypeOK
    <2> QED  BY <1>1, <2>1, <2>2, <2>3 DEF ControlOK
  <1> QED  BY <1>2, <1>3, <1>4

\* The parts read so far and the next one.
LEMMA PartsTyped ==
  ASSUME TypedControl, ReadPart
  PROVE  /\ Parts \in Seq(Part) /\ Len(Parts) = Len(loc.tcp) + 1 /\ Parts[1] \in Part
         /\ Len(loc.tcp) \in Nat /\ loc.tcp \in Seq(Part) /\ tcpIn \in Seq(Part)
         /\ tcpIn # <<>> /\ tcpIn' = Tail(tcpIn) /\ tcpIn' \in Seq(Part)
         /\ pc = "tcpListen"
  <1>1. /\ tcpIn # <<>> /\ tcpIn' = Tail(tcpIn) /\ pc = "tcpListen"
    BY DEF ReadPart
  <1>2. loc.tcp \in Seq(Part) /\ tcpIn \in Seq(Part)
    BY DEF TypedControl, TypeOK, Locals
  <1>3. Head(tcpIn) \in Part
    BY <1>1, <1>2, HeadTail
  <1> QED  BY <1>1, <1>2, <1>3, HeadTail, AppendLast, FirstTyped DEF Parts

\* Reading a part of an answer that is not the last one.
LEMMA PartRead ==
  ASSUME TypedControl, TcpListenMore
  PROVE  /\ pc' = "tcpListen"
         /\ UNCHANGED <<setup, sess, txEn, tid, sent, mcur, wire, rx, numbered, srv, net,
                        stream, delivered, served, past>>
         /\ loc' \in Locals /\ loc'.tcp = Parts /\ loc'.req = loc.req /\ loc'.tid = loc.tid
         /\ loc'.got = loc.got /\ loc'.need = loc.need /\ loc'.left \in 1..MaxLeft
         /\ loc'.left \in IF loc.tcp # <<>> THEN {loc.left - 1}
                          ELSE IF InStep THEN {1} ELSE 1..MaxLeft
  <1>1. /\ ReadPart /\ pc' = "tcpListen"
        /\ UNCHANGED <<setup, sess, txEn, tid, sent, mcur, wire, rx, numbered, srv, net,
                       stream, delivered, served, past>>
    BY DEF TcpListenMore, ReadPart, masterVars, lineVars, serverVars
  <1>2. PICK n \in IF loc.tcp # <<>> THEN {loc.left - 1}
                   ELSE IF InStep THEN {1} ELSE 1..MaxLeft :
          n >= 1 /\ loc' = [loc EXCEPT !.tcp = Parts, !.left = n]
    BY DEF TcpListenMore
  <1>3. loc \in Locals /\ loc.left \in 0..MaxLeft
    BY DEF TypedControl, TypeOK, Locals
  <1>4. n \in 1..MaxLeft
    BY ONLY <1>2, <1>3, Sizes
  <1>5. Parts \in Seq(Part)
    BY <1>1, PartsTyped
  <1>6. loc' = [loc EXCEPT !.tcp = Parts, !.left = n] /\ n \in 0..MaxLeft
    BY <1>2, <1>4
  <1>7. /\ loc' \in Locals /\ loc'.tcp = Parts /\ loc'.left = n /\ loc'.req = loc.req
        /\ loc'.tid = loc.tid /\ loc'.got = loc.got /\ loc'.need = loc.need
    BY ONLY <1>3, <1>5, <1>6 DEF Locals
  <1> QED  BY <1>1, <1>2, <1>4, <1>7

\* Reading the last part of an answer.
LEMMA AnswerRead ==
  ASSUME TypedControl, TcpListenLast
  PROVE  /\ ReadPart /\ pc' = "flush" /\ loc.left = 1 /\ loc.tcp # <<>>
         /\ UNCHANGED <<setup, sess, txEn, tid, sent, mcur, wire, rx, numbered, srv, net,
                        stream, delivered, served, past>>
         /\ loc' \in Locals /\ loc'.tcp = <<>> /\ loc'.left = 0
         /\ loc'.req = loc.req /\ loc'.tid = loc.tid /\ loc'.got = loc.got
         /\ loc'.need = loc.need
         /\ \/ InStep /\ loc'.resp = Parts[1].req /\ loc'.warn = (Parts[1].tid # loc.tid)
            \/ (~InStep \/ stream.half) /\ loc'.resp = 0
  <1>1. /\ ReadPart /\ pc' = "flush" /\ loc.left = 1 /\ loc.tcp # <<>>
        /\ UNCHANGED <<setup, sess, txEn, tid, sent, mcur, wire, rx, numbered, srv, net,
                       stream, delivered, served, past>>
    BY DEF TcpListenLast, masterVars, lineVars, serverVars
  <1>2. loc \in Locals /\ Parts[1] \in Part /\ <<>> \in Seq(Part)
    BY <1>1, PartsTyped, EmptySeq DEF TypedControl, TypeOK
  <1>3. PICK q \in 0..MaxReq, w \in BOOLEAN :
          /\ loc' = [loc EXCEPT !.tcp = <<>>, !.left = 0, !.resp = q, !.warn = w]
          /\ \/ InStep /\ q = Parts[1].req /\ w = (Parts[1].tid # loc.tid)
             \/ (~InStep \/ stream.half) /\ q = 0
    <2>1. CASE /\ InStep
               /\ loc' = [loc EXCEPT !.tcp = <<>>, !.left = 0, !.resp = Parts[1].req,
                                     !.warn = Parts[1].tid # loc.tid]
      <3> DEFINE r == Parts[1].req
                 v == Parts[1].tid # loc.tid
      <3>1. r \in 0..MaxReq
        BY <1>2, Sizes DEF Part
      <3>2. v \in BOOLEAN
        OBVIOUS
      <3>3. loc' = [loc EXCEPT !.tcp = <<>>, !.left = 0, !.resp = r, !.warn = v]
        BY <2>1
      <3>4. r = Parts[1].req /\ v = (Parts[1].tid # loc.tid)
        OBVIOUS
      <3> HIDE DEF r, v
      <3> QED  BY ONLY <2>1, <3>1, <3>2, <3>3, <3>4, Zenon
    <2>2. CASE /\ ~InStep \/ stream.half
               /\ \E v \in BOOLEAN :
                    loc' = [loc EXCEPT !.tcp = <<>>, !.left = 0, !.resp = 0, !.warn = v]
      <3>1. PICK v \in BOOLEAN :
              loc' = [loc EXCEPT !.tcp = <<>>, !.left = 0, !.resp = 0, !.warn = v]
        BY <2>2
      <3>2. 0 \in 0..MaxReq
        BY Sizes
      <3> QED  BY ONLY <2>2, <3>1, <3>2, Zenon
    <2> QED  BY <2>1, <2>2 DEF TcpListenLast
  <1>4. loc' = [loc EXCEPT !.tcp = <<>>, !.left = 0, !.resp = q, !.warn = w]
    BY <1>3
  <1>5. 0 \in 0..MaxLeft /\ q \in 0..MaxReq /\ w \in BOOLEAN
    BY Sizes
  <1>6. /\ loc' \in Locals /\ loc'.tcp = <<>> /\ loc'.left = 0 /\ loc'.resp = q
        /\ loc'.warn = w /\ loc'.req = loc.req /\ loc'.tid = loc.tid /\ loc'.got = loc.got
        /\ loc'.need = loc.need
    BY ONLY <1>2, <1>4, <1>5 DEF Locals
  <1>7. \/ InStep /\ loc'.resp = Parts[1].req /\ loc'.warn = (Parts[1].tid # loc.tid)
        \/ (~InStep \/ stream.half) /\ loc'.resp = 0
    BY ONLY <1>3, <1>6, Zenon
  <1> QED  BY <1>1, <1>6, <1>7

\* Sending a request to the server.
LEMMA RequestSent ==
  ASSUME TypedControl, TcpSend
  PROVE  /\ pc = "tcpSend" /\ pc' \in {"tcpPoll", "tcpListen"}
         /\ UNCHANGED <<setup, sess, loc, txEn, tid, sent, mcur, wire, rx, numbered, net,
                        tcpIn, stream, delivered, served, past>>
         /\ [req |-> loc.req, tid |-> loc.tid] \in [req : 1..MaxReq, tid : Tids]
         /\ \/ srv' = srv
            \/ ~stream.eof /\ srv' = srv \cup {[req |-> loc.req, tid |-> loc.tid]}
  <1>1. /\ pc = "tcpSend" /\ pc' \in {"tcpPoll", "tcpListen"}
        /\ UNCHANGED <<setup, sess, loc, txEn, tid, sent, mcur, wire, rx, numbered, net,
                       tcpIn, stream, delivered, served, past>>
        /\ \/ srv' = srv
           \/ ~stream.eof /\ srv' = srv \cup {[req |-> loc.req, tid |-> loc.tid]}
    BY DEF TcpSend, masterVars, lineVars
  <1>2. loc.req \in 1..sent /\ sent \in 0..MaxReq /\ loc.tid \in Tids
    BY <1>1 DEF TypedControl, TypeOK, ControlOK, Upstream, Locals
  <1>3. loc.req \in 1..MaxReq
    BY ONLY <1>2, Sizes
  <1> QED  BY <1>1, <1>2, <1>3

LEMMA TypesExchange ==
  ASSUME TypedControl, TcpSend \/ TcpListenMore \/ TcpListenLast  PROVE TypedControl'
  <1>1. TypeOK /\ ControlOK
    BY DEF TypedControl
  <1>2. CASE TcpSend
    <2>1. srv' \subseteq [req : 1..MaxReq, tid : Tids]
      BY <1>1, <1>2, RequestSent DEF TypeOK
    <2>2. TypeOK'
      BY <1>1, <1>2, <2>1, RequestSent DEF TypeOK, PCs
    <2>3. ControlOK'
      BY <1>1, <1>2, RequestSent DEF ControlOK, Upstream
    <2> QED  BY <2>2, <2>3 DEF TypedControl
  <1>3. CASE TcpListenMore
    <2>1. ReadPart
      BY <1>3 DEF TcpListenMore
    <2>2. TypeOK'
      BY <1>1, <1>3, <2>1, PartRead, PartsTyped DEF TypeOK, PCs
    <2>3. ControlOK'
      BY <1>1, <1>3, <2>1, PartRead, PartsTyped DEF ControlOK, Upstream
    <2> QED  BY <2>2, <2>3 DEF TypedControl
  <1>4. CASE TcpListenLast
    <2>2. TypeOK'
      BY <1>1, <1>4, AnswerRead, PartsTyped DEF TypeOK, PCs
    <2>3. ControlOK'
      BY <1>1, <1>4, AnswerRead, PartsTyped DEF ControlOK, Upstream
    <2> QED  BY <2>2, <2>3 DEF TypedControl
  <1> QED  BY <1>2, <1>3, <1>4

\* The answer is on the line: what is recorded of it.
LEMMA AnswerSent ==
  ASSUME TypedControl, SendWrite
  PROVE  /\ pc = "write" /\ pc' = "drain" /\ loc' = Fresh /\ mcur' = 0
         /\ UNCHANGED <<setup, sess, txEn, tid, sent, wire, rx, numbered, srv, net, tcpIn,
                        stream, past>>
         /\ \E d \in Delivery :
              /\ delivered' = Append(delivered, d)
              /\ d.sess = sess /\ d.req = loc.req /\ d.resp = loc.resp /\ d.warn = loc.warn
              /\ d.to = mcur /\ d.clean = (~stream.reused /\ ~stream.cut /\ ~stream.half)
         /\ IF loc.resp = 0 THEN served' = served
            ELSE /\ served' = Append(served, [req |-> loc.req, resp |-> loc.resp])
                 /\ [req |-> loc.req, resp |-> loc.resp] \in Served
  <1> DEFINE c == ~stream.reused /\ ~stream.cut /\ ~stream.half
             d == [sess |-> sess, req |-> loc.req, resp |-> loc.resp, warn |-> loc.warn,
                   to |-> mcur, clean |-> c]
  <1>1. /\ pc = "write" /\ pc' = "drain" /\ loc' = Fresh /\ mcur' = 0
        /\ UNCHANGED <<setup, sess, txEn, tid, sent, wire, rx, numbered, srv, net, tcpIn,
                       stream, past>>
        /\ delivered' = Append(delivered, d)
    BY DEF SendWrite, lineVars, serverVars
  <1>2. /\ sess \in 1..MaxSess /\ loc.req \in 1..sent /\ sent \in 0..MaxReq
        /\ mcur \in 0..sent /\ loc.resp \in 0..MaxReq /\ loc.warn \in BOOLEAN
    BY <1>1 DEF TypedControl, TypeOK, ControlOK, Upstream, Locals
  <1>3. c \in BOOLEAN
    OBVIOUS
  <1>4. loc.req \in 1..MaxReq /\ mcur \in 0..MaxReq
    BY ONLY <1>2, Sizes
  <1> HIDE DEF c
  <1>5. /\ d \in Delivery /\ d.sess = sess /\ d.req = loc.req /\ d.resp = loc.resp
        /\ d.warn = loc.warn /\ d.to = mcur /\ d.clean = c
    BY ONLY <1>2, <1>3, <1>4 DEF Delivery
  <1>6. d.clean = (~stream.reused /\ ~stream.cut /\ ~stream.half)
    BY <1>5, Zenon DEF c
  <1>7. served' = IF loc.resp = 0 THEN served
                  ELSE Append(served, [req |-> loc.req, resp |-> loc.resp])
    BY DEF SendWrite
  <1>8. loc.resp # 0 => [req |-> loc.req, resp |-> loc.resp] \in Served
    BY <1>2, <1>4, Sizes DEF Served
  <1> HIDE DEF d
  <1> QED  BY <1>1, <1>5, <1>6, <1>7, <1>8, Zenon

LEMMA TypesSend ==
  ASSUME TypedControl, RtuSend  PROVE TypedControl'
  <1>1. TypeOK /\ ControlOK
    BY DEF TypedControl
  <1>2. CASE SendFlush
    <2>1. /\ pc = "flush" /\ pc' = "write" /\ txEn' = TRUE
          /\ UNCHANGED <<setup, sess, loc, tid, sent, mcur, wire, rx, numbered, srv, net,
                         tcpIn, stream, delivered, served, past>>
      BY <1>2 DEF SendFlush, masterVars, lineVars, serverVars
    <2>2. txEn' \in BOOLEAN
      BY <2>1, Zenon
    <2>3. TypeOK' /\ ControlOK'
      BY <1>1, <2>1, <2>2 DEF TypeOK, PCs, ControlOK, Upstream
    <2> QED  BY <2>3 DEF TypedControl
  <1>3. CASE SendWrite
    <2>1. delivered' \in Seq(Delivery)
      <3>1. delivered \in Seq(Delivery)
        BY <1>1 DEF TypeOK
      <3> QED  BY <1>3, <3>1, AnswerSent, AppendLast
    <2>a. served' \in Seq(Served)
      <3>1. served \in Seq(Served)
        BY <1>1 DEF TypeOK
      <3> QED  BY <1>3, <3>1, AnswerSent, AppendLast
    <2>2. mcur' \in 0..sent
      BY <1>1, <1>3, AnswerSent DEF TypeOK
    <2>3. TypeOK'
      BY <1>1, <1>3, <2>1, <2>a, <2>2, AnswerSent, FreshLocals, Sizes DEF TypeOK, PCs
    <2>4. ControlOK'
      BY <1>1, <1>3, AnswerSent, FreshLocals DEF ControlOK, Upstream
    <2> QED  BY <2>3, <2>4 DEF TypedControl
  <1>4. CASE SendDrain
    <2>1. /\ pc = "drain" /\ pc' = "ready" /\ txEn' = FALSE
          /\ past' = [past EXCEPT !.sendFailed = FALSE]
          /\ UNCHANGED <<setup, sess, loc, tid, sent, mcur, wire, rx, numbered, srv, net,
                         tcpIn, stream, delivered, served>>
      BY <1>4 DEF SendDrain, masterVars, lineVars, serverVars
    <2>2. txEn' \in BOOLEAN
      BY <2>1, Zenon
    <2>3. past' \in PastType
      <3> DEFINE f == FALSE
      <3>1. past \in PastType /\ f \in BOOLEAN /\ past' = [past EXCEPT !.sendFailed = f]
        BY <1>1, <2>1 DEF TypeOK, PastType
      <3> HIDE DEF f
      <3> QED  BY ONLY <3>1 DEF PastType
    <2>4. TypeOK' /\ ControlOK'
      BY <1>1, <2>1, <2>2, <2>3 DEF TypeOK, PCs, ControlOK, Upstream, PastType
    <2> QED  BY <2>4 DEF TypedControl
  <1>5. CASE SendError
    <2>1. /\ pc \in {"flush", "write", "drain"} /\ pc' = "failed"
          /\ loc' = [Fresh EXCEPT !.err = RtuErr.Serial]
          /\ past' = [past EXCEPT !.sendFailed = TRUE]
          /\ UNCHANGED <<setup, sess, txEn, tid, sent, mcur, wire, rx, numbered, srv, net,
                         tcpIn, stream, delivered, served>>
      BY <1>5 DEF SendError, masterVars, lineVars, serverVars
    <2>2. loc' \in Locals /\ loc'.got = <<>> /\ loc'.tcp = <<>> /\ Len(loc'.got) = 0
          /\ loc'.need = 0 /\ loc'.left = 0
      BY <2>1, ErrorNames, FailedLocals
    <2>3. past' \in PastType
      <3> DEFINE t == TRUE
      <3>1. past \in PastType /\ t \in BOOLEAN /\ past' = [past EXCEPT !.sendFailed = t]
        BY <1>1, <2>1 DEF TypeOK, PastType
      <3> HIDE DEF t
      <3> QED  BY ONLY <3>1 DEF PastType
    <2>4. TypeOK' /\ ControlOK'
      BY <1>1, <2>1, <2>2, <2>3, Sizes DEF TypeOK, PCs, ControlOK, Upstream, PastType
    <2> QED  BY <2>4 DEF TypedControl
  <1> QED  BY <1>2, <1>3, <1>4, <1>5 DEF RtuSend, SendFrame

\* The polling loops change nothing but the place and the time waited.
LEMMA Polled ==
  ASSUME TypedControl, PollReady \/ PollSleep
  PROVE  /\ pc \in {"rtuPoll", "tcpPoll"}
         /\ \/ pc' = pc
            \/ pc = "rtuPoll" /\ pc' = "rtuListen"
            \/ pc = "tcpPoll" /\ pc' = "tcpListen"
         /\ loc' \in Locals /\ loc'.req = loc.req /\ loc'.tid = loc.tid
         /\ loc'.got = loc.got /\ loc'.need = loc.need /\ loc'.tcp = loc.tcp
         /\ loc'.left = loc.left /\ loc'.resp = loc.resp
         /\ UNCHANGED <<setup, sess, txEn, tid, sent, mcur, wire, rx, numbered, srv, net,
                        tcpIn, stream, delivered, served, past>>
  <1>1. PICK t \in {0, loc.elapsed + 1} : loc' = [loc EXCEPT !.elapsed = t]
    BY DEF PollReady, PollSleep
  <1>2. loc \in Locals /\ loc.elapsed \in Nat
    BY DEF TypedControl, TypeOK, Locals
  <1>3. t \in Nat
    BY ONLY <1>1, <1>2
  <1>4. /\ loc' \in Locals /\ loc'.req = loc.req /\ loc'.tid = loc.tid
        /\ loc'.got = loc.got /\ loc'.need = loc.need /\ loc'.tcp = loc.tcp
        /\ loc'.left = loc.left /\ loc'.resp = loc.resp
    BY ONLY <1>1, <1>2, <1>3 DEF Locals
  <1>5. /\ pc \in {"rtuPoll", "tcpPoll"}
        /\ \/ pc' = pc
           \/ pc = "rtuPoll" /\ pc' = "rtuListen"
           \/ pc = "tcpPoll" /\ pc' = "tcpListen"
        /\ UNCHANGED <<setup, sess, txEn, tid, sent, mcur, wire, rx, numbered, srv, net,
                       tcpIn, stream, delivered, served, past>>
    BY DEF PollReady, PollSleep, InPoll, masterVars, lineVars, serverVars
  <1> QED  BY <1>4, <1>5

LEMMA TypesPolls ==
  ASSUME TypedControl, PollReady \/ PollSleep  PROVE TypedControl'
  <1>1. TypeOK /\ ControlOK
    BY DEF TypedControl
  <1>2. TypeOK'
    BY <1>1, Polled DEF TypeOK, PCs
  <1>3. ControlOK'
    BY <1>1, Polled DEF ControlOK, Upstream
  <1> QED  BY <1>2, <1>3 DEF TypedControl

\* The master makes a request.
LEMMA RequestMade ==
  ASSUME TypedControl, MasterSend
  PROVE  /\ mcur = 0 /\ sent' = sent + 1 /\ mcur' = sent' /\ sent' \in 1..MaxReq
         /\ wire' = wire \o Frame(sent') /\ wire \in Seq(Unit)
         /\ Frame(sent') \in Seq(Unit) /\ wire' \in Seq(Unit)
         /\ UNCHANGED <<setup, pc, sess, loc, txEn, tid, rx, numbered, srv, net, tcpIn,
                        stream, delivered, served, past>>
  <1>1. /\ mcur = 0 /\ sent' = sent + 1 /\ mcur' = sent' /\ sent < MaxReq
        /\ wire' = wire \o Frame(sent')
        /\ UNCHANGED <<setup, pc, sess, loc, txEn, tid, rx, numbered, srv, net, tcpIn,
                       stream, delivered, served, past>>
    BY DEF MasterSend, serverVars
  <1>2. sent \in 0..MaxReq /\ wire \in Seq(Unit)
    BY DEF TypedControl, TypeOK
  <1>3. sent' \in 1..MaxReq
    BY ONLY <1>1, <1>2, Sizes
  <1>4. Frame(sent') \in Seq(Unit)
    BY <1>3, FrameUnits
  <1>5. wire' \in Seq(Unit)
    BY <1>1, <1>2, <1>4, Joined
  <1> QED  BY <1>1, <1>2, <1>3, <1>4, <1>5

\* The units and parts that a step of the line or the network moves.
LEMMA Moved ==
  ASSUME TypedControl
  PROVE  /\ wire \in Seq(Unit) /\ rx \in Seq(Unit) /\ net \in Seq(Part) /\ tcpIn \in Seq(Part)
         /\ wire # <<>> => /\ Head(wire) \in Unit /\ Tail(wire) \in Seq(Unit)
                           /\ Append(rx, Head(wire)) \in Seq(Unit)
         /\ net # <<>> => /\ Head(net) \in Part /\ Tail(net) \in Seq(Part)
                          /\ Append(tcpIn, Head(net)) \in Seq(Part)
         /\ Append(rx, Noise) \in Seq(Unit)
  <1>1. wire \in Seq(Unit) /\ rx \in Seq(Unit) /\ net \in Seq(Part) /\ tcpIn \in Seq(Part)
    BY DEF TypedControl, TypeOK
  <1>2. wire # <<>> => Head(wire) \in Unit /\ Tail(wire) \in Seq(Unit)
    BY <1>1, HeadTail
  <1>3. net # <<>> => Head(net) \in Part /\ Tail(net) \in Seq(Part)
    BY <1>1, HeadTail
  <1> QED  BY <1>1, <1>2, <1>3, AppendLast, NoiseUnit

\* A unit leaves the line, and it or a corrupted one is taken by the UART.
LEMMA Arrived ==
  ASSUME TypedControl, Line
  PROVE  /\ UNCHANGED <<setup, pc, sess, loc, txEn, tid, sent, mcur, numbered, srv, net,
                        tcpIn, stream, delivered, served>>
         /\ wire' \in Seq(Unit) /\ rx' \in Seq(Unit) /\ past' \in PastType
         /\ past'.sendFailed = past.sendFailed
         /\ \/ /\ wire # <<>> /\ wire' = Tail(wire) /\ rx' = Append(rx, Head(wire))
               /\ past' = past
            \/ /\ wire # <<>> /\ wire' = Tail(wire) /\ rx' \in {rx, Append(rx, Noise)}
               /\ past'.torn
            \/ wire' = wire /\ rx' = Append(rx, Noise) /\ past'.torn
  <1>1. /\ UNCHANGED <<setup, pc, sess, loc, txEn, tid, sent, mcur, numbered, srv, net,
                       tcpIn, stream, delivered, served>>
        /\ \/ /\ wire # <<>> /\ wire' = Tail(wire) /\ rx' = Append(rx, Head(wire))
              /\ past' = past
           \/ /\ wire # <<>> /\ wire' = Tail(wire) /\ rx' \in {rx, Append(rx, Noise)}
              /\ past' = [past EXCEPT !.torn = TRUE]
           \/ /\ wire' = wire /\ rx' = Append(rx, Noise)
              /\ past' = [past EXCEPT !.torn = TRUE]
    BY DEF Line, Arrive, Babble, masterVars, serverVars
  <1>2. past \in PastType
    BY DEF TypedControl, TypeOK, PastType
  <1> DEFINE t == TRUE
             p == [past EXCEPT !.torn = t]
  <1>3. t \in BOOLEAN /\ t
    OBVIOUS
  <1>4. p = [past EXCEPT !.torn = TRUE]
    OBVIOUS
  <1> HIDE DEF t
  <1>5. p \in PastType /\ p.torn = t /\ p.sendFailed = past.sendFailed
    BY ONLY <1>2, <1>3 DEF PastType
  <1> HIDE DEF p
  <1>6. wire' \in Seq(Unit) /\ rx' \in Seq(Unit)
    BY <1>1, Moved
  <1>7. \/ past' = past
        \/ past' = p /\ past'.torn
    BY ONLY <1>1, <1>3, <1>4, <1>5, Zenon
  <1>8. past' \in PastType /\ past'.sendFailed = past.sendFailed
    BY ONLY <1>2, <1>5, <1>7, Zenon
  <1>9. past' = p => past'.torn
    BY ONLY <1>3, <1>5, Zenon
  <1> QED  BY ONLY <1>1, <1>4, <1>6, <1>8, <1>9, Zenon

\* The server answers a request, once or twice.
LEMMA Answered ==
  ASSUME TypedControl, ServerAnswer
  PROVE  /\ UNCHANGED <<setup, pc, sess, loc, txEn, tid, sent, mcur, wire, rx, numbered,
                        tcpIn, stream, delivered, served, past>>
         /\ ~stream.eof
         /\ \E q \in srv, t \in Tids :
              /\ q.req \in 1..MaxReq /\ q.tid \in Tids /\ srv' = srv \ {q}
              /\ t = q.tid \/ Fault("wrongTid")
              /\ \/ net' = net \o Answer(q.req, t)
                 \/ /\ net' = (net \o Answer(q.req, t)) \o Answer(q.req, t)
                    /\ Fault("repeat")
              /\ Answer(q.req, t) \in Seq(Part)
              /\ net \o Answer(q.req, t) \in Seq(Part) /\ net' \in Seq(Part)
  <1>1. /\ UNCHANGED <<setup, pc, sess, loc, txEn, tid, sent, mcur, wire, rx, numbered,
                       tcpIn, stream, delivered, served, past>>
        /\ ~stream.eof
    BY DEF ServerAnswer, masterVars, lineVars
  <1>2. PICK q \in srv, t \in Tids, n \in 1..2 :
          /\ t = q.tid \/ Fault("wrongTid")
          /\ n = 1 \/ Fault("repeat")
          /\ srv' = srv \ {q}
          /\ net' = net \o Answer(q.req, t) \o (IF n = 2 THEN Answer(q.req, t) ELSE <<>>)
    BY DEF ServerAnswer, Tids
  <1>3. net \in Seq(Part) /\ q.req \in 1..MaxReq /\ q.tid \in Tids
    BY DEF TypedControl, TypeOK
  <1>4. Answer(q.req, t) \in Seq(Part)
    BY <1>3, AnswerParts
  <1>5. net \o Answer(q.req, t) \in Seq(Part)
    BY <1>3, <1>4, Joined
  <1> DEFINE a == Answer(q.req, t)
             b == net \o a
  <1>6. a \in Seq(Part) /\ b \in Seq(Part)
    BY <1>4, <1>5
  <1>7. b \o <<>> = b /\ b \o a \in Seq(Part)
    <2> HIDE DEF a, b
    <2> QED  BY ONLY <1>6, Joined, EmptySeq
  <1>8. net' = b \/ (net' = b \o a /\ Fault("repeat"))
    <2>1. net' = b \o (IF n = 2 THEN a ELSE <<>>)
      BY <1>2
    <2>2. n \in 1..2 /\ (n = 1 \/ Fault("repeat"))
      BY <1>2
    <2> HIDE DEF a, b
    <2>3. CASE n = 1
      BY ONLY <1>7, <2>1, <2>3
    <2>4. CASE n = 2
      <3>1. net' = b \o a
        BY ONLY <2>1, <2>4
      <3>2. Fault("repeat")
        BY <2>2, <2>4
      <3> QED  BY <3>1, <3>2
    <2> QED  BY <2>2, <2>3, <2>4
  <1>9. net' \in Seq(Part)
    BY <1>6, <1>7, <1>8
  <1> QED  BY <1>1, <1>2, <1>3, <1>4, <1>5, <1>8, <1>9

LEMMA Closed ==
  ASSUME TypedControl, ServerClose
  PROVE  /\ UNCHANGED <<setup, pc, sess, loc, txEn, tid, sent, mcur, wire, rx, numbered,
                        tcpIn, delivered, served, past>>
         /\ srv' = {} /\ net' = <<>> /\ stream' \in StreamType
         /\ stream'.eof /\ stream'.reused = stream.reused /\ stream'.cut = stream.cut
         /\ stream'.half = stream.half
  <1>1. /\ UNCHANGED <<setup, pc, sess, loc, txEn, tid, sent, mcur, wire, rx, numbered,
                       tcpIn, delivered, served, past>>
        /\ srv' = {} /\ net' = <<>> /\ stream' = [stream EXCEPT !.eof = TRUE]
    BY DEF ServerClose, masterVars, lineVars
  <1>2. stream \in StreamType
    BY DEF TypedControl, TypeOK, StreamType
  <1> DEFINE t == TRUE
  <1>3. t \in BOOLEAN /\ t /\ stream' = [stream EXCEPT !.eof = t]
    BY <1>1
  <1> HIDE DEF t
  <1>4. /\ stream' \in StreamType /\ stream'.eof = t
        /\ stream'.reused = stream.reused /\ stream'.cut = stream.cut
        /\ stream'.half = stream.half
    BY ONLY <1>2, <1>3 DEF StreamType
  <1>5. stream'.eof
    BY ONLY <1>3, <1>4, Zenon
  <1> QED  BY <1>1, <1>4, <1>5

LEMMA TypesEnvironment ==
  ASSUME TypedControl, Master \/ Line \/ Server  PROVE TypedControl'
  <1>1. TypeOK /\ ControlOK
    BY DEF TypedControl
  <1>2. CASE MasterSend
    <2>1. sent' \in 0..MaxReq /\ mcur' \in 0..sent' /\ sent \in 0..MaxReq /\ sent' = sent + 1
      BY <1>1, <1>2, RequestMade, Sizes DEF TypeOK
    <2>2. TypeOK'
      BY <1>1, <1>2, <2>1, RequestMade DEF TypeOK
    <2>3. ControlOK'
      <3>1. ASSUME NEW r \in 1..sent  PROVE r \in 1..sent'
        BY ONLY <2>1, <3>1, Sizes
      <3> QED  BY <1>1, <1>2, <3>1, RequestMade DEF ControlOK
    <2> QED  BY <2>2, <2>3 DEF TypedControl
  <1>3. CASE MasterGiveUp
    <2>1. /\ mcur' = 0
          /\ UNCHANGED <<setup, pc, sess, loc, txEn, tid, sent, wire, rx, numbered, srv, net,
                         tcpIn, stream, delivered, served, past>>
      BY <1>3 DEF MasterGiveUp, lineVars, serverVars
    <2>2. mcur' \in 0..sent'
      BY <1>1, <2>1, Sizes DEF TypeOK
    <2>3. TypeOK' /\ ControlOK'
      BY <1>1, <2>1, <2>2 DEF TypeOK, ControlOK
    <2> QED  BY <2>3 DEF TypedControl
  <1>4. CASE Line
    <2>1. TypeOK'
      BY <1>1, <1>4, Arrived DEF TypeOK, PastType
    <2>2. ControlOK'
      BY <1>1, <1>4, Arrived DEF ControlOK
    <2> QED  BY <2>1, <2>2 DEF TypedControl
  <1>5. CASE ServerAnswer
    <2>1. TypeOK'
      BY <1>1, <1>5, Answered DEF TypeOK
    <2>2. ControlOK'
      BY <1>1, <1>5, Answered DEF ControlOK
    <2> QED  BY <2>1, <2>2 DEF TypedControl
  <1>6. CASE ServerIgnore \/ TcpArrive
    <2>1. /\ UNCHANGED <<setup, pc, sess, loc, txEn, tid, sent, mcur, wire, rx, numbered,
                         stream, delivered, served, past>>
          /\ srv' \subseteq srv
          /\ \/ UNCHANGED <<net, tcpIn>>
             \/ net # <<>> /\ net' = Tail(net) /\ tcpIn' = Append(tcpIn, Head(net))
      BY <1>6 DEF ServerIgnore, TcpArrive, masterVars, lineVars
    <2>2. net' \in Seq(Part) /\ tcpIn' \in Seq(Part)
      BY <2>1, Moved
    <2>3. TypeOK' /\ ControlOK'
      BY <1>1, <2>1, <2>2 DEF TypeOK, ControlOK
    <2> QED  BY <2>3 DEF TypedControl
  <1>7. CASE ServerClose
    <2>1. net' \in Seq(Part)
      BY <1>7, Closed, EmptySeq
    <2>2. TypeOK'
      BY <1>1, <1>7, <2>1, Closed DEF TypeOK, StreamType
    <2>3. ControlOK'
      BY <1>1, <1>7, Closed DEF ControlOK
    <2> QED  BY <2>2, <2>3 DEF TypedControl
  <1> QED  BY <1>2, <1>3, <1>4, <1>5, <1>6, <1>7 DEF Master, Server

\* Every step is one of these.
LEMMA Steps ==
  ASSUME TypedControl, Next
  PROVE  \/ Caller \/ ListenHeader \/ ListenBody \/ (ListenLast /\ pc' # "failed")
         \/ ListenRetry \/ TcpSend \/ TcpListenMore \/ TcpListenLast \/ RtuSend
         \/ PollReady \/ PollSleep \/ Master \/ Line \/ Server
         \/ \E e \in Errors : FailStep(e)
  BY ErrorsReturned
     DEF Next, Cycle, RtuListen, ListenUnit, TcpExchange, TcpListenFrame, SyncPolls,
         Polling, ErrorReturn

LEMMA TypesNext == TypedControl /\ [Next]_vars => TypedControl'
  <1> SUFFICES ASSUME TypedControl, [Next]_vars  PROVE TypedControl'
    OBVIOUS
  <1>1. CASE UNCHANGED vars
    BY <1>1 DEF TypedControl, TypeOK, ControlOK, vars, masterVars, lineVars, serverVars
  <1>2. CASE Next
    BY <1>2, Steps, TypesCaller, TypesListen, TypesExchange, TypesSend, TypesPolls,
       TypesEnvironment, TypesErrors
  <1> QED  BY <1>1, <1>2

(***************************************************************************)
(* Type correctness: no read of a request outgrows the serial buffer and   *)
(* no read_exact outlives its attempts, whatever the master, the line and  *)
(* the server do.                                                          *)
(***************************************************************************)
THEOREM TypeCorrect == Spec => []TypeOK
  <1>1. TypedControl => TypeOK
    BY DEF TypedControl
  <1> QED  BY <1>1, TypesInit, TypesNext, PTL DEF Spec

-----------------------------------------------------------------------------
(* The transmit-enable pin. *)

LEMMA PinNext ==
  ASSUME TypedControl, TxEnOnlyWhileSending, [Next]_vars  PROVE TxEnOnlyWhileSending'
  <1> USE DEF TxEnOnlyWhileSending
  <1>1. CASE UNCHANGED vars
    BY <1>1 DEF vars
  <1>2. CASE Caller
    BY <1>2 DEF Caller, Connect, CallNext, IntoStream
  <1>3. CASE ListenHeader \/ ListenBody
    BY <1>3, UnitRead
  <1>4. CASE ListenLast /\ pc' # "failed"
    BY <1>4, RequestRead
  <1>5. CASE ListenRetry
    BY <1>5 DEF ListenRetry
  <1>6. CASE TcpSend \/ TcpListenMore \/ TcpListenLast
    BY <1>6, RequestSent, PartRead, AnswerRead, PartsTyped DEF TcpListenMore
  <1>7. CASE RtuSend
    <2>1. CASE SendFlush
      BY <2>1 DEF SendFlush
    <2>2. CASE SendWrite
      BY <2>2, AnswerSent
    <2>3. CASE SendDrain
      BY <2>3 DEF SendDrain
    <2>4. CASE SendError
      <3> DEFINE t == TRUE
      <3>1. past \in PastType /\ t \in BOOLEAN /\ past' = [past EXCEPT !.sendFailed = t]
        BY <2>4 DEF TypedControl, TypeOK, PastType, SendError
      <3> HIDE DEF t
      <3>2. past'.sendFailed = t
        BY ONLY <3>1 DEF PastType
      <3>3. past'.sendFailed
        BY <3>2, Zenon DEF t
      <3> QED  BY <3>3
    <2> QED  BY <1>7, <2>1, <2>2, <2>3, <2>4 DEF RtuSend, SendFrame
  <1>8. CASE PollReady \/ PollSleep
    BY <1>8, Polled
  <1>9. CASE Master
    BY <1>9 DEF Master, MasterSend, MasterGiveUp
  <1>10. CASE Line
    BY <1>10, Arrived
  <1>11. CASE Server
    BY <1>11 DEF Server, ServerAnswer, ServerIgnore, TcpArrive, ServerClose
  <1>12. ASSUME NEW e \in Errors, FailStep(e)  PROVE TxEnOnlyWhileSending'
    <2>1. Fail(e) /\ txEn' = txEn /\ pc \notin {"write", "drain"}
      BY <1>12 DEF FailStep
    <2>2. past'.sendFailed = past.sendFailed
      BY <2>1, FailHistory DEF TypedControl
    <2> QED  BY <2>1, <2>2
  <1> QED  BY <1>1, <1>2, <1>3, <1>4, <1>5, <1>6, <1>7, <1>8, <1>9, <1>10, <1>11, <1>12, Steps

(***************************************************************************)
(* The transmit-enable pin is high only while an answer is written, or     *)
(* after a send that the serial port failed: no deadline can drop a send.  *)
(***************************************************************************)
THEOREM PinOnlyWhileSending == Spec => []TxEnOnlyWhileSending
  <1>1. Init => TxEnOnlyWhileSending
    BY Zenon DEF Init, TxEnOnlyWhileSending
  <1> QED  BY <1>1, TypesInit, TypesNext, PinNext, PTL DEF Spec

-----------------------------------------------------------------------------
(* What is on the line and on the stream is in step. *)

LEMMA UnitsRegrouped == \A s, t, u \in Seq(Unit) : s \o (t \o u) = (s \o t) \o u
  <1> TAKE s, t, u \in Seq(Unit)
  <1> QED  BY ConcatAssociative

LEMMA PartsRegrouped == \A s, t, u \in Seq(Part) : s \o (t \o u) = (s \o t) \o u
  <1> TAKE s, t, u \in Seq(Part)
  <1> QED  BY ConcatAssociative

\* A queue of two parts stays the same when its middle element changes parts.
LEMMA MovedAcross ==
  ASSUME NEW S, NEW s \in Seq(S), NEW t \in Seq(S), t # <<>>
  PROVE  Append(s, Head(t)) \o Tail(t) = s \o t
  <1> DEFINE a == Append(s, Head(t))
             b == Tail(t)
             h == Head(t)
  <1>1. /\ h \in S /\ h = t[1] /\ b \in Seq(S) /\ Len(b) = Len(t) - 1
        /\ \A i \in 1..Len(b) : b[i] = t[i + 1]
        /\ Len(t) \in Nat /\ Len(t) > 0
    BY HeadTail
  <1>2. /\ a \in Seq(S) /\ Len(a) = Len(s) + 1 /\ a[Len(s) + 1] = h
        /\ \A i \in 1..Len(s) : a[i] = s[i]
        /\ Len(s) \in Nat
    BY <1>1, AppendLast
  <1> HIDE DEF a, b, h
  <1>a. a \o b \in Seq(S) /\ Len(a \o b) = Len(a) + Len(b)
    BY ONLY <1>1, <1>2, Joined
  <1>b. s \o t \in Seq(S) /\ Len(s \o t) = Len(s) + Len(t)
    BY Joined
  <1>3. /\ a \o b \in Seq(S) /\ s \o t \in Seq(S) /\ Len(a \o b) = Len(s \o t)
        /\ Len(s \o t) = Len(s) + Len(t)
    BY ONLY <1>a, <1>b, <1>1, <1>2
  <1>4. ASSUME NEW i \in 1..Len(s \o t)  PROVE (a \o b)[i] = (s \o t)[i]
    <2>1. (s \o t)[i] = IF i <= Len(s) THEN s[i] ELSE t[i - Len(s)]
      BY Joined
    <2>2. (a \o b)[i] = IF i <= Len(a) THEN a[i] ELSE b[i - Len(a)]
      BY <1>1, <1>2, <1>3, Joined
    <2>3. CASE i <= Len(s)
      BY ONLY <1>2, <2>1, <2>2, <2>3, i \in 1..Len(s \o t)
    <2>4. CASE i = Len(s) + 1
      <3>1. (a \o b)[i] = h
        BY ONLY <1>2, <2>2, <2>4
      <3>2. (s \o t)[i] = t[1]
        BY ONLY <1>2, <2>1, <2>4
      <3> QED  BY ONLY <1>1, <3>1, <3>2
    <2>5. CASE i > Len(s) + 1
      <3>1. i - Len(a) \in 1..Len(b) /\ (i - Len(a)) + 1 = i - Len(s)
        BY ONLY <1>1, <1>2, <1>3, <2>5, i \in 1..Len(s \o t)
      <3>2. b[i - Len(a)] = t[(i - Len(a)) + 1]
        BY ONLY <1>1, <3>1
      <3>3. (a \o b)[i] = b[i - Len(a)] /\ (s \o t)[i] = t[i - Len(s)]
        BY ONLY <1>2, <2>1, <2>2, <2>5, i \in 1..Len(s \o t)
      <3> QED  BY ONLY <3>1, <3>2, <3>3
    <2>6. i <= Len(s) \/ i = Len(s) + 1 \/ i > Len(s) + 1
      BY <1>2
    <2> QED  BY <2>3, <2>4, <2>5, <2>6, Zenon
  <1>5. a \o b = s \o t
    BY ONLY <1>3, <1>4, SeqEqual
  <1> QED  BY <1>5 DEF a, b

\* The head of a queue of two parts is the head of the first one.
LEMMA HeadJoined ==
  ASSUME NEW S, NEW s \in Seq(S), NEW t \in Seq(S), s # <<>>
  PROVE  s \o t # <<>> /\ Head(s \o t) = Head(s) /\ Tail(s \o t) = Tail(s) \o t
  <1> DEFINE b == Tail(s)
             q == s \o t
             c == Tail(q)
  <1>1. /\ b \in Seq(S) /\ Len(b) = Len(s) - 1 /\ Len(s) \in Nat /\ Len(s) > 0
        /\ Head(s) = s[1] /\ \A i \in 1..Len(b) : b[i] = s[i + 1]
    BY HeadTail
  <1>2. /\ q \in Seq(S) /\ Len(q) = Len(s) + Len(t) /\ Len(t) \in Nat
        /\ \A i \in 1..Len(q) : q[i] = IF i <= Len(s) THEN s[i] ELSE t[i - Len(s)]
    BY Joined
  <1> HIDE DEF q, b
  <1>3. q # <<>>
    BY ONLY <1>1, <1>2
  <1>4. /\ c \in Seq(S) /\ Len(c) = Len(q) - 1 /\ Head(q) = q[1]
        /\ \A i \in 1..Len(c) : i + 1 \in 1..Len(q) /\ c[i] = q[i + 1]
    BY <1>2, <1>3, HeadTail
  <1> HIDE DEF c
  <1>5. Head(q) = Head(s)
    BY ONLY <1>1, <1>2, <1>4
  <1>6. /\ b \o t \in Seq(S) /\ Len(b \o t) = Len(c)
        /\ \A i \in 1..Len(b \o t) : (b \o t)[i] = IF i <= Len(b) THEN b[i] ELSE t[i - Len(b)]
    BY ONLY <1>1, <1>2, <1>4, Joined, t \in Seq(S)
  <1>7. ASSUME NEW i \in 1..Len(c)  PROVE c[i] = (b \o t)[i]
    <2>1. c[i] = IF i + 1 <= Len(s) THEN s[i + 1] ELSE t[(i + 1) - Len(s)]
      BY <1>2, <1>4
    <2>2. CASE i <= Len(b)
      <3>1. i \in 1..Len(b) /\ i + 1 <= Len(s) /\ i \in 1..Len(b \o t)
        BY ONLY <1>1, <1>6, <2>2, i \in 1..Len(c)
      <3> QED  BY ONLY <1>1, <1>6, <2>1, <2>2, <3>1
    <2>3. CASE i > Len(b)
      <3>1. /\ ~(i <= Len(b)) /\ ~(i + 1 <= Len(s)) /\ i \in 1..Len(b \o t)
            /\ (i + 1) - Len(s) = i - Len(b)
        BY ONLY <1>1, <1>6, <2>3, i \in 1..Len(c)
      <3> QED  BY ONLY <1>6, <2>1, <3>1
    <2>4. i <= Len(b) \/ i > Len(b)
      BY <1>1
    <2> QED  BY <2>2, <2>3, <2>4, Zenon
  <1>8. c = b \o t
    BY ONLY <1>4, <1>6, <1>7, SeqEqual
  <1> QED  BY <1>3, <1>5, <1>8 DEF q, b, c

\* The unit v may come right after the unit u.
Follows(u, v) == \/ v.req = u.req /\ v.ix = u.ix + 1
                 \/ u.ix = ReqLen /\ v.ix = 1 /\ v.req = u.req + 1

(***************************************************************************)
(* g is the beginning of a request and q goes on with the rest of it and   *)
(* with whole requests up to request n: nothing is torn.                   *)
(***************************************************************************)
Beginning(g) == \A i \in 1..Len(g) : g[i].req = g[1].req /\ g[i].ix = i

Rest(q, n) ==
  /\ \A i \in 1..Len(q) : q[i].req \in 1..n /\ q[i].ix \in 1..ReqLen
  /\ \A i \in 1..(Len(q) - 1) : Follows(q[i], q[i + 1])
  /\ q # <<>> => q[Len(q)].req = n /\ q[Len(q)].ix = ReqLen

Fits(g, q) == IF q = <<>> THEN g = <<>>
              ELSE IF g = <<>> THEN q[1].ix = 1
              ELSE q[1].req = g[1].req /\ q[1].ix = Len(g) + 1

RequestsInStep(g, q, n) ==
  Len(g) < ReqLen /\ Beginning(g) /\ Rest(q, n) /\ Fits(g, q)

\* The beginning of a request with the next unit is a longer beginning.
Longer(g, q) == Append(g, Head(q))

LEMMA LongerBeginning ==
  ASSUME NEW n \in 0..MaxReq, NEW g \in Seq(Unit), NEW q \in Seq(Unit),
         RequestsInStep(g, q, n), q # <<>>
  PROVE  /\ Longer(g, q) \in Seq(Unit) /\ Len(Longer(g, q)) = Len(g) + 1
         /\ Len(g) \in Nat /\ Beginning(Longer(g, q))
         /\ Longer(g, q)[1].req \in 1..n /\ Longer(g, q)[1].req = q[1].req
         /\ Len(Longer(g, q)) = q[1].ix
  <1> DEFINE h == Longer(g, q)
  <1>1. /\ Head(q) \in Unit /\ Head(q) = q[1] /\ 1 \in 1..Len(q)
    BY HeadTail
  <1>2. /\ h \in Seq(Unit) /\ Len(h) = Len(g) + 1 /\ Len(g) \in Nat
        /\ h[Len(g) + 1] = q[1] /\ \A i \in 1..Len(g) : h[i] = g[i]
    BY <1>1, AppendLast DEF Longer
  <1> HIDE DEF h
  <1>3. q[1].req \in 1..n
    BY <1>1 DEF RequestsInStep, Rest
  <1>4. CASE g = <<>>
    <2>1. Len(g) = 0 /\ q[1].ix = 1
      BY <1>4 DEF RequestsInStep, Fits
    <2>2. Len(h) = 1 /\ h[1] = q[1]
      BY <1>2, <2>1
    <2>3. Beginning(h)
      BY <2>1, <2>2 DEF Beginning
    <2> QED  BY <1>2, <1>3, <2>1, <2>2, <2>3 DEF h
  <1>5. CASE g # <<>>
    <2>1. q[1].req = g[1].req /\ q[1].ix = Len(g) + 1
      BY <1>5 DEF RequestsInStep, Fits
    <2>2. 1 \in 1..Len(g)
      BY <1>5
    <2>3. h[1] = g[1]
      BY <1>2, <2>2
    <2>4. ASSUME NEW i \in 1..Len(h)  PROVE h[i].req = h[1].req /\ h[i].ix = i
      <3>1. CASE i \in 1..Len(g)
        <4>1. g[i].req = g[1].req /\ g[i].ix = i /\ h[i] = g[i]
          BY <1>2, <3>1 DEF RequestsInStep, Beginning
        <4> QED  BY <2>3, <4>1
      <3>2. CASE i = Len(g) + 1
        BY <1>2, <2>1, <2>3, <3>2
      <3>3. i \in 1..Len(g) \/ i = Len(g) + 1
        BY ONLY <1>2, i \in 1..Len(h)
      <3> QED  BY <3>1, <3>2, <3>3
    <2>5. Beginning(h)
      BY <2>4 DEF Beginning
    <2> QED  BY <1>2, <1>3, <2>1, <2>3, <2>5 DEF h
  <1> QED  BY <1>4, <1>5 DEF h

\* A beginning is the beginning of a request's units.
LEMMA BeginningOf ==
  ASSUME NEW h \in Seq(Unit), Beginning(h), h[1].req \in 1..MaxReq, Len(h) <= ReqLen,
         NEW i \in 1..Len(h)
  PROVE  h[i] = Frame(h[1].req)[i]
  <1>1. h[i] \in Unit /\ h[i].req = h[1].req /\ h[i].ix = i
    BY DEF Beginning
  <1>2. h[i] = [req |-> h[1].req, ix |-> i]
    BY <1>1 DEF Unit
  <1>3. i \in 1..ReqLen
    BY Sizes
  <1> QED  BY <1>2, <1>3, FrameUnits

\* With its last unit it is the request.
LEMMA WholeRequest ==
  ASSUME NEW h \in Seq(Unit), Beginning(h), h[1].req \in 1..MaxReq, Len(h) = ReqLen
  PROVE  h = Frame(h[1].req)
  <1> DEFINE f == Frame(h[1].req)
  <1>1. f \in Seq(Unit) /\ Len(f) = ReqLen
    BY FrameUnits
  <1>2. \A i \in 1..Len(h) : h[i] = f[i]
    BY BeginningOf, Sizes
  <1> HIDE DEF f
  <1>3. h = f
    BY <1>1, <1>2, SeqEqual
  <1> QED  BY <1>3 DEF f

\* With its header read, the rest of its length is known.
LEMMA HeaderRight ==
  ASSUME NEW n \in 0..MaxReq, NEW h \in Seq(Unit), Beginning(h), h[1].req \in 1..n,
         Len(h) = Hdr
  PROVE  \E r \in 1..n : h = SubSeq(Frame(r), 1, Hdr)
  <1> DEFINE r == h[1].req
             f == Frame(r)
             s == SubSeq(f, 1, Hdr)
  <1>1. r \in 1..n /\ r \in 1..MaxReq
    BY Sizes
  <1>2. f \in Seq(Unit) /\ Len(f) = ReqLen
    BY <1>1, FrameUnits
  <1>3. \A i \in 1..Len(h) : h[i] = f[i]
    BY <1>1, BeginningOf, Sizes
  <1> HIDE DEF f
  <1>4. s \in Seq(Unit) /\ Len(s) = Hdr /\ \A i \in 1..Hdr : s[i] = f[i]
    BY <1>2, Sizes
  <1> HIDE DEF s
  <1>5. h = s
    BY <1>3, <1>4, SeqEqual
  <1> QED  BY <1>1, <1>5 DEF s, f

\* What remains when the next unit is taken.
LEMMA RestAfter ==
  ASSUME NEW n \in 0..MaxReq, NEW q \in Seq(Unit), Rest(q, n), q # <<>>
  PROVE  /\ Tail(q) \in Seq(Unit) /\ Rest(Tail(q), n)
         /\ Tail(q) = <<>> => q[1].req = n /\ q[1].ix = ReqLen
         /\ Tail(q) # <<>> => Follows(q[1], Tail(q)[1])
  <1> DEFINE p == Tail(q)
  <1>1. /\ p \in Seq(Unit) /\ Len(p) = Len(q) - 1 /\ Len(q) \in Nat /\ Len(q) > 0
        /\ \A i \in 1..Len(p) : i + 1 \in 1..Len(q) /\ p[i] = q[i + 1]
    BY HeadTail
  <1> HIDE DEF p
  <1>2. \A i \in 1..Len(p) : p[i].req \in 1..n /\ p[i].ix \in 1..ReqLen
    BY <1>1 DEF Rest
  <1>3. ASSUME NEW i \in 1..(Len(p) - 1)  PROVE Follows(p[i], p[i + 1])
    <2>1. i \in 1..Len(p) /\ i + 1 \in 1..Len(p) /\ i + 1 \in 1..(Len(q) - 1)
      BY ONLY <1>1, i \in 1..(Len(p) - 1)
    <2>2. p[i] = q[i + 1] /\ p[i + 1] = q[(i + 1) + 1]
      BY <1>1, <2>1
    <2>3. Follows(q[i + 1], q[(i + 1) + 1])
      BY <2>1 DEF Rest
    <2> QED  BY <2>2, <2>3
  <1>4. p # <<>> => p[Len(p)].req = n /\ p[Len(p)].ix = ReqLen
    <2> SUFFICES ASSUME p # <<>>  PROVE p[Len(p)].req = n /\ p[Len(p)].ix = ReqLen
      OBVIOUS
    <2>1. Len(p) \in 1..Len(p) /\ Len(p) + 1 = Len(q)
      BY <1>1
    <2>2. p[Len(p)] = q[Len(q)]
      BY <1>1, <2>1
    <2> QED  BY <2>2 DEF Rest
  <1>5. p = <<>> => Len(q) = 1
    BY <1>1
  <1>6. p # <<>> => 1 \in 1..Len(p) /\ 1 \in 1..(Len(q) - 1) /\ p[1] = q[1 + 1]
    <2> SUFFICES ASSUME p # <<>>
                 PROVE 1 \in 1..Len(p) /\ 1 \in 1..(Len(q) - 1) /\ p[1] = q[1 + 1]
      OBVIOUS
    <2>1. 1 \in 1..Len(p) /\ 1 \in 1..(Len(q) - 1)
      BY <1>1
    <2> QED  BY <1>1, <2>1
  <1>7. p # <<>> => Follows(q[1], p[1])
    BY <1>6 DEF Rest
  <1>8. p = <<>> => q[1].req = n /\ q[1].ix = ReqLen
    BY <1>5 DEF Rest
  <1>9. Rest(p, n)
    BY <1>2, <1>3, <1>4 DEF Rest
  <1> QED  BY <1>1, <1>7, <1>8, <1>9 DEF p

\* Reading the next unit keeps what follows in step.
LEMMA StepThrough ==
  ASSUME NEW n \in 0..MaxReq, NEW g \in Seq(Unit), NEW q \in Seq(Unit),
         RequestsInStep(g, q, n), q # <<>>
  PROVE  /\ Len(Longer(g, q)) < ReqLen => RequestsInStep(Longer(g, q), Tail(q), n)
         /\ Len(Longer(g, q)) = ReqLen => RequestsInStep(<<>>, Tail(q), n)
         /\ Len(Longer(g, q)) <= ReqLen
  <1> DEFINE h == Longer(g, q)
  <1>1. /\ h \in Seq(Unit) /\ Len(h) = Len(g) + 1 /\ Len(g) \in Nat /\ Beginning(h)
        /\ h[1].req = q[1].req /\ Len(h) = q[1].ix
    BY LongerBeginning
  <1> HIDE DEF h
  <1>a. h # <<>>
    BY <1>1
  <1>2. /\ Tail(q) \in Seq(Unit) /\ Rest(Tail(q), n)
        /\ Tail(q) = <<>> => q[1].ix = ReqLen
        /\ Tail(q) # <<>> => Follows(q[1], Tail(q)[1])
    BY RestAfter DEF RequestsInStep
  <1>3. Len(g) < ReqLen
    BY DEF RequestsInStep
  <1>4. Len(h) < ReqLen => Fits(h, Tail(q))
    <2> SUFFICES ASSUME Len(h) < ReqLen  PROVE Fits(h, Tail(q))
      OBVIOUS
    <2>1. q[1].ix # ReqLen
      BY <1>1, Sizes
    <2>2. Tail(q) # <<>> /\ Tail(q)[1].req = q[1].req /\ Tail(q)[1].ix = q[1].ix + 1
      BY <1>2, <2>1 DEF Follows
    <2> QED  BY <1>1, <1>a, <2>2 DEF Fits
  <1>5. Len(h) = ReqLen => Fits(<<>>, Tail(q))
    <2> SUFFICES ASSUME Len(h) = ReqLen, Tail(q) # <<>>  PROVE Tail(q)[1].ix = 1
      BY DEF Fits
    <2>1. q[1].ix = ReqLen
      BY <1>1
    <2>2. Tail(q)[1].ix \in 1..ReqLen
      <3>1. 1 \in 1..Len(Tail(q))
        BY <1>2
      <3> QED  BY <1>2, <3>1 DEF Rest
    <2>3. Tail(q)[1].ix # ReqLen + 1
      BY <2>2, Sizes
    <2> QED  BY <1>2, <2>1, <2>3 DEF Follows
  <1>6. Beginning(<<>>) /\ Len(<<>>) < ReqLen
    BY Sizes DEF Beginning
  <1> QED  BY <1>1, <1>2, <1>3, <1>4, <1>5, <1>6, Sizes DEF RequestsInStep, h

\* The master adds a request at the end.
LEMMA StepOn ==
  ASSUME NEW n \in 0..MaxReq, n + 1 \in 1..MaxReq, NEW g \in Seq(Unit), NEW q \in Seq(Unit),
         RequestsInStep(g, q, n)
  PROVE  RequestsInStep(g, q \o Frame(n + 1), n + 1)
  <1> DEFINE f == Frame(n + 1)
             p == q \o f
  <1>1. /\ f \in Seq(Unit) /\ Len(f) = ReqLen
        /\ \A i \in 1..ReqLen : f[i].req = n + 1 /\ f[i].ix = i
    BY FrameUnits
  <1> HIDE DEF f
  <1>2. /\ p \in Seq(Unit) /\ Len(p) = Len(q) + ReqLen /\ Len(q) \in Nat
        /\ \A i \in 1..Len(p) : p[i] = IF i <= Len(q) THEN q[i] ELSE f[i - Len(q)]
    BY <1>1, Joined
  <1> HIDE DEF p
  <1>3. \A i \in 1..Len(q) : i \in 1..Len(p) /\ p[i] = q[i]
    BY ONLY <1>2, Sizes
  <1>4. \A i \in 1..ReqLen : p[Len(q) + i].req = n + 1 /\ p[Len(q) + i].ix = i
    <2> TAKE i \in 1..ReqLen
    <2>1. Len(q) + i \in 1..Len(p) /\ ~(Len(q) + i <= Len(q)) /\ (Len(q) + i) - Len(q) = i
      BY ONLY <1>2, Sizes, i \in 1..ReqLen
    <2>2. p[Len(q) + i] = f[i]
      BY ONLY <1>2, <2>1
    <2> QED  BY <1>1, <2>2
  <1>5. ASSUME NEW i \in 1..Len(p)
        PROVE  i \in 1..Len(q) \/ \E j \in 1..ReqLen : i = Len(q) + j
    <2>1. CASE i <= Len(q)
      BY ONLY <1>2, <2>1, i \in 1..Len(p)
    <2>2. CASE i > Len(q)
      <3>1. i - Len(q) \in 1..ReqLen /\ i = Len(q) + (i - Len(q))
        BY ONLY <1>2, <2>2, i \in 1..Len(p), Sizes
      <3> QED  BY <3>1
    <2>3. i <= Len(q) \/ i > Len(q)
      BY <1>2
    <2> QED  BY <2>1, <2>2, <2>3, Zenon
  <1>6. \A i \in 1..Len(p) : p[i].req \in 1..(n + 1) /\ p[i].ix \in 1..ReqLen
    <2> TAKE i \in 1..Len(p)
    <2>1. CASE i \in 1..Len(q)
      <3>1. q[i].req \in 1..n /\ q[i].ix \in 1..ReqLen /\ p[i] = q[i]
        BY <1>3, <2>1 DEF RequestsInStep, Rest
      <3> QED  BY ONLY <3>1, n \in 0..MaxReq, Sizes
    <2>2. CASE \E j \in 1..ReqLen : i = Len(q) + j
      <3>1. PICK j \in 1..ReqLen : i = Len(q) + j
        BY <2>2
      <3>2. p[i].req = n + 1 /\ p[i].ix = j
        BY <1>4, <3>1
      <3> QED  BY ONLY <3>2, n \in 0..MaxReq, Sizes, j \in 1..ReqLen
    <2> QED  BY <1>5, <2>1, <2>2
  <1>7. ASSUME NEW i \in 1..(Len(p) - 1)  PROVE Follows(p[i], p[i + 1])
    <2>1. CASE i \in 1..(Len(q) - 1)
      <3>1. i \in 1..Len(q) /\ i + 1 \in 1..Len(q)
        BY ONLY <1>2, <2>1
      <3>2. p[i] = q[i] /\ p[i + 1] = q[i + 1]
        BY <1>3, <3>1
      <3> QED  BY <2>1, <3>2 DEF RequestsInStep, Rest
    <2>2. CASE i = Len(q)
      <3>1. Len(q) \in 1..Len(q) /\ q # <<>> /\ 1 \in 1..ReqLen
        BY ONLY <1>2, <2>2, i \in 1..(Len(p) - 1), Sizes
      <3>2. p[i].req = n /\ p[i].ix = ReqLen
        BY <1>3, <2>2, <3>1 DEF RequestsInStep, Rest
      <3>3. p[i + 1].req = n + 1 /\ p[i + 1].ix = 1
        BY <1>4, <2>2, <3>1
      <3> QED  BY <3>2, <3>3 DEF Follows
    <2>3. CASE i > Len(q)
      <3>1. PICK j \in 1..ReqLen : i = Len(q) + j /\ j + 1 \in 1..ReqLen
        <4>1. i - Len(q) \in 1..ReqLen /\ (i - Len(q)) + 1 \in 1..ReqLen
              /\ i = Len(q) + (i - Len(q))
          BY ONLY <1>2, <2>3, i \in 1..(Len(p) - 1), Sizes
        <4> QED  BY <4>1
      <3>2. i + 1 = Len(q) + (j + 1)
        BY ONLY <1>2, <3>1
      <3>3. p[i].req = n + 1 /\ p[i].ix = j /\ p[i + 1].req = n + 1 /\ p[i + 1].ix = j + 1
        BY <1>4, <3>1, <3>2
      <3> QED  BY <3>3 DEF Follows
    <2>4. i \in 1..(Len(q) - 1) \/ i = Len(q) \/ i > Len(q)
      BY ONLY <1>2, i \in 1..(Len(p) - 1)
    <2> QED  BY <2>1, <2>2, <2>3, <2>4, Zenon
  <1>8. p[Len(p)].req = n + 1 /\ p[Len(p)].ix = ReqLen /\ p # <<>>
    <2>1. ReqLen \in 1..ReqLen /\ p # <<>>
      BY <1>2, Sizes
    <2> QED  BY <1>2, <1>4, <2>1
  <1>9. Rest(p, n + 1)
    BY <1>6, <1>7, <1>8 DEF Rest
  <1>10. Fits(g, p)
    <2>1. CASE q = <<>>
      <3>1. g = <<>> /\ Len(q) = 0 /\ 1 \in 1..ReqLen
        BY <2>1, Sizes DEF RequestsInStep, Fits
      <3>2. p[0 + 1].ix = 1
        BY <1>4, <3>1
      <3> QED  BY <1>8, <3>1, <3>2 DEF Fits
    <2>2. CASE q # <<>>
      <3>1. 1 \in 1..Len(q)
        BY <2>2
      <3>2. p[1] = q[1]
        BY <1>3, <3>1
      <3> QED  BY <1>8, <2>2, <3>2 DEF RequestsInStep, Fits
    <2> QED  BY <2>1, <2>2
  <1>11. RequestsInStep(g, p, n + 1)
    BY <1>9, <1>10 DEF RequestsInStep
  <1> QED  BY <1>11 DEF p, f

(***************************************************************************)
(* As long as nothing is torn, what is read of a request, the UART and the *)
(* line hold the requests in step, and the header has been taken for what  *)
(* it is.                                                                  *)
(***************************************************************************)
LineInStep ==
  ~past.torn =>
    /\ RequestsInStep(loc.got, rx \o wire, sent)
    /\ IF Len(loc.got) < Hdr THEN loc.need = 0 ELSE loc.need = ReqLen - Len(loc.got)

\* What the next unit is on a line in step.
LEMMA NextUnit ==
  ASSUME TypedControl, LineInStep, ~past.torn, rx # <<>>
  PROVE  /\ Got \in Seq(Unit) /\ Len(Got) = Len(loc.got) + 1 /\ Len(loc.got) \in Nat
         /\ Len(loc.got) < ReqLen /\ Len(Got) <= ReqLen
         /\ Len(Got) < ReqLen => RequestsInStep(Got, Tail(rx) \o wire, sent)
         /\ Len(Got) = ReqLen => /\ RequestsInStep(<<>>, Tail(rx) \o wire, sent)
                                 /\ Intact(Got) # {}
         /\ Len(Got) = Hdr => Need(Got) = {ReqLen - Hdr}
  <1> DEFINE q == rx \o wire
  <1>1. /\ loc.got \in Seq(Unit) /\ rx \in Seq(Unit) /\ wire \in Seq(Unit) /\ sent \in 0..MaxReq
    BY DEF TypedControl, TypeOK, Locals
  <1>2. q \in Seq(Unit) /\ q # <<>> /\ Head(q) = Head(rx) /\ Tail(q) = Tail(rx) \o wire
    BY <1>1, Joined, HeadJoined
  <1>3. RequestsInStep(loc.got, q, sent)
    BY DEF LineInStep
  <1>4. Got = Longer(loc.got, q)
    BY <1>2 DEF Got, Longer
  <1> HIDE DEF q
  <1>5. /\ Got \in Seq(Unit) /\ Len(Got) = Len(loc.got) + 1 /\ Len(loc.got) \in Nat
        /\ Beginning(Got) /\ Got[1].req \in 1..sent
    BY <1>1, <1>2, <1>3, <1>4, LongerBeginning
  <1>6. /\ Len(Got) < ReqLen => RequestsInStep(Got, Tail(q), sent)
        /\ Len(Got) = ReqLen => RequestsInStep(<<>>, Tail(q), sent)
        /\ Len(Got) <= ReqLen
    BY <1>1, <1>2, <1>3, <1>4, StepThrough
  <1>7. Got[1].req \in 1..MaxReq
    BY <1>1, <1>5, Sizes
  <1>8. Len(Got) = ReqLen => Intact(Got) # {}
    BY <1>5, <1>7, WholeRequest DEF Intact
  <1>9. Len(Got) = Hdr => Need(Got) = {ReqLen - Hdr}
    BY <1>1, <1>5, HeaderRight DEF Need
  <1>10. Len(loc.got) < ReqLen
    BY <1>3 DEF RequestsInStep
  <1> QED  BY <1>2, <1>5, <1>6, <1>8, <1>9, <1>10

\* A request that fails its check, or that overflows the buffer, was torn.
LEMMA BadRequestTorn ==
  ASSUME TypedControl, LineInStep, ListenOverflow \/ (ListenLast /\ pc' = "failed")
  PROVE  past.torn
  <1> SUFFICES ASSUME ~past.torn  PROVE FALSE
    OBVIOUS
  <1>1. rx # <<>>
    BY DEF ListenOverflow, ListenLast, ReadUnit
  <1>2. Len(loc.got) \in Nat /\ Len(loc.got) < ReqLen /\ Len(Got) = Len(loc.got) + 1
    BY <1>1, NextUnit
  <1>3. CASE ListenOverflow
    BY <1>2, <1>3, Sizes DEF ListenOverflow
  <1>4. CASE ListenLast /\ pc' = "failed"
    <2>1. loc.need = 1 /\ Intact(Got) = {}
      BY <1>4 DEF ListenLast
    <2>2. loc.need = ReqLen - Len(loc.got)
      BY <2>1 DEF LineInStep
    <2>3. Len(Got) = ReqLen
      BY <1>2, <2>1, <2>2, Sizes
    <2> QED  BY <1>1, <2>1, <2>3, NextUnit
  <1> QED  BY <1>3, <1>4

\* Steps that leave the line and what is read of it alone.
LEMMA LineUntouched ==
  ASSUME LineInStep, UNCHANGED <<rx, wire, sent>>, past.torn => past'.torn,
         loc'.got = loc.got, loc'.need = loc.need
  PROVE  LineInStep'
  BY DEF LineInStep

LEMMA LineRead ==
  ASSUME TypedControl, LineInStep, ListenHeader \/ ListenBody  PROVE LineInStep'
  <1> SUFFICES ASSUME ~past'.torn
               PROVE  /\ RequestsInStep(loc'.got, rx' \o wire', sent')
                      /\ IF Len(loc'.got) < Hdr THEN loc'.need = 0
                         ELSE loc'.need = ReqLen - Len(loc'.got)
    BY DEF LineInStep
  <1>1. /\ rx # <<>> /\ rx' = Tail(rx) /\ wire' = wire /\ sent' = sent /\ past' = past
        /\ loc'.got = Got
        /\ \/ Len(Got) < Hdr /\ loc'.need = loc.need
           \/ Len(Got) = Hdr /\ loc'.need \in Need(Got)
           \/ loc.need > 1 /\ loc'.need = loc.need - 1
    BY UnitRead
  <1>2. /\ Len(Got) = Len(loc.got) + 1 /\ Len(loc.got) \in Nat /\ Len(loc.got) < ReqLen
        /\ Len(Got) < ReqLen => RequestsInStep(Got, Tail(rx) \o wire, sent)
        /\ Len(Got) = Hdr => Need(Got) = {ReqLen - Hdr}
    BY <1>1, NextUnit
  <1>3. IF Len(loc.got) < Hdr THEN loc.need = 0 ELSE loc.need = ReqLen - Len(loc.got)
    BY <1>1 DEF LineInStep
  <1>4. /\ Len(Got) < ReqLen
        /\ IF Len(Got) < Hdr THEN loc'.need = 0 ELSE loc'.need = ReqLen - Len(Got)
    <2>1. CASE Len(Got) < Hdr /\ loc'.need = loc.need
      BY <1>2, <1>3, <2>1, Sizes
    <2>2. CASE Len(Got) = Hdr /\ loc'.need \in Need(Got)
      BY <1>2, <2>2, Sizes
    <2>3. CASE loc.need > 1 /\ loc'.need = loc.need - 1
      BY ONLY <1>2, <1>3, <2>3, Sizes
    <2> QED  BY <1>1, <2>1, <2>2, <2>3
  <1> QED  BY <1>1, <1>2, <1>4

LEMMA LineTaken ==
  ASSUME TypedControl, LineInStep, ListenLast, pc' # "failed"  PROVE LineInStep'
  <1> SUFFICES ASSUME ~past'.torn
               PROVE  /\ RequestsInStep(loc'.got, rx' \o wire', sent')
                      /\ IF Len(loc'.got) < Hdr THEN loc'.need = 0
                         ELSE loc'.need = ReqLen - Len(loc'.got)
    BY DEF LineInStep
  <1>1. /\ rx # <<>> /\ rx' = Tail(rx) /\ wire' = wire /\ sent' = sent /\ past' = past
        /\ loc'.got = <<>> /\ Len(loc'.got) = 0 /\ loc'.need = 0 /\ loc.need = 1
    BY RequestRead
  <1>2. /\ Len(Got) = Len(loc.got) + 1 /\ Len(loc.got) \in Nat
        /\ Len(Got) = ReqLen => RequestsInStep(<<>>, Tail(rx) \o wire, sent)
    BY <1>1, NextUnit
  <1>3. Len(Got) = ReqLen
    BY <1>1, <1>2, Sizes DEF LineInStep
  <1> QED  BY <1>1, <1>2, <1>3, Sizes

LEMMA LineErrors ==
  ASSUME TypedControl, LineInStep, NEW e \in Errors, FailStep(e),
         ListenOverflow \/ (ListenLast /\ pc' = "failed") => past.torn
  PROVE  LineInStep'
  <1> SUFFICES ASSUME ~past'.torn
               PROVE  /\ RequestsInStep(loc'.got, rx' \o wire', sent')
                      /\ IF Len(loc'.got) < Hdr THEN loc'.need = 0
                         ELSE loc'.need = ReqLen - Len(loc'.got)
    BY DEF LineInStep
  <1>1. Fail(e) /\ pc' = "failed"
    BY DEF FailStep, Fail
  <1>2. ~past.torn /\ ~(Abandons(e) /\ loc.got # <<>>)
    BY <1>1, FailHistory DEF TypedControl
  <1>3. loc.got = <<>> /\ rx' = rx
    BY <1>1, <1>2 DEF FailStep, TypedControl, ControlOK
  <1>4. loc' = [Fresh EXCEPT !.err = e] /\ wire' = wire /\ sent' = sent
    BY <1>1 DEF Fail, masterVars
  <1>5. loc'.got = <<>> /\ Len(loc'.got) = 0 /\ loc'.need = 0
    BY <1>4, FailedLocals
  <1>6. RequestsInStep(<<>>, rx \o wire, sent)
    BY <1>2, <1>3 DEF LineInStep
  <1> QED  BY <1>3, <1>4, <1>5, <1>6, Sizes

LEMMA LineMaster ==
  ASSUME TypedControl, LineInStep, MasterSend  PROVE LineInStep'
  <1>1. /\ sent' = sent + 1 /\ sent' \in 1..MaxReq /\ wire' = wire \o Frame(sent')
        /\ wire \in Seq(Unit) /\ Frame(sent') \in Seq(Unit)
        /\ UNCHANGED <<loc, rx, past>>
    BY RequestMade
  <1>2. rx \in Seq(Unit) /\ sent \in 0..MaxReq /\ loc.got \in Seq(Unit)
    BY DEF TypedControl, TypeOK, Locals
  <1>3. rx' \o wire' = (rx \o wire) \o Frame(sent')
    <2> DEFINE f == Frame(sent')
    <2>1. f \in Seq(Unit) /\ wire' = wire \o f /\ rx' = rx
      BY <1>1
    <2> HIDE DEF f
    <2>2. rx \o (wire \o f) = (rx \o wire) \o f
      BY ONLY <1>1, <1>2, <2>1, UnitsRegrouped
    <2> QED  BY <2>1, <2>2 DEF f
  <1>4. rx \o wire \in Seq(Unit) /\ sent + 1 \in 1..MaxReq
    BY <1>1, <1>2, Joined
  <1>5. RequestsInStep(loc.got, rx \o wire, sent)
          => RequestsInStep(loc.got, (rx \o wire) \o Frame(sent + 1), sent + 1)
    BY <1>2, <1>4, StepOn
  <1> QED  BY <1>1, <1>3, <1>5 DEF LineInStep

LEMMA LineMoved ==
  ASSUME TypedControl, LineInStep, Line  PROVE LineInStep'
  <1>1. CASE wire # <<>> /\ wire' = Tail(wire) /\ rx' = Append(rx, Head(wire)) /\ past' = past
    <2>1. rx' \o wire' = rx \o wire
      BY <1>1, Moved, MovedAcross
    <2> QED  BY <1>1, <2>1, Arrived DEF LineInStep
  <1>2. CASE past'.torn
    BY <1>2 DEF LineInStep
  <1> QED  BY <1>1, <1>2, Arrived

LEMMA LineNext ==
  ASSUME TypedControl, LineInStep, [Next]_vars  PROVE LineInStep'
  <1> USE DEF TypedControl, ControlOK
  <1>1. CASE UNCHANGED vars
    BY <1>1 DEF LineInStep, vars, lineVars, masterVars
  <1>2. CASE Caller
    <2>1. /\ pc \in {"idle", "ready", "failed"} /\ loc' = Fresh
          /\ UNCHANGED <<rx, wire, sent, past>>
      BY <1>2 DEF Caller, Connect, CallNext, IntoStream, masterVars, lineVars
    <2> QED  BY <2>1, FreshLocals, LineUntouched
  <1>3. CASE ListenHeader \/ ListenBody
    BY <1>3, LineRead
  <1>4. CASE ListenLast /\ pc' # "failed"
    BY <1>4, LineTaken
  <1>5. CASE ListenRetry
    <2>1. loc \in Locals
      BY DEF TypeOK
    <2>2. loc'.got = loc.got /\ loc'.need = loc.need
      BY <1>5, <2>1 DEF ListenRetry, Locals
    <2> QED  BY <1>5, <2>2, LineUntouched DEF ListenRetry, lineVars, masterVars
  <1>6. CASE TcpSend \/ TcpListenMore \/ TcpListenLast
    BY <1>6, RequestSent, PartRead, AnswerRead, LineUntouched
  <1>7. CASE RtuSend
    <2>1. /\ loc.got = <<>> /\ loc.need = 0 /\ UNCHANGED <<rx, wire, sent>>
          /\ loc' = loc \/ loc' = Fresh \/ loc' = [Fresh EXCEPT !.err = RtuErr.Serial]
      BY <1>7 DEF RtuSend, SendFrame, SendFlush, SendWrite, SendDrain, SendError,
                  masterVars, lineVars
    <2>2. loc'.got = <<>> /\ loc'.need = 0
      BY <2>1, FreshLocals, FailedLocals, ErrorNames
    <2>3. past.torn => past'.torn
      <3>1. past \in PastType
        BY DEF TypeOK, PastType
      <3>2. past' = past \/ \E b : past' = [past EXCEPT !.sendFailed = b]
        BY <1>7 DEF RtuSend, SendFrame, SendFlush, SendWrite, SendDrain, SendError
      <3> QED  BY ONLY <3>1, <3>2 DEF PastType
    <2> QED  BY <2>1, <2>2, <2>3, LineUntouched
  <1>8. CASE PollReady \/ PollSleep
    BY <1>8, Polled, LineUntouched
  <1>9. CASE MasterSend
    BY <1>9, LineMaster
  <1>10. CASE MasterGiveUp \/ Server
    BY <1>10, LineUntouched
       DEF MasterGiveUp, Server, ServerAnswer, ServerIgnore, TcpArrive, ServerClose,
           masterVars, lineVars
  <1>11. CASE Line
    BY <1>11, LineMoved
  <1>12. ASSUME NEW e \in Errors, FailStep(e)  PROVE LineInStep'
    BY <1>12, LineErrors, BadRequestTorn
  <1> QED  BY <1>1, <1>2, <1>3, <1>4, <1>5, <1>6, <1>7, <1>8, <1>9, <1>10, <1>11, <1>12,
              Steps DEF Master

-----------------------------------------------------------------------------
(***************************************************************************)
(* g is what is read of an answer and q goes on with the rest of it and    *)
(* with whole answers; only a closed stream may end inside one.            *)
(***************************************************************************)
Alternate(q) == \A i \in 1..(Len(q) - 1) : q[i].ix + q[i + 1].ix = 3

PartsInStep(g, q) ==
  /\ g = <<>> \/ (Len(g) = 1 /\ g[1].ix = 1)
  /\ Alternate(q)
  /\ q # <<>> => q[1].ix = Len(g) + 1

AnswersInStep(g, q, eof) ==
  /\ PartsInStep(g, q)
  /\ eof \/ IF q = <<>> THEN g = <<>> ELSE q[Len(q)].ix = 2

\* Taking the next part of the stream.
LEMMA NextPart ==
  ASSUME NEW g \in Seq(Part), NEW q \in Seq(Part), NEW eof \in BOOLEAN,
         AnswersInStep(g, q, eof), q # <<>>
  PROVE  /\ Longer(g, q)[1].ix = 1
         /\ g = <<>> => AnswersInStep(Longer(g, q), Tail(q), eof)
         /\ g # <<>> => AnswersInStep(<<>>, Tail(q), eof)
  <1> DEFINE h == Longer(g, q)
             p == Tail(q)
  <1>1. /\ p \in Seq(Part) /\ Len(p) = Len(q) - 1 /\ Len(q) \in Nat /\ Len(q) > 0
        /\ Head(q) = q[1] /\ q[1] \in Part
        /\ \A i \in 1..Len(p) : i + 1 \in 1..Len(q) /\ p[i] = q[i + 1]
    BY HeadTail
  <1>2. /\ Len(h) = Len(g) + 1 /\ Len(g) \in Nat /\ h[Len(g) + 1] = q[1]
        /\ \A i \in 1..Len(g) : h[i] = g[i]
    BY <1>1, AppendLast DEF Longer
  <1>3. Len(<<>>) = 0
    OBVIOUS
  <1> HIDE DEF h, p
  <1>4. q[1].ix = Len(g) + 1 /\ (g = <<>> \/ (Len(g) = 1 /\ g[1].ix = 1))
    BY DEF AnswersInStep, PartsInStep
  <1>5. h[1].ix = 1
    <2>1. CASE g = <<>>
      <3>1. Len(g) = 0
        BY <2>1
      <3> QED  BY <1>2, <1>4, <3>1
    <2>2. CASE Len(g) = 1 /\ g[1].ix = 1
      <3>1. h[1] = g[1]
        BY <1>2, <2>2
      <3> QED  BY <2>2, <3>1
    <2> QED  BY <1>4, <2>1, <2>2
  <1>6. Alternate(p)
    <2> SUFFICES ASSUME NEW i \in 1..(Len(p) - 1)  PROVE p[i].ix + p[i + 1].ix = 3
      BY DEF Alternate
    <2>1. i \in 1..Len(p) /\ i + 1 \in 1..Len(p) /\ i + 1 \in 1..(Len(q) - 1)
      BY ONLY <1>1, i \in 1..(Len(p) - 1)
    <2>2. p[i] = q[i + 1] /\ p[i + 1] = q[(i + 1) + 1]
      BY <1>1, <2>1
    <2>3. q[i + 1].ix + q[(i + 1) + 1].ix = 3
      BY <2>1 DEF AnswersInStep, PartsInStep, Alternate
    <2> QED  BY <2>2, <2>3
  <1>7. p # <<>> => q[1].ix + p[1].ix = 3 /\ p[1] \in Part
    <2> SUFFICES ASSUME p # <<>>  PROVE q[1].ix + p[1].ix = 3 /\ p[1] \in Part
      OBVIOUS
    <2>1. 1 \in 1..Len(p) /\ 1 \in 1..(Len(q) - 1)
      BY <1>1
    <2>2. p[1] = q[1 + 1] /\ p[1] \in Part
      BY <1>1, <2>1
    <2> QED  BY <2>1, <2>2 DEF AnswersInStep, PartsInStep, Alternate
  <1>8. p # <<>> => p[Len(p)] = q[Len(q)]
    <2> SUFFICES ASSUME p # <<>>  PROVE p[Len(p)] = q[Len(q)]
      OBVIOUS
    <2>1. Len(p) \in 1..Len(p) /\ Len(p) + 1 = Len(q)
      BY <1>1
    <2> QED  BY <1>1, <2>1
  <1>9. p = <<>> => Len(q) = 1
    BY <1>1
  <1>10. g = <<>> => AnswersInStep(h, p, eof)
    <2> SUFFICES ASSUME g = <<>>  PROVE AnswersInStep(h, p, eof)
      OBVIOUS
    <2>1. Len(g) = 0 /\ Len(h) = 1 /\ q[1].ix = 1
      BY <1>2, <1>4
    <2>2. p # <<>> => p[1].ix = 2
      BY <1>7, <2>1 DEF Part
    <2>3. eof \/ IF p = <<>> THEN h = <<>> ELSE p[Len(p)].ix = 2
      BY <1>8, <1>9, <2>1 DEF AnswersInStep, PartsInStep
    <2> QED  BY <1>5, <1>6, <2>1, <2>2, <2>3 DEF AnswersInStep, PartsInStep
  <1>11. g # <<>> => AnswersInStep(<<>>, p, eof)
    <2> SUFFICES ASSUME g # <<>>  PROVE AnswersInStep(<<>>, p, eof)
      OBVIOUS
    <2>a. Len(g) = 1
      BY <1>4
    <2>1. Len(g) = 1 /\ q[1].ix = 2
      BY ONLY <1>4, <2>a
    <2>2. p # <<>> => p[1].ix = 1
      BY <1>7, <2>1 DEF Part
    <2>3. eof \/ IF p = <<>> THEN TRUE ELSE p[Len(p)].ix = 2
      BY <1>8 DEF AnswersInStep, PartsInStep
    <2> QED  BY <1>3, <1>6, <2>1, <2>2, <2>3 DEF AnswersInStep, PartsInStep
  <1> QED  BY <1>5, <1>10, <1>11 DEF h, p

\* The server adds an answer at the end.
LEMMA AnswerAdded ==
  ASSUME NEW g \in Seq(Part), NEW q \in Seq(Part), AnswersInStep(g, q, FALSE),
         NEW r \in 1..MaxReq, NEW t \in Tids
  PROVE  AnswersInStep(g, q \o Answer(r, t), FALSE)
  <1> DEFINE a == Answer(r, t)
             p == q \o a
  <1>1. /\ a \in Seq(Part) /\ Len(a) = 2 /\ a[1].ix = 1 /\ a[2].ix = 2
    BY AnswerParts
  <1> HIDE DEF a
  <1>a. /\ p \in Seq(Part) /\ Len(p) = Len(q) + Len(a) /\ Len(q) \in Nat
        /\ \A i \in 1..Len(p) : p[i] = IF i <= Len(q) THEN q[i] ELSE a[i - Len(q)]
    BY <1>1, Joined
  <1>2. /\ p \in Seq(Part) /\ Len(p) = Len(q) + 2 /\ Len(q) \in Nat
        /\ \A i \in 1..Len(p) : p[i] = IF i <= Len(q) THEN q[i] ELSE a[i - Len(q)]
    <2> HIDE DEF p
    <2> QED  BY ONLY <1>1, <1>a
  <1> HIDE DEF p
  <1>3. \A i \in 1..Len(q) : p[i] = q[i]
    BY ONLY <1>2
  <1>4. p[Len(q) + 1].ix = 1 /\ p[Len(q) + 2].ix = 2
    <2>1. p[Len(q) + 1] = a[1] /\ p[Len(q) + 2] = a[2]
      BY ONLY <1>2
    <2> QED  BY <1>1, <2>1
  <1>5. Alternate(p)
    <2> SUFFICES ASSUME NEW i \in 1..(Len(p) - 1)  PROVE p[i].ix + p[i + 1].ix = 3
      BY DEF Alternate
    <2>1. CASE i \in 1..(Len(q) - 1)
      <3>1. i \in 1..Len(q) /\ i + 1 \in 1..Len(q)
        BY ONLY <1>2, <2>1
      <3>2. p[i] = q[i] /\ p[i + 1] = q[i + 1]
        BY <1>3, <3>1
      <3> QED  BY <2>1, <3>2 DEF AnswersInStep, PartsInStep, Alternate
    <2>2. CASE i = Len(q)
      <3>1. Len(q) \in 1..Len(q) /\ q # <<>>
        BY ONLY <1>2, <2>2, i \in 1..(Len(p) - 1)
      <3>2. p[i].ix = 2
        BY <1>3, <2>2, <3>1 DEF AnswersInStep, PartsInStep
      <3> QED  BY <1>4, <2>2, <3>2
    <2>3. CASE i = Len(q) + 1
      <3>1. i + 1 = Len(q) + 2
        BY ONLY <1>2, <2>3
      <3> QED  BY <1>4, <2>3, <3>1
    <2>4. i \in 1..(Len(q) - 1) \/ i = Len(q) \/ i = Len(q) + 1
      BY ONLY <1>2, i \in 1..(Len(p) - 1)
    <2> QED  BY <2>1, <2>2, <2>3, <2>4, Zenon
  <1>6. p # <<>> /\ p[Len(p)].ix = 2
    BY <1>2, <1>4
  <1>7. p[1].ix = Len(g) + 1
    <2>1. CASE q = <<>>
      <3>1. Len(q) = 0 /\ g = <<>> /\ Len(g) = 0
        BY <2>1 DEF AnswersInStep, PartsInStep
      <3>2. p[0 + 1].ix = 1
        BY <1>4, <3>1
      <3> QED  BY <3>1, <3>2
    <2>2. CASE q # <<>>
      <3>1. 1 \in 1..Len(q)
        BY <2>2
      <3>2. p[1] = q[1]
        BY <1>3, <3>1
      <3> QED  BY <2>2, <3>2 DEF AnswersInStep, PartsInStep
    <2> QED  BY <2>1, <2>2
  <1>8. AnswersInStep(g, p, FALSE)
    BY <1>5, <1>6, <1>7 DEF AnswersInStep, PartsInStep
  <1> QED  BY <1>8 DEF p, a

\* A closed stream ends after the parts that have arrived.
LEMMA Truncated ==
  ASSUME NEW g \in Seq(Part), NEW s \in Seq(Part), NEW t \in Seq(Part),
         PartsInStep(g, s \o t)
  PROVE  PartsInStep(g, s)
  <1> DEFINE p == s \o t
  <1>1. /\ Len(p) = Len(s) + Len(t) /\ Len(s) \in Nat /\ Len(t) \in Nat /\ p \in Seq(Part)
        /\ \A i \in 1..Len(p) : p[i] = IF i <= Len(s) THEN s[i] ELSE t[i - Len(s)]
    BY Joined
  <1>2. PartsInStep(g, p)
    OBVIOUS
  <1> HIDE DEF p
  <1>3. \A i \in 1..Len(s) : p[i] = s[i]
    BY ONLY <1>1
  <1>4. Alternate(s)
    <2> SUFFICES ASSUME NEW i \in 1..(Len(s) - 1)  PROVE s[i].ix + s[i + 1].ix = 3
      BY DEF Alternate
    <2>1. i \in 1..Len(s) /\ i + 1 \in 1..Len(s) /\ i \in 1..(Len(p) - 1)
      BY ONLY <1>1, i \in 1..(Len(s) - 1)
    <2>2. p[i] = s[i] /\ p[i + 1] = s[i + 1]
      BY <1>3, <2>1
    <2> QED  BY <1>2, <2>1, <2>2 DEF AnswersInStep, PartsInStep, Alternate
  <1>5. s # <<>> => s[1].ix = Len(g) + 1
    <2> SUFFICES ASSUME s # <<>>  PROVE s[1].ix = Len(g) + 1
      OBVIOUS
    <2>1. 1 \in 1..Len(s) /\ p # <<>>
      BY <1>1
    <2>2. p[1] = s[1]
      BY <1>3, <2>1
    <2> QED  BY <1>2, <2>1, <2>2 DEF AnswersInStep, PartsInStep
  <1> QED  BY <1>2, <1>4, <1>5 DEF AnswersInStep, PartsInStep

(***************************************************************************)
(* As long as the live stream is not cut, what is read of an answer, what  *)
(* has arrived and what is on its way are the server's answers in step,    *)
(* and an answer begun lacks its body.                                     *)
(***************************************************************************)
StreamInStep ==
  ~stream.cut =>
    /\ AnswersInStep(loc.tcp, tcpIn \o net, stream.eof)
    /\ loc.tcp # <<>> => loc.left = 1

LEMMA StreamTypes ==
  ASSUME TypedControl
  PROVE  /\ stream.eof \in BOOLEAN /\ loc.tcp \in Seq(Part) /\ tcpIn \in Seq(Part)
         /\ net \in Seq(Part) /\ tcpIn \o net \in Seq(Part)
  <1>1. /\ stream.eof \in BOOLEAN /\ loc.tcp \in Seq(Part) /\ tcpIn \in Seq(Part)
        /\ net \in Seq(Part)
    BY DEF TypedControl, TypeOK, Locals
  <1> QED  BY <1>1, Joined

\* What the next part is on a stream in step.
LEMMA PartInStep ==
  ASSUME TypedControl, StreamInStep, ~stream.cut, ReadPart
  PROVE  /\ InStep
         /\ loc.tcp = <<>> => AnswersInStep(Parts, tcpIn' \o net, stream.eof)
         /\ loc.tcp # <<>> => AnswersInStep(<<>>, tcpIn' \o net, stream.eof)
  <1> DEFINE q == tcpIn \o net
             e == stream.eof
  <1>1. tcpIn # <<>> /\ tcpIn' = Tail(tcpIn)
    BY DEF ReadPart
  <1>2. q \in Seq(Part) /\ q # <<>> /\ Head(q) = Head(tcpIn) /\ Tail(q) = Tail(tcpIn) \o net
    BY <1>1, StreamTypes, HeadJoined
  <1>3. AnswersInStep(loc.tcp, q, e) /\ loc.tcp \in Seq(Part) /\ e \in BOOLEAN
    BY StreamTypes DEF StreamInStep
  <1>4. Parts = Longer(loc.tcp, q)
    BY <1>2 DEF Parts, Longer
  <1>5. Tail(q) = tcpIn' \o net
    BY <1>1, <1>2
  <1> HIDE DEF q, e
  <1>6. /\ Longer(loc.tcp, q)[1].ix = 1
        /\ loc.tcp = <<>> => AnswersInStep(Longer(loc.tcp, q), Tail(q), e)
        /\ loc.tcp # <<>> => AnswersInStep(<<>>, Tail(q), e)
    BY ONLY <1>2, <1>3, NextPart
  <1> QED  BY <1>4, <1>5, <1>6 DEF InStep, e

LEMMA StreamUntouched ==
  ASSUME StreamInStep, UNCHANGED <<tcpIn, net, stream>>, loc'.tcp = loc.tcp,
         loc'.left = loc.left
  PROVE  StreamInStep'
  BY DEF StreamInStep

LEMMA StreamRead ==
  ASSUME TypedControl, StreamInStep, TcpListenMore \/ TcpListenLast  PROVE StreamInStep'
  <1> SUFFICES ASSUME ~stream.cut
               PROVE  /\ AnswersInStep(loc'.tcp, tcpIn' \o net', stream'.eof)
                      /\ loc'.tcp # <<>> => loc'.left = 1
    <2>1. stream' = stream
      BY PartRead, AnswerRead
    <2> QED  BY <2>1 DEF StreamInStep
  <1>1. CASE TcpListenMore
    <2>1. ReadPart /\ stream' = stream /\ net' = net /\ loc'.tcp = Parts
      BY <1>1, PartRead DEF TcpListenMore
    <2>2. InStep
      BY <2>1, PartInStep
    <2>3. loc.tcp = <<>> /\ loc'.left = 1
      <3>1. loc'.left \in 1..MaxLeft
            /\ loc'.left \in IF loc.tcp # <<>> THEN {loc.left - 1}
                             ELSE IF InStep THEN {1} ELSE 1..MaxLeft
        BY <1>1, PartRead
      <3>2. loc.tcp # <<>> => loc.left = 1
        BY DEF StreamInStep
      <3> QED  BY ONLY <2>2, <3>1, <3>2
    <2> QED  BY <2>1, <2>3, PartInStep
  <1>2. CASE TcpListenLast
    <2>1. /\ ReadPart /\ stream' = stream /\ net' = net /\ loc.tcp # <<>> /\ loc'.tcp = <<>>
      BY <1>2, AnswerRead
    <2> QED  BY <2>1, PartInStep
  <1> QED  BY <1>1, <1>2

\* A frame that is no answer was read off a stream that is cut.
LEMMA BadAnswerCut ==
  ASSUME TypedControl, StreamInStep, TcpListenReject  PROVE stream.cut
  <1>1. ReadPart /\ ~InStep
    BY DEF TcpListenReject
  <1> QED  BY <1>1, PartInStep

LEMMA StreamErrors ==
  ASSUME TypedControl, StreamInStep, NEW e \in Errors, FailStep(e)  PROVE StreamInStep'
  <1> SUFFICES ASSUME ~stream'.cut
               PROVE  /\ AnswersInStep(loc'.tcp, tcpIn' \o net', stream'.eof)
                      /\ loc'.tcp # <<>> => loc'.left = 1
    BY DEF StreamInStep
  <1>1. Fail(e)
    BY DEF FailStep
  <1>2. ~stream.cut /\ ~(Abandons(e) /\ loc.tcp # <<>>) /\ stream'.eof = stream.eof
    BY <1>1, FailHistory DEF TypedControl
  <1>3. tcpIn' = tcpIn /\ loc.tcp = <<>>
    <2>1. CASE pc = "tcpListen" /\ tcpIn # <<>> /\ tcpIn' = Tail(tcpIn) /\ ~InStep
      <3>1. ReadPart
        BY <2>1 DEF ReadPart
      <3> QED  BY <1>2, <2>1, <3>1, PartInStep
    <2>2. CASE tcpIn' = tcpIn /\ (pc = "rtuListen" \/ Abandons(e))
      BY <1>2, <2>2 DEF TypedControl, ControlOK
    <2> QED  BY <2>1, <2>2 DEF FailStep
  <1>4. loc' = [Fresh EXCEPT !.err = e] /\ net' = net
    BY <1>1 DEF Fail, serverVars
  <1>5. loc'.tcp = <<>>
    BY <1>4, FailedLocals
  <1>6. AnswersInStep(<<>>, tcpIn \o net, stream.eof)
    BY <1>2, <1>3 DEF StreamInStep
  <1> QED  BY <1>2, <1>3, <1>4, <1>5, <1>6

LEMMA StreamCaller ==
  ASSUME TypedControl, StreamInStep, Caller  PROVE StreamInStep'
  <1>1. loc' = Fresh /\ loc.tcp = <<>> /\ loc.left = 0 /\ loc'.tcp = <<>> /\ loc'.left = 0
    BY FreshLocals DEF Caller, Connect, CallNext, IntoStream, TypedControl, ControlOK
  <1>2. CASE CallNext \/ IntoStream
    BY <1>1, <1>2, StreamUntouched DEF CallNext, IntoStream, serverVars
  <1>3. CASE Connect /\ stream' = FreshStream /\ tcpIn' = <<>> /\ net' = <<>>
    <2>1. tcpIn' \o net' = <<>> /\ stream'.eof = FALSE
      <3>1. tcpIn' \in Seq(Part) /\ net' = <<>>
        BY <1>3, EmptySeq
      <3>2. tcpIn' \o net' = tcpIn'
        BY <3>1, ConcatEmptySeq
      <3> QED  BY <1>3, <3>2 DEF FreshStream
    <2>2. Alternate(<<>>)
      BY DEF Alternate
    <2> QED  BY <1>1, <2>1, <2>2 DEF StreamInStep, AnswersInStep, PartsInStep
  <1>4. CASE Connect /\ stream' = [stream EXCEPT !.reused = TRUE] /\ UNCHANGED <<tcpIn, net>>
    <2>1. stream \in StreamType
      BY DEF TypedControl, TypeOK, StreamType
    <2>2. stream'.cut = stream.cut /\ stream'.eof = stream.eof
      BY <1>4, <2>1 DEF StreamType
    <2> QED  BY <1>1, <1>4, <2>2 DEF StreamInStep
  <1> QED  BY <1>2, <1>3, <1>4 DEF Caller, Connect, serverVars

LEMMA StreamAnswered ==
  ASSUME TypedControl, StreamInStep, ServerAnswer  PROVE StreamInStep'
  <1> SUFFICES ASSUME ~stream.cut
               PROVE  /\ AnswersInStep(loc'.tcp, tcpIn' \o net', stream'.eof)
                      /\ loc'.tcp # <<>> => loc'.left = 1
    <2>1. stream' = stream
      BY Answered
    <2> QED  BY <2>1 DEF StreamInStep
  <1>1. UNCHANGED <<loc, tcpIn, stream>> /\ ~stream.eof
    BY Answered
  <1>2. PICK q \in srv, t \in Tids :
          /\ q.req \in 1..MaxReq
          /\ \/ net' = net \o Answer(q.req, t)
             \/ net' = (net \o Answer(q.req, t)) \o Answer(q.req, t)
          /\ Answer(q.req, t) \in Seq(Part) /\ net \o Answer(q.req, t) \in Seq(Part)
    BY Answered
  <1> DEFINE a == Answer(q.req, t)
             g == loc.tcp
             b == tcpIn \o net
  <1>3. a \in Seq(Part) /\ net \in Seq(Part) /\ tcpIn \in Seq(Part) /\ net \o a \in Seq(Part)
    BY <1>2, StreamTypes
  <1>4. b \in Seq(Part) /\ g \in Seq(Part)
    BY StreamTypes
  <1>5. \A s \in Seq(Part) : AnswersInStep(g, s, FALSE) => AnswersInStep(g, s \o a, FALSE)
    BY <1>2, <1>4, AnswerAdded
  <1>6. AnswersInStep(g, b, FALSE) /\ (loc.tcp # <<>> => loc.left = 1)
    <2>1. AnswersInStep(loc.tcp, tcpIn \o net, stream.eof) /\ stream.eof \in BOOLEAN
      BY StreamTypes DEF StreamInStep
    <2>2. AnswersInStep(g, b, FALSE)
      BY <1>1, <2>1 DEF AnswersInStep, PartsInStep
    <2> QED  BY <2>2 DEF StreamInStep
  <1>7. net' = net \o a \/ net' = (net \o a) \o a
    BY <1>2
  <1>8. /\ tcpIn \o (net \o a) = b \o a
        /\ tcpIn \o ((net \o a) \o a) = (b \o a) \o a
    <2> HIDE DEF a
    <2>1. tcpIn \o (net \o a) = (tcpIn \o net) \o a
      BY ONLY <1>3, PartsRegrouped
    <2>2. tcpIn \o ((net \o a) \o a) = (tcpIn \o (net \o a)) \o a
      BY ONLY <1>3, PartsRegrouped
    <2> QED  BY ONLY <2>1, <2>2 DEF b
  <1>9. b \o a \in Seq(Part)
    BY <1>3, <1>4, Joined
  <1> HIDE DEF a, b, g
  <1>10. AnswersInStep(g, b \o a, FALSE) /\ AnswersInStep(g, (b \o a) \o a, FALSE)
    BY ONLY <1>4, <1>5, <1>6, <1>9
  <1>11. AnswersInStep(g, tcpIn \o net', FALSE)
    BY ONLY <1>7, <1>8, <1>10
  <1>12. AnswersInStep(g, tcpIn \o net', stream.eof)
    BY <1>11 DEF AnswersInStep, PartsInStep
  <1> QED  BY <1>1, <1>6, <1>12 DEF g

LEMMA StreamServer ==
  ASSUME TypedControl, StreamInStep, Server  PROVE StreamInStep'
  <1>1. CASE ServerAnswer
    BY <1>1, StreamAnswered
  <1>2. CASE ServerIgnore
    BY <1>2, StreamUntouched DEF ServerIgnore
  <1>3. CASE TcpArrive
    <2>1. /\ net # <<>> /\ net' = Tail(net) /\ tcpIn' = Append(tcpIn, Head(net))
          /\ UNCHANGED <<loc, stream>>
      BY <1>3 DEF TcpArrive
    <2>2. tcpIn' \o net' = tcpIn \o net
      BY <2>1, StreamTypes, MovedAcross
    <2> QED  BY <2>1, <2>2 DEF StreamInStep
  <1>4. CASE ServerClose
    <2>1. /\ net' = <<>> /\ UNCHANGED <<loc, tcpIn>> /\ stream'.eof /\ stream'.cut = stream.cut
      BY <1>4, Closed
    <2>2. tcpIn' \o net' = tcpIn
      BY <2>1, StreamTypes, ConcatEmptySeq
    <2>3. ASSUME AnswersInStep(loc.tcp, tcpIn \o net, stream.eof)
          PROVE  AnswersInStep(loc.tcp, tcpIn, stream'.eof)
      <3>1. PartsInStep(loc.tcp, tcpIn \o net)
        BY <2>3 DEF AnswersInStep
      <3>2. PartsInStep(loc.tcp, tcpIn)
        BY <3>1, StreamTypes, Truncated
      <3> QED  BY <2>1, <3>2 DEF AnswersInStep
    <2> QED  BY <2>1, <2>2, <2>3 DEF StreamInStep
  <1> QED  BY <1>1, <1>2, <1>3, <1>4 DEF Server

LEMMA StreamNext ==
  ASSUME TypedControl, StreamInStep, [Next]_vars  PROVE StreamInStep'
  <1> USE DEF TypedControl, ControlOK
  <1>1. CASE UNCHANGED vars
    BY <1>1, StreamUntouched DEF vars, serverVars
  <1>2. CASE Caller
    BY <1>2, StreamCaller
  <1>3. CASE ListenHeader \/ ListenBody
    BY <1>3, UnitRead, StreamUntouched
  <1>4. CASE ListenLast /\ pc' # "failed"
    BY <1>4, RequestRead, StreamUntouched
  <1>5. CASE ListenRetry
    <2>1. loc \in Locals
      BY DEF TypeOK
    <2>2. loc'.tcp = loc.tcp /\ loc'.left = loc.left
      BY <1>5, <2>1 DEF ListenRetry, Locals
    <2> QED  BY <1>5, <2>2, StreamUntouched DEF ListenRetry, serverVars
  <1>6. CASE TcpSend
    BY <1>6, RequestSent, StreamUntouched
  <1>7. CASE TcpListenMore \/ TcpListenLast
    BY <1>7, StreamRead
  <1>8. CASE RtuSend
    <2>1. /\ loc.tcp = <<>> /\ loc.left = 0 /\ UNCHANGED <<tcpIn, net, stream>>
          /\ loc' = loc \/ loc' = Fresh \/ loc' = [Fresh EXCEPT !.err = RtuErr.Serial]
      BY <1>8 DEF RtuSend, SendFrame, SendFlush, SendWrite, SendDrain, SendError, serverVars
    <2>2. loc'.tcp = <<>> /\ loc'.left = 0
      BY <2>1, FreshLocals, FailedLocals, ErrorNames
    <2> QED  BY <2>1, <2>2, StreamUntouched
  <1>9. CASE PollReady \/ PollSleep
    BY <1>9, Polled, StreamUntouched
  <1>10. CASE Master
    BY <1>10, StreamUntouched DEF Master, MasterSend, MasterGiveUp, serverVars
  <1>11. CASE Line
    BY <1>11, Arrived, StreamUntouched
  <1>12. CASE Server
    BY <1>12, StreamServer
  <1>13. ASSUME NEW e \in Errors, FailStep(e)  PROVE StreamInStep'
    BY <1>13, StreamErrors
  <1> QED  BY <1>1, <1>2, <1>3, <1>4, <1>5, <1>6, <1>7, <1>8, <1>9, <1>10, <1>11, <1>12,
              <1>13, Steps
-----------------------------------------------------------------------------
(* The errors that say framing was lost. *)

FramingInv == TypedControl /\ LineInStep /\ StreamInStep /\ FramingLost

LEMMA FramingInit == Init => FramingInv
  <1> SUFFICES ASSUME Init  PROVE LineInStep /\ StreamInStep /\ FramingLost
    BY TypesInit DEF FramingInv
  <1>1. /\ pc = "idle" /\ loc.got = <<>> /\ Len(loc.got) = 0 /\ loc.need = 0 /\ loc.tcp = <<>>
        /\ rx = <<>> /\ wire = <<>> /\ tcpIn = <<>> /\ net = <<>>
    BY FreshLocals DEF Init
  <1>2. rx \o wire = <<>> /\ tcpIn \o net = <<>>
    <2>1. rx \in Seq(Unit) /\ tcpIn \in Seq(Part)
      BY <1>1, EmptySeq
    <2> QED  BY <1>1, <2>1, ConcatEmptySeq
  <1>3. LineInStep
    <2>a. Len(<<>>) = 0 /\ sent = 0
      BY DEF Init
    <2>1. RequestsInStep(<<>>, <<>>, sent)
      BY ONLY <2>a, Sizes DEF RequestsInStep, Beginning, Rest, Fits
    <2> QED  BY <1>1, <1>2, <2>1, Sizes DEF LineInStep
  <1>4. StreamInStep
    <2>1. Alternate(<<>>)
      BY DEF Alternate
    <2> QED  BY <1>1, <1>2, <2>1 DEF StreamInStep, AnswersInStep, PartsInStep
  <1> QED  BY <1>1, <1>3, <1>4 DEF FramingLost

\* A disturbance of the line is not forgotten.
LEMMA TornForGood ==
  ASSUME TypedControl, [Next]_vars  PROVE past.torn => past'.torn
  <1> SUFFICES ASSUME past.torn  PROVE past'.torn
    OBVIOUS
  <1>1. past \in PastType
    BY DEF TypedControl, TypeOK, PastType
  <1>2. ASSUME NEW b, past' = [past EXCEPT !.sendFailed = b]  PROVE past'.torn
    BY ONLY <1>1, <1>2, past.torn DEF PastType
  <1>3. CASE past' = past
    BY <1>3
  <1>4. CASE RtuSend
    BY <1>2, <1>3, <1>4
       DEF RtuSend, SendFrame, SendFlush, SendWrite, SendDrain, SendError
  <1>5. CASE Line
    BY <1>3, <1>5, Arrived
  <1>6. ASSUME NEW e \in Errors, FailStep(e)  PROVE past'.torn
    BY <1>6, FailHistory DEF FailStep, TypedControl
  <1>7. CASE UNCHANGED vars
    BY <1>7 DEF vars
  <1>8. CASE \/ Caller \/ ListenHeader \/ ListenBody \/ (ListenLast /\ pc' # "failed")
             \/ ListenRetry \/ TcpSend \/ TcpListenMore \/ TcpListenLast
             \/ PollReady \/ PollSleep \/ Master \/ Server
    <2>1. past' = past
      BY <1>8, UnitRead, RequestRead, RequestSent, PartRead, AnswerRead, Polled
         DEF Caller, Connect, CallNext, IntoStream, ListenRetry, Master, MasterSend,
             MasterGiveUp, Server, ServerAnswer, ServerIgnore, TcpArrive, ServerClose
    <2> QED  BY <2>1
  <1> QED  BY <1>4, <1>5, <1>6, <1>7, <1>8, Steps

\* The errors themselves.
LEMMA FramingErrors ==
  ASSUME FramingInv, NEW e \in Errors, FailStep(e)  PROVE FramingLost'
  <1> USE DEF FramingInv
  <1>1. Fail(e) /\ loc' = [Fresh EXCEPT !.err = e] /\ pc' = "failed"
    BY DEF FailStep, Fail
  <1>2. loc'.err = e
    BY <1>1, FailedLocals
  <1>3. (past.torn => past'.torn) /\ (stream.cut => stream'.cut)
    BY <1>1, FailHistory DEF TypedControl
  <1>4. CASE ListenOverflow \/ ListenLast
    <2>1. past.torn
      BY <1>1, <1>4, BadRequestTorn
    <2> QED  BY <1>3, <2>1 DEF FramingLost
  <1>5. CASE Abandons(e)
    BY <1>2, <1>5 DEF FramingLost, Abandons
  <1>6. CASE pc = "tcpListen" /\ tcpIn # <<>> /\ tcpIn' = Tail(tcpIn) /\ ~InStep
             /\ e = "BufferOverflow"
    <2>1. stream.cut
      BY <1>6, PartInStep DEF ReadPart
    <2> QED  BY <1>2, <1>3, <1>6, <2>1 DEF FramingLost
  <1> QED  BY <1>4, <1>5, <1>6 DEF FailStep

LEMMA FramingNext == FramingInv /\ [Next]_vars => FramingInv'
  <1> SUFFICES ASSUME FramingInv, [Next]_vars  PROVE FramingInv'
    OBVIOUS
  <1>1. TypedControl' /\ LineInStep' /\ StreamInStep'
    BY TypesNext, LineNext, StreamNext DEF FramingInv
  <1>2. TypedControl /\ (past.torn => past'.torn)
    BY TornForGood DEF FramingInv
  <1>3. FramingLost'
    <2>1. CASE pc' # "failed"
      BY <2>1 DEF FramingLost
    <2>2. ASSUME pc' = "failed", UNCHANGED <<loc, pc, stream>>  PROVE FramingLost'
      BY <1>2, <2>2 DEF FramingLost, FramingInv
    <2>3. ASSUME pc' = "failed", SendError  PROVE FramingLost'
      <3>1. loc'.err = "RtuIo"
        <4>1. loc' = [Fresh EXCEPT !.err = RtuErr.Serial] /\ RtuErr.Serial = "RtuIo"
          BY <2>3 DEF SendError, RtuErr
        <4> QED  BY <4>1, FailedLocals DEF Errors
      <3> QED  BY <3>1 DEF FramingLost
    <2>4. ASSUME NEW e \in Errors, FailStep(e)  PROVE FramingLost'
      BY <2>4, FramingErrors
    <2>5. ASSUME pc' = "failed", ServerClose  PROVE FramingLost'
      BY <1>2, <2>5, Closed DEF FramingLost, FramingInv
    <2>6. CASE \/ UNCHANGED vars \/ Master \/ Line
               \/ ServerAnswer \/ ServerIgnore \/ TcpArrive
      <3>1. UNCHANGED <<loc, pc, stream>>
        BY <1>2, <2>6, Arrived
           DEF vars, Master, MasterSend, MasterGiveUp, ServerAnswer, ServerIgnore, TcpArrive
      <3> QED  BY <2>1, <2>2, <3>1
    <2>7. CASE \/ Caller \/ ListenHeader \/ ListenBody \/ ListenRetry \/ TcpSend
               \/ TcpListenMore \/ TcpListenLast \/ SendFrame \/ PollReady \/ PollSleep
      <3>1. pc' # "failed"
        BY <2>7
           DEF Caller, Connect, CallNext, IntoStream, ListenHeader, ListenBody, ListenRetry,
               ReadUnit, TcpSend, TcpListenMore, TcpListenLast, ReadPart, SendFrame,
               SendFlush, SendWrite, SendDrain, PollReady, PollSleep, InPoll
      <3> QED  BY <2>1, <3>1
    <2> QED  BY <1>2, <2>1, <2>3, <2>4, <2>5, <2>6, <2>7, Steps DEF RtuSend, Server
  <1> QED  BY <1>1, <1>3 DEF FramingInv

(***************************************************************************)
(* A request fails its CRC check only on a line that was disturbed or off  *)
(* which an earlier call has torn the first half of a request, and the     *)
(* buffers overflow only then or on a stream cut inside an answer.         *)
(***************************************************************************)
THEOREM FramingKept == Spec => []FramingLost
  <1>1. FramingInv => FramingLost
    BY DEF FramingInv
  <1> QED  BY <1>1, FramingInit, FramingNext, PTL DEF Spec

=============================================================================
