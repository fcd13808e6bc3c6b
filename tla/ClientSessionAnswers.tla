------------------------ MODULE ClientSessionAnswers ------------------------
(***************************************************************************)
(* Which answer a request gets in client mode.                             *)
(*   Flagged           an answer without a Warning carries the request's   *)
(*                     own id, so that it answers that request or one a    *)
(*                     whole round of the transaction counter before       *)
(*   OwnAnswers        behind a gateway that connects anew after errors, a *)
(*                     patient master gets its own answers only            *)
(*   ClientImplements  client mode implements Gateway, so that no request  *)
(*                     is answered twice and no answer given twice         *)
(***************************************************************************)
EXTENDS ClientSessionProofs

-----------------------------------------------------------------------------
(* The ids handed out in the live session.                                 *)

Round(n) == \E k \in Int : n = k * TidMod

(***************************************************************************)
(* A request that took the p-th number of Len(numbered) took the id        *)
(* Len(numbered) - p before the newest, modulo the counter's range.        *)
(***************************************************************************)
Id == [req : 1..MaxReq, tid : Tids]
Ids == {x \in Id :
          \E p \in 1..Len(numbered) :
             /\ numbered[p] = [sess |-> sess, req |-> x.req]
             /\ Round(tid - x.tid - (Len(numbered) - p))}

IdOf(p) == [req |-> p.req, tid |-> p.tid]
Among(q, S) == \A i \in 1..Len(q) : IdOf(q[i]) \in S

LEMMA RoundZero == Round(0)
  <1>1. 0 \in Int /\ 0 = 0 * TidMod
    BY Sizes
  <1> QED  BY <1>1 DEF Round

LEMMA RoundBack ==
  ASSUME NEW n \in Int, Round(n)  PROVE Round(n - TidMod)
  <1>1. PICK k \in Int : n = k * TidMod
    BY DEF Round
  <1>2. n - TidMod = (k - 1) * TidMod
    BY <1>1, Sizes
  <1>3. k - 1 \in Int
    OBVIOUS
  <1> QED  BY <1>2, <1>3 DEF Round

\* A distance back that is a whole number of rounds has remainder 0.
LEMMA RoundApartBy ==
  ASSUME NEW n \in Nat, Round(0 - n)  PROVE n % TidMod = 0
  <1> DEFINE m == n % TidMod
             d == n \div TidMod
             T == TidMod
  <1>1. PICK k \in Int : 0 - n = k * T
    BY DEF Round
  <1>2. T \in Nat /\ T >= 1
    BY Sizes
  <1>3. m \in Int /\ d \in Int /\ n = T * d + m /\ 0 <= m /\ m < T
    BY <1>2
  <1> HIDE DEF m, d, T
  <1> DEFINE j == 0 - k - d
  <1>4. j \in Int /\ m = T * j
    <2>1. n = 0 - k * T
      BY <1>1, <1>2
    <2>2. T * j = (0 - k * T) - T * d
      BY <1>1, <1>2, <1>3
    <2> QED  BY <1>1, <1>2, <1>3, <2>1, <2>2
  <1> HIDE DEF j
  <1>5. j >= 1 => T * j >= T
    BY ONLY <1>2, <1>4
  <1>6. j <= -1 => T * j <= -1
    BY ONLY <1>2, <1>4
  <1>7. j = 0
    BY ONLY <1>2, <1>3, <1>4, <1>5, <1>6
  <1>8. m = 0
    BY ONLY <1>2, <1>4, <1>7
  <1> QED  BY <1>8 DEF m

\* Queues of parts.
LEMMA ElementIn ==
  ASSUME NEW S, NEW s \in Seq(S), NEW i \in 1..Len(s)  PROVE s[i] \in S
  OBVIOUS

LEMMA AmongTail ==
  ASSUME NEW S, NEW q \in Seq(Part), q # <<>>, Among(q, S)
  PROVE  Among(Tail(q), S) /\ IdOf(Head(q)) \in S
  <1>1. 1 \in 1..Len(q)
    BY HeadTail
  <1> QED  BY <1>1, HeadTail DEF Among

LEMMA AmongAppend ==
  ASSUME NEW S, NEW q \in Seq(Part), NEW p \in Part, Among(q, S), IdOf(p) \in S
  PROVE  Among(Append(q, p), S)
  <1> DEFINE h == Append(q, p)
  <1>1. /\ Len(h) = Len(q) + 1 /\ Len(q) \in Nat /\ h[Len(q) + 1] = p
        /\ \A i \in 1..Len(q) : h[i] = q[i]
    BY AppendLast
  <1> HIDE DEF h
  <1>2. ASSUME NEW i \in 1..Len(h)  PROVE IdOf(h[i]) \in S
    <2>1. i \in 1..Len(q) \/ i = Len(q) + 1
      BY ONLY <1>1, i \in 1..Len(h)
    <2> QED  BY <1>1, <2>1 DEF Among
  <1> QED  BY <1>2 DEF Among, h

LEMMA AmongJoined ==
  ASSUME NEW S, NEW s \in Seq(Part), NEW t \in Seq(Part), Among(s, S), Among(t, S)
  PROVE  Among(s \o t, S)
  <1> DEFINE h == s \o t
  <1>1. /\ Len(h) = Len(s) + Len(t) /\ Len(s) \in Nat /\ Len(t) \in Nat
        /\ \A i \in 1..Len(h) : h[i] = IF i <= Len(s) THEN s[i] ELSE t[i - Len(s)]
    BY Joined
  <1> HIDE DEF h
  <1>2. ASSUME NEW i \in 1..Len(h)  PROVE IdOf(h[i]) \in S
    <2>1. i \in 1..Len(s) \/ (i - Len(s) \in 1..Len(t) /\ ~(i <= Len(s)))
      BY ONLY <1>1, i \in 1..Len(h)
    <2>2. i \in 1..Len(s) => i <= Len(s)
      OBVIOUS
    <2> QED  BY <1>1, <2>1, <2>2 DEF Among
  <1> QED  BY <1>2 DEF Among, h

LEMMA AmongMore ==
  ASSUME NEW S, NEW R, S \subseteq R, NEW q, Among(q, S)  PROVE Among(q, R)
  BY DEF Among

\* The first part of what is read is among the ids that are.
LEMMA AmongFirst ==
  ASSUME NEW S, NEW q \in Seq(Part), NEW p \in Part, Among(Append(q, p), S)
  PROVE  IdOf(Append(q, p)[1]) \in S
  <1>1. 1 \in 1..Len(Append(q, p))
    BY AppendLast
  <1> QED  BY <1>1 DEF Among

LEMMA AnswerAmong ==
  ASSUME NEW S, NEW x \in Id, x \in S  PROVE Among(Answer(x.req, x.tid), S)
  <1> DEFINE a == Answer(x.req, x.tid)
  <1>1. x.req \in 1..MaxReq /\ x.tid \in Tids /\ x = [req |-> x.req, tid |-> x.tid]
    BY DEF Id
  <1>2. Len(a) = 2 /\ \A i \in 1..2 : a[i].req = x.req /\ a[i].tid = x.tid
    BY <1>1, AnswerParts
  <1> QED  BY <1>1, <1>2 DEF Among, IdOf

-----------------------------------------------------------------------------
(***************************************************************************)
(* The request in hand has the newest id.  On a stream connected once, to  *)
(* a server that echoes ids, every request and answer under way has the id *)
(* its request took, and so has an answer that is sent without a Warning.  *)
(***************************************************************************)
IdsOK ==
  /\ pc \in Upstream => /\ loc.tid = tid /\ numbered # <<>>
                        /\ numbered[Len(numbered)] = [sess |-> sess, req |-> loc.req]
  /\ ~stream.reused /\ ~Fault("wrongTid") =>
       /\ srv \subseteq Ids
       /\ Among(net, Ids) /\ Among(tcpIn, Ids) /\ Among(loc.tcp, Ids)
       /\ pc \in {"flush", "write"} /\ ~stream.cut /\ ~stream.half /\ ~loc.warn
            => [req |-> loc.resp, tid |-> tid] \in Ids

AnswersInv == TypedControl /\ StreamInStep /\ IdsOK /\ AnswersFlagged

LEMMA IdTypes ==
  ASSUME TypedControl
  PROVE  /\ numbered \in Seq(Number) /\ Len(numbered) \in Nat /\ tid \in Tids /\ tid \in Int
         /\ loc.tcp \in Seq(Part) /\ tcpIn \in Seq(Part) /\ net \in Seq(Part)
         /\ stream \in StreamType
  BY Sizes DEF TypedControl, TypeOK, Locals, Tids, StreamType

LEMMA AmongNone == \A S : Among(<<>>, S)
  BY DEF Among

LEMMA IdsKept ==
  ASSUME UNCHANGED <<sess, tid, numbered>>  PROVE Ids' = Ids
  BY DEF Ids, Id, Tids

\* A step that moves no part and neither begins nor ends a call's answer.
LEMMA IdsUntouched ==
  ASSUME IdsOK, UNCHANGED <<setup, pc, sess, tid, numbered, srv, net, tcpIn, loc, stream>>
  PROVE  IdsOK'
  <1>1. Ids' = Ids
    BY IdsKept
  <1> QED  BY <1>1 DEF IdsOK, Fault

\* A call without a request in hand keeps the second half only.
LEMMA IdsAside ==
  ASSUME IdsOK, UNCHANGED <<setup, sess, tid, numbered, srv, net, tcpIn>>,
         pc' \notin Upstream, loc'.tcp = loc.tcp \/ loc'.tcp = <<>>,
         stream'.reused = stream.reused
  PROVE  IdsOK'
  <1>1. Ids' = Ids
    BY IdsKept
  <1>2. pc' \notin {"flush", "write"}
    BY DEF Upstream
  <1>3. Among(<<>>, Ids)
    BY AmongNone
  <1> QED  BY <1>1, <1>2, <1>3 DEF IdsOK, Fault

\* The call goes on with its request in hand.
LEMMA IdsOnward ==
  ASSUME IdsOK, UNCHANGED <<setup, sess, tid, numbered, net, tcpIn, stream>>,
         srv' \subseteq srv \/ srv' \subseteq srv \cup {[req |-> loc.req, tid |-> loc.tid]},
         [req |-> loc.req, tid |-> loc.tid] \in Id, TypedControl,
         pc \in Upstream, pc' \in Upstream \ {"flush", "write"},
         loc'.req = loc.req, loc'.tid = loc.tid, loc'.tcp = loc.tcp
  PROVE  IdsOK'
  <1>1. Ids' = Ids
    BY IdsKept
  <1>2. [req |-> loc.req, tid |-> loc.tid] \in Ids
    <2> DEFINE x == [req |-> loc.req, tid |-> loc.tid]
               n == Len(numbered)
    <2>1. x.tid = tid /\ x.req = loc.req /\ x \in Id /\ numbered # <<>>
          /\ numbered[n] = [sess |-> sess, req |-> x.req]
      BY DEF IdsOK
    <2>2. n \in 1..n /\ n - n = 0 /\ tid - tid = 0 /\ 0 - 0 = 0
      <3>1. numbered \in Seq(Number) /\ numbered # <<>> /\ tid \in Int
        BY <2>1, IdTypes
      <3> QED  BY <3>1, HeadTail
    <2>3. Round(tid - x.tid - (n - n))
      BY <2>1, <2>2, RoundZero
    <2> HIDE DEF x
    <2> QED  BY <2>1, <2>2, <2>3 DEF Ids, x
  <1> QED  BY <1>1, <1>2 DEF IdsOK, Fault

\* A request takes the next id: those before move one back.
LEMMA IdsNumbered ==
  ASSUME TypedControl, ListenLast, pc' # "failed"  PROVE Ids \subseteq Ids'
  <1> SUFFICES ASSUME NEW x \in Ids  PROVE x \in Ids'
    OBVIOUS
  <1> DEFINE e == [sess |-> sess, req |-> loc'.req]
             n == Len(numbered)
  <1>1. /\ sess' = sess /\ numbered' = Append(numbered, e) /\ e \in Number
        /\ tid' = (tid + 1) % TidMod
    BY RequestRead DEF next_transaction_id
  <1>2. x \in Id /\ x.tid \in Int
    BY Sizes DEF Ids, Id, Tids
  <1>3. PICK p \in 1..n : /\ numbered[p] = [sess |-> sess, req |-> x.req]
                          /\ Round(tid - x.tid - (n - p))
    BY DEF Ids
  <1>4. numbered \in Seq(Number) /\ n \in Nat /\ tid \in 0..(TidMod - 1)
    BY IdTypes DEF Tids
  <1>5. Len(numbered') = n + 1 /\ numbered'[p] = numbered[p] /\ p \in 1..(n + 1)
    <2> HIDE DEF e
    <2> QED  BY <1>1, <1>3, <1>4, AppendLast
  <1> HIDE DEF n, e
  <1>6. tid' = tid + 1 \/ tid' = tid + 1 - TidMod
    BY <1>1, <1>4, Sizes
  <1>7. Round(tid' - x.tid - ((n + 1) - p))
    <2>1. tid - x.tid - (n - p) \in Int
      BY <1>2, <1>3, <1>4, Sizes
    <2>2. CASE tid' = tid + 1
      <3> DEFINE y == x.tid
      <3>a. y \in Int /\ tid \in Int /\ n \in Int /\ p \in Int
        BY <1>2, <1>4, Sizes
      <3> HIDE DEF y
      <3>b. (tid + 1) - y - ((n + 1) - p) = tid - y - (n - p)
        BY ONLY <3>a
      <3>1. tid' - x.tid - ((n + 1) - p) = tid - x.tid - (n - p)
        BY <2>2, <3>b DEF y
      <3> QED  BY <1>3, <3>1
    <2>3. CASE tid' = tid + 1 - TidMod
      <3> DEFINE y == x.tid
      <3>a. y \in Int /\ tid \in Int /\ n \in Int /\ p \in Int /\ TidMod \in Int
        BY <1>2, <1>4, Sizes
      <3> HIDE DEF y
      <3>b. (tid + 1 - TidMod) - y - ((n + 1) - p) = (tid - y - (n - p)) - TidMod
        BY ONLY <3>a
      <3>1. tid' - x.tid - ((n + 1) - p) = (tid - x.tid - (n - p)) - TidMod
        BY <2>3, <3>b DEF y
      <3> QED  BY <1>3, <2>1, <3>1, RoundBack
    <2> QED  BY <1>6, <2>2, <2>3
  <1> QED  BY <1>1, <1>2, <1>3, <1>5, <1>7 DEF Ids, Id, Tids

LEMMA IdsTaken ==
  ASSUME TypedControl, IdsOK, ListenLast, pc' # "failed"  PROVE IdsOK'
  <1> DEFINE e == [sess |-> sess, req |-> loc'.req]
  <1>1. /\ pc' = "tcpSend" /\ loc'.tid = tid' /\ loc'.tcp = <<>> /\ sess' = sess
        /\ UNCHANGED <<setup, srv, net, tcpIn, stream>>
        /\ numbered' = Append(numbered, e) /\ e \in Number
    BY RequestRead
  <1>2. numbered' # <<>> /\ numbered'[Len(numbered')] = e
    <2>1. numbered \in Seq(Number)
      BY IdTypes
    <2> HIDE DEF e
    <2> QED  BY ONLY <1>1, <2>1, AppendLast
  <1>3. Ids \subseteq Ids'
    BY IdsNumbered
  <1>4. \A q : Among(q, Ids) => Among(q, Ids')
    BY <1>3 DEF Among
  <1> QED  BY <1>1, <1>2, <1>3, <1>4, AmongNone DEF IdsOK, Fault

LEMMA IdsConnected ==
  ASSUME TypedControl, IdsOK, Connect  PROVE IdsOK'
  <1>1. pc' = "ready" /\ loc'.tcp = <<>>
    BY FreshLocals DEF Connect
  <1>2. stream'.reused \/ (srv' = {} /\ net' = <<>> /\ tcpIn' = <<>>)
    <2>1. ASSUME stream' = [stream EXCEPT !.reused = TRUE]  PROVE stream'.reused
      <3> DEFINE t == TRUE
      <3>1. stream \in StreamType /\ t /\ stream' = [stream EXCEPT !.reused = t]
        BY <2>1, IdTypes
      <3> HIDE DEF t
      <3>2. stream'.reused = t
        BY ONLY <3>1 DEF StreamType
      <3> QED  BY ONLY <3>1, <3>2, Zenon
    <2> QED  BY <2>1 DEF Connect
  <1>3. \A S : Among(<<>>, S) /\ {} \subseteq S
    BY AmongNone
  <1>4. pc' \notin Upstream /\ pc' \notin {"flush", "write"}
    BY <1>1 DEF Upstream
  <1> QED  BY <1>1, <1>2, <1>3, <1>4 DEF IdsOK

LEMMA IdsErrors ==
  ASSUME TypedControl, IdsOK, NEW e \in Errors, FailStep(e)  PROVE IdsOK'
  <1>1. Fail(e) /\ (tcpIn' = tcpIn \/ (tcpIn # <<>> /\ tcpIn' = Tail(tcpIn)))
    BY DEF FailStep
  <1>2. /\ pc' = "failed" /\ loc' = [Fresh EXCEPT !.err = e]
        /\ UNCHANGED <<setup, sess, tid, numbered, srv, net>>
    BY <1>1 DEF Fail, serverVars
  <1>3. loc'.tcp = <<>> /\ stream'.reused = stream.reused
    BY <1>1, <1>2, FailedLocals, FailHistory DEF TypedControl
  <1>4. Ids' = Ids
    BY <1>2, IdsKept
  <1>5. Among(tcpIn, Ids) => Among(tcpIn', Ids)
    BY <1>1, IdTypes, AmongTail
  <1>6. pc' \notin Upstream /\ pc' \notin {"flush", "write"} /\ Among(<<>>, Ids)
    BY <1>2, AmongNone DEF Upstream
  <1> QED  BY <1>2, <1>3, <1>4, <1>5, <1>6 DEF IdsOK, Fault

\* The parts taken from the stream.
LEMMA PartAmong ==
  ASSUME TypedControl, ReadPart, Among(tcpIn, Ids), Among(loc.tcp, Ids)
  PROVE  Among(Parts, Ids) /\ Among(tcpIn', Ids) /\ IdOf(Parts[1]) \in Ids
  <1>1. tcpIn # <<>> /\ tcpIn' = Tail(tcpIn)
    BY DEF ReadPart
  <1>2. Head(tcpIn) \in Part /\ IdOf(Head(tcpIn)) \in Ids /\ Among(Tail(tcpIn), Ids)
    BY <1>1, IdTypes, HeadTail, AmongTail
  <1>3. Among(Append(loc.tcp, Head(tcpIn)), Ids)
    BY <1>2, IdTypes, AmongAppend
  <1>4. IdOf(Append(loc.tcp, Head(tcpIn))[1]) \in Ids
    BY <1>2, <1>3, IdTypes, AmongFirst
  <1> QED  BY <1>1, <1>2, <1>3, <1>4 DEF Parts

LEMMA IdsPartRead ==
  ASSUME TypedControl, IdsOK, TcpListenMore  PROVE IdsOK'
  <1>1. /\ ReadPart /\ pc = "tcpListen" /\ pc' = "tcpListen" /\ loc'.tcp = Parts
        /\ UNCHANGED <<setup, sess, tid, numbered, srv, net, stream>>
        /\ loc'.req = loc.req /\ loc'.tid = loc.tid
    BY PartRead, PartsTyped DEF TcpListenMore
  <1>2. Ids' = Ids
    BY <1>1, IdsKept
  <1> QED  BY <1>1, <1>2, PartAmong DEF IdsOK, Fault, Upstream

\* Without a Warning the answer has the newest id.
LEMMA IdsAnswerRead ==
  ASSUME TypedControl, StreamInStep, IdsOK, TcpListenLast  PROVE IdsOK'
  <1>1. /\ ReadPart /\ pc = "tcpListen" /\ pc' = "flush" /\ loc'.tcp = <<>>
        /\ UNCHANGED <<setup, sess, tid, numbered, srv, net, stream>>
        /\ loc'.req = loc.req /\ loc'.tid = loc.tid
    BY AnswerRead, PartsTyped
  <1>2. Ids' = Ids
    BY <1>1, IdsKept
  <1>3. ASSUME ~stream.cut, ~stream.half, ~loc'.warn, IdOf(Parts[1]) \in Ids, loc.tid = tid
        PROVE  [req |-> loc'.resp, tid |-> tid] \in Ids
    <2>1. InStep
      BY <1>1, <1>3, PartInStep
    <2>2. loc'.resp = Parts[1].req /\ loc'.warn = (Parts[1].tid # loc.tid)
      BY <1>3, <2>1, AnswerRead
    <2>3. Parts[1].tid = tid
      BY <1>3, <2>2
    <2> QED  BY <1>3, <2>2, <2>3 DEF IdOf
  <1> QED  BY <1>1, <1>2, <1>3, PartAmong, AmongNone DEF IdsOK, Fault, Upstream

LEMMA IdsAnswered ==
  ASSUME TypedControl, IdsOK, ServerAnswer  PROVE IdsOK'
  <1>1. UNCHANGED <<setup, pc, sess, loc, tid, numbered, tcpIn, stream>>
    BY Answered
  <1>2. PICK q \in srv, t \in Tids :
          /\ q.req \in 1..MaxReq /\ srv' = srv \ {q} /\ (t = q.tid \/ Fault("wrongTid"))
          /\ \/ net' = net \o Answer(q.req, t)
             \/ net' = (net \o Answer(q.req, t)) \o Answer(q.req, t)
          /\ Answer(q.req, t) \in Seq(Part) /\ net \o Answer(q.req, t) \in Seq(Part)
    BY Answered
  <1>3. Ids' = Ids
    BY <1>1, IdsKept
  <1>4. ASSUME ~Fault("wrongTid"), srv \subseteq Ids, Among(net, Ids)
        PROVE  srv' \subseteq Ids /\ Among(net', Ids)
    <2>1. q \in Ids /\ q \in Id /\ t = q.tid
      BY <1>2, <1>4 DEF Ids
    <2>2. Among(Answer(q.req, t), Ids)
      BY <2>1, AnswerAmong
    <2>3. Among(net \o Answer(q.req, t), Ids)
      BY <1>2, <1>4, <2>2, IdTypes, AmongJoined
    <2>4. Among((net \o Answer(q.req, t)) \o Answer(q.req, t), Ids)
      BY <1>2, <2>2, <2>3, AmongJoined
    <2> QED  BY <1>2, <1>4, <2>3, <2>4
  <1> QED  BY <1>1, <1>3, <1>4 DEF IdsOK, Fault

LEMMA IdsServer ==
  ASSUME TypedControl, IdsOK, Server  PROVE IdsOK'
  <1>1. CASE ServerAnswer
    BY <1>1, IdsAnswered
  <1>2. CASE ServerIgnore
    <2>1. UNCHANGED <<setup, pc, sess, loc, tid, numbered, tcpIn, net, stream>>
          /\ srv' \subseteq srv
      BY <1>2 DEF ServerIgnore
    <2>2. Ids' = Ids
      BY <2>1, IdsKept
    <2> QED  BY <2>1, <2>2 DEF IdsOK, Fault
  <1>3. CASE TcpArrive
    <2>1. /\ net # <<>> /\ net' = Tail(net) /\ tcpIn' = Append(tcpIn, Head(net))
          /\ UNCHANGED <<setup, pc, sess, loc, tid, numbered, srv, stream>>
      BY <1>3 DEF TcpArrive
    <2>2. Ids' = Ids
      BY <2>1, IdsKept
    <2>3. ASSUME Among(net, Ids), Among(tcpIn, Ids)  PROVE Among(net', Ids) /\ Among(tcpIn', Ids)
      <3>1. Among(Tail(net), Ids) /\ IdOf(Head(net)) \in Ids /\ Head(net) \in Part
        BY <2>1, <2>3, IdTypes, AmongTail, HeadTail
      <3>2. Among(Append(tcpIn, Head(net)), Ids)
        BY <2>3, <3>1, IdTypes, AmongAppend
      <3> QED  BY <2>1, <3>1, <3>2
    <2> QED  BY <2>1, <2>2, <2>3 DEF IdsOK, Fault
  <1>4. CASE ServerClose
    <2>1. /\ UNCHANGED <<setup, pc, sess, loc, tid, numbered, tcpIn>>
          /\ srv' = {} /\ net' = <<>>
          /\ stream'.reused = stream.reused /\ stream'.cut = stream.cut
          /\ stream'.half = stream.half
      BY <1>4, Closed
    <2>2. Ids' = Ids
      BY <2>1, IdsKept
    <2> QED  BY <2>1, <2>2, AmongNone DEF IdsOK, Fault
  <1> QED  BY <1>1, <1>2, <1>3, <1>4 DEF Server

LEMMA IdsSend ==
  ASSUME TypedControl, IdsOK, RtuSend  PROVE IdsOK'
  <1>1. CASE SendFlush
    <2>1. /\ pc = "flush" /\ pc' = "write"
          /\ UNCHANGED <<setup, sess, loc, tid, numbered, srv, net, tcpIn, stream>>
      BY <1>1 DEF SendFlush, serverVars
    <2>2. Ids' = Ids
      BY <2>1, IdsKept
    <2> QED  BY <2>1, <2>2 DEF IdsOK, Fault, Upstream
  <1>2. CASE SendWrite
    <2>1. pc' \notin Upstream /\ loc'.tcp = <<>> /\ stream' = stream
          /\ UNCHANGED <<setup, sess, tid, numbered, srv, net, tcpIn>>
      BY <1>2, AnswerSent, FreshLocals DEF Upstream
    <2> QED  BY <2>1, IdsAside
  <1>3. CASE SendDrain \/ SendError
    <2>1. pc' \notin Upstream /\ stream' = stream
          /\ UNCHANGED <<setup, sess, tid, numbered, srv, net, tcpIn>>
          /\ (loc' = loc \/ loc' = [Fresh EXCEPT !.err = RtuErr.Serial])
      BY <1>3 DEF SendDrain, SendError, Upstream, serverVars
    <2>2. loc'.tcp = loc.tcp \/ loc'.tcp = <<>>
      BY <2>1, FailedLocals, ErrorNames
    <2> QED  BY <2>1, <2>2, IdsAside
  <1> QED  BY <1>1, <1>2, <1>3 DEF RtuSend, SendFrame

LEMMA IdsNext ==
  ASSUME TypedControl, StreamInStep, IdsOK, [Next]_vars  PROVE IdsOK'
  <1>1. CASE UNCHANGED vars \/ Master \/ Line
    <2>1. UNCHANGED <<setup, pc, sess, tid, numbered, srv, net, tcpIn, loc, stream>>
      BY <1>1, Arrived DEF vars, serverVars, Master, MasterSend, MasterGiveUp
    <2> QED  BY <2>1, IdsUntouched
  <1>2. CASE Connect
    BY <1>2, IdsConnected
  <1>3. CASE CallNext \/ IntoStream
    <2>1. UNCHANGED <<setup, sess, tid, numbered, srv, net, tcpIn, stream>>
          /\ pc' \notin Upstream /\ loc'.tcp = <<>>
      BY <1>3, FreshLocals DEF CallNext, IntoStream, serverVars, Upstream
    <2> QED  BY <2>1, IdsAside
  <1>4. CASE ListenHeader \/ ListenBody
    BY <1>4, UnitRead, IdsAside DEF Upstream
  <1>5. CASE ListenLast /\ pc' # "failed"
    BY <1>5, IdsTaken
  <1>6. CASE ListenRetry
    <2>1. loc \in Locals /\ loc' = [loc EXCEPT !.attempt = @ + 1]
      BY <1>6 DEF TypedControl, TypeOK, ListenRetry
    <2>2. loc'.tcp = loc.tcp
      BY <2>1 DEF Locals
    <2>3. pc' \notin Upstream /\ UNCHANGED <<setup, sess, tid, numbered, srv, net, tcpIn, stream>>
      BY <1>6 DEF ListenRetry, Upstream, serverVars
    <2> QED  BY <2>2, <2>3, IdsAside
  <1>7. CASE TcpSend
    <2>1. /\ pc \in Upstream /\ pc' \in Upstream \ {"flush", "write"}
          /\ [req |-> loc.req, tid |-> loc.tid] \in Id
          /\ UNCHANGED <<setup, sess, loc, tid, numbered, net, tcpIn, stream>>
          /\ srv' \subseteq srv \cup {[req |-> loc.req, tid |-> loc.tid]}
      BY <1>7, RequestSent DEF Upstream, Id
    <2> QED  BY <2>1, IdsOnward
  <1>8. CASE TcpListenMore
    BY <1>8, IdsPartRead
  <1>9. CASE TcpListenLast
    BY <1>9, IdsAnswerRead
  <1>10. CASE RtuSend
    BY <1>10, IdsSend
  <1>11. CASE PollReady \/ PollSleep
    <2>1. /\ UNCHANGED <<setup, sess, tid, numbered, srv, net, tcpIn, stream>>
          /\ loc'.tcp = loc.tcp /\ loc'.req = loc.req /\ loc'.tid = loc.tid
          /\ \/ pc' \notin Upstream
             \/ pc \in Upstream /\ pc' \in Upstream \ {"flush", "write"}
      BY <1>11, Polled DEF Upstream
    <2>2. ASSUME pc \in Upstream  PROVE [req |-> loc.req, tid |-> loc.tid] \in Id
      BY <2>2, Sizes DEF TypedControl, ControlOK, TypeOK, Locals, Id
    <2> QED  BY <2>1, <2>2, IdsAside, IdsOnward
  <1>12. CASE Server
    BY <1>12, IdsServer
  <1>13. ASSUME NEW e \in Errors, FailStep(e)  PROVE IdsOK'
    BY <1>13, IdsErrors
  <1> QED  BY <1>1, <1>2, <1>3, <1>4, <1>5, <1>6, <1>7, <1>8, <1>9, <1>10, <1>11, <1>12,
              <1>13, Steps DEF Caller

-----------------------------------------------------------------------------
(* The answers delivered. *)

\* What has taken an id keeps its place.
LEMMA NumbersKept ==
  ASSUME TypedControl, [Next]_vars
  PROVE  /\ setup' = setup
         /\ \A m \in DOMAIN numbered : m \in DOMAIN numbered' /\ numbered'[m] = numbered[m]
         /\ (delivered' = delivered \/ SendWrite)
  <1>1. /\ numbered' = numbered \/ (ListenLast /\ pc' # "failed")
        /\ (delivered' = delivered \/ SendWrite)
        /\ setup' = setup
    <2>1. CASE UNCHANGED vars \/ Master \/ Line
      BY <2>1, Arrived DEF vars, Master, MasterSend, MasterGiveUp
    <2>2. CASE Caller \/ ListenRetry
      BY <2>2 DEF Caller, Connect, CallNext, IntoStream, ListenRetry
    <2>3. CASE ListenHeader \/ ListenBody \/ (ListenLast /\ pc' # "failed") \/ TcpSend
      BY <2>3, UnitRead, RequestRead, RequestSent
    <2>4. CASE TcpListenMore \/ TcpListenLast \/ PollReady \/ PollSleep
      BY <2>4, PartRead, AnswerRead, Polled
    <2>5. CASE RtuSend
      BY <2>5 DEF RtuSend, SendFrame, SendFlush, SendWrite, SendDrain, SendError
    <2>6. CASE Server
      BY <2>6 DEF Server, ServerAnswer, ServerIgnore, TcpArrive, ServerClose
    <2>7. ASSUME NEW e \in Errors, FailStep(e)
          PROVE  UNCHANGED <<setup, numbered, delivered>>
      BY <2>7 DEF FailStep, Fail
    <2> QED  BY <2>1, <2>2, <2>3, <2>4, <2>5, <2>6, <2>7, Steps
  <1>2. ASSUME ListenLast, pc' # "failed"
        PROVE  \A m \in DOMAIN numbered : m \in DOMAIN numbered' /\ numbered'[m] = numbered[m]
    <2> DEFINE e == [sess |-> sess, req |-> loc'.req]
    <2>1. numbered' = Append(numbered, e) /\ e \in Number /\ numbered \in Seq(Number)
      BY <1>2, RequestRead, IdTypes
    <2> HIDE DEF e
    <2> QED  BY ONLY <2>1
  <1> QED  BY <1>1, <1>2

\* An answer without a Warning, when it is sent.
LEMMA FlaggedSent ==
  ASSUME TypedControl, IdsOK, SendWrite, NEW d \in Delivery,
         d.sess = sess, d.req = loc.req, d.resp = loc.resp, d.warn = loc.warn,
         d.clean = (~stream.reused /\ ~stream.cut /\ ~stream.half),
         d.clean, ~d.warn, ~Fault("wrongTid"), d.resp # d.req
  PROVE  RoundApart(d)
  <1> DEFINE n == Len(numbered)
             x == [req |-> loc.resp, tid |-> tid]
  <1>1. pc = "write" /\ pc \in Upstream
    BY AnswerSent DEF Upstream
  <1>2. /\ x \in Ids /\ numbered # <<>> /\ numbered[n] = [sess |-> d.sess, req |-> d.req]
    BY <1>1 DEF IdsOK
  <1>3. x.req = d.resp /\ x.tid = tid
    OBVIOUS
  <1> HIDE DEF x
  <1>4. PICK p \in 1..n : /\ numbered[p] = [sess |-> d.sess, req |-> d.resp]
                          /\ Round(tid - tid - (n - p))
    BY <1>2, <1>3 DEF Ids
  <1>5. numbered \in Seq(Number) /\ n \in Nat /\ tid \in Int
    BY IdTypes
  <1>6. DOMAIN numbered = 1..n
    BY <1>5
  <1>7. p # n
    BY <1>2, <1>4
  <1> HIDE DEF n
  <1>8. p < n /\ n - p \in Nat /\ tid - tid - (n - p) = 0 - (n - p) /\ n \in 1..n
    BY <1>4, <1>5, <1>7
  <1>9. (n - p) % TidMod = 0
    BY <1>4, <1>8, RoundApartBy
  <1> QED  BY <1>2, <1>4, <1>6, <1>8, <1>9 DEF RoundApart

LEMMA FlaggedNext ==
  ASSUME TypedControl, IdsOK, AnswersFlagged, [Next]_vars  PROVE AnswersFlagged'
  <1>1. /\ setup' = setup
        /\ \A m \in DOMAIN numbered : m \in DOMAIN numbered' /\ numbered'[m] = numbered[m]
        /\ delivered' = delivered \/ SendWrite
    BY NumbersKept
  <1>2. \A d : RoundApart(d) => RoundApart(d)'
    BY <1>1 DEF RoundApart
  <1>3. Fault("wrongTid")' = Fault("wrongTid")
    BY <1>1 DEF Fault
  <1>4. CASE delivered' = delivered
    BY <1>2, <1>3, <1>4 DEF AnswersFlagged
  <1>5. CASE SendWrite
    <2>1. PICK d \in Delivery :
            /\ delivered' = Append(delivered, d)
            /\ d.sess = sess /\ d.req = loc.req /\ d.resp = loc.resp /\ d.warn = loc.warn
            /\ d.clean = (~stream.reused /\ ~stream.cut /\ ~stream.half)
      BY <1>5, AnswerSent
    <2>2. delivered \in Seq(Delivery)
      BY DEF TypedControl, TypeOK
    <2>3. \A i \in DOMAIN delivered' :
            \/ i \in DOMAIN delivered /\ delivered'[i] = delivered[i]
            \/ delivered'[i] = d
      <3>1. \A i \in DOMAIN Append(delivered, d) :
              \/ i \in DOMAIN delivered /\ Append(delivered, d)[i] = delivered[i]
              \/ Append(delivered, d)[i] = d
        BY ONLY <2>2, d \in Delivery
      <3> QED  BY <2>1, <3>1
    <2>4. d.clean /\ ~d.warn /\ ~Fault("wrongTid") => d.resp = d.req \/ RoundApart(d)
      BY <1>5, <2>1, FlaggedSent
    <2> QED  BY <1>2, <1>3, <2>3, <2>4 DEF AnswersFlagged
  <1> QED  BY <1>1, <1>4, <1>5

LEMMA AnswersInit == Init => AnswersInv
  <1> SUFFICES ASSUME Init  PROVE IdsOK /\ AnswersFlagged
    BY TypesInit, FramingInit DEF AnswersInv, FramingInv
  <1>1. /\ pc = "idle" /\ srv = {} /\ net = <<>> /\ tcpIn = <<>> /\ loc.tcp = <<>>
        /\ delivered = <<>>
    BY FreshLocals DEF Init
  <1> QED  BY <1>1, AmongNone DEF IdsOK, AnswersFlagged, Upstream

LEMMA AnswersNext == AnswersInv /\ [Next]_vars => AnswersInv'
  BY TypesNext, StreamNext, IdsNext, FlaggedNext DEF AnswersInv

(***************************************************************************)
(* A Transaction without a Warning carries the request's own answer as     *)
(* long as the server echoes ids, on a stream connected once and not cut   *)
(* by a deadline: unless it answers the request a whole round of the       *)
(* transaction counter before.                                             *)
(***************************************************************************)
THEOREM Flagged == Spec => []AnswersFlagged
  <1>1. AnswersInv => AnswersFlagged
    BY DEF AnswersInv
  <1> QED  BY <1>1, AnswersInit, AnswersNext, PTL DEF Spec

-----------------------------------------------------------------------------
(***************************************************************************)
(* The line: the units of requests still to be read are in the order in    *)
(* which the master sent them, noise or none between.                      *)
(***************************************************************************)
Precedes(u, v) == u.req < v.req \/ (u.req = v.req /\ u.ix < v.ix)

Sorted(q) ==
  \A i, j \in 1..Len(q) : i < j /\ q[i].req # 0 /\ q[j].req # 0 => Precedes(q[i], q[j])
Ahead(p, q) ==
  \A i \in 1..Len(p), j \in 1..Len(q) :
    p[i].req # 0 /\ q[j].req # 0 => Precedes(p[i], q[j])
UpTo(q, n) == \A i \in 1..Len(q) : q[i].req <= n

LineSorted == /\ Sorted(rx) /\ Sorted(wire) /\ Ahead(rx, wire)
              /\ UpTo(rx, sent) /\ UpTo(wire, sent)

\* Real units of r only.
Only(q, r) == \A i \in 1..Len(q) : q[i].req \in {0, r}

(***************************************************************************)
(* A patient master: what is still to be read is of the request it awaits, *)
(* and nothing is once the request is in hand.                             *)
(***************************************************************************)
LineMine ==
  ~Fault("impatient") =>
    /\ Only(rx, mcur) /\ Only(wire, mcur)
    /\ pc \in Upstream => mcur = loc.req /\ Only(rx, 0) /\ Only(wire, 0)

LEMMA TailLine ==
  ASSUME NEW q \in Seq(Unit), q # <<>>
  PROVE  /\ Head(q) \in Unit /\ Head(q) = q[1] /\ 1 \in 1..Len(q) /\ Tail(q) \in Seq(Unit)
         /\ \A i \in 1..Len(Tail(q)) :
              i + 1 \in 1..Len(q) /\ 1 < i + 1 /\ Tail(q)[i] = q[i + 1]
         /\ Sorted(q) => Sorted(Tail(q))
         /\ \A n : UpTo(q, n) => UpTo(Tail(q), n) /\ Head(q).req <= n
         /\ \A r : Only(q, r) => Only(Tail(q), r) /\ Head(q).req \in {0, r}
         /\ \A p : Ahead(p, q) => Ahead(p, Tail(q))
         /\ \A p : Ahead(q, p) => Ahead(Tail(q), p)
  <1> DEFINE t == Tail(q)
  <1>1. /\ Head(q) \in Unit /\ Head(q) = q[1] /\ t \in Seq(Unit) /\ 1 \in 1..Len(q)
        /\ \A i \in 1..Len(t) : i + 1 \in 1..Len(q) /\ 1 < i + 1 /\ t[i] = q[i + 1]
    <2>1. \A i \in 1..Len(t) : 1 < i + 1
      OBVIOUS
    <2> QED  BY <2>1, HeadTail
  <1> HIDE DEF t
  <1>2. ASSUME Sorted(q), NEW i \in 1..Len(t), NEW j \in 1..Len(t), i < j,
               t[i].req # 0, t[j].req # 0
        PROVE  Precedes(t[i], t[j])
    <2>1. i + 1 < j + 1 /\ i + 1 \in 1..Len(q) /\ j + 1 \in 1..Len(q)
      BY <1>1, <1>2
    <2>2. t[i] = q[i + 1] /\ t[j] = q[j + 1]
      BY <1>1
    <2> QED  BY <1>2, <2>1, <2>2 DEF Sorted
  <1>3. Sorted(q) => Sorted(t)
    BY <1>2 DEF Sorted
  <1>4. /\ \A n : UpTo(q, n) => UpTo(t, n) /\ Head(q).req <= n
        /\ \A r : Only(q, r) => Only(t, r) /\ Head(q).req \in {0, r}
    BY <1>1 DEF UpTo, Only
  <1>5. /\ \A p : Ahead(p, q) => Ahead(p, t)
        /\ \A p : Ahead(q, p) => Ahead(t, p)
    BY <1>1 DEF Ahead
  <1> QED  BY <1>1, <1>3, <1>4, <1>5 DEF t

LEMMA AppendLine ==
  ASSUME NEW q \in Seq(Unit), NEW u \in Unit
  PROVE  /\ Append(q, u) \in Seq(Unit)
         /\ Sorted(q) /\ (\A i \in 1..Len(q) : q[i].req # 0 /\ u.req # 0 => Precedes(q[i], u))
              => Sorted(Append(q, u))
         /\ \A n : UpTo(q, n) /\ u.req <= n => UpTo(Append(q, u), n)
         /\ \A r : Only(q, r) /\ u.req \in {0, r} => Only(Append(q, u), r)
         /\ \A p : /\ Ahead(q, p)
                   /\ \A j \in 1..Len(p) : u.req # 0 /\ p[j].req # 0 => Precedes(u, p[j])
                   => Ahead(Append(q, u), p)
  <1> DEFINE h == Append(q, u)
  <1>1. /\ h \in Seq(Unit) /\ Len(h) = Len(q) + 1 /\ Len(q) \in Nat /\ h[Len(q) + 1] = u
        /\ \A i \in 1..Len(q) : h[i] = q[i]
    BY AppendLast
  <1> HIDE DEF h
  <1>2. ASSUME NEW i \in 1..Len(h)  PROVE i \in 1..Len(q) \/ i = Len(q) + 1
    BY ONLY <1>1, <1>2
  <1>3. /\ \A n : UpTo(q, n) /\ u.req <= n => UpTo(h, n)
        /\ \A r : Only(q, r) /\ u.req \in {0, r} => Only(h, r)
    BY <1>1, <1>2 DEF UpTo, Only
  <1>4. \A p : /\ Ahead(q, p)
               /\ \A j \in 1..Len(p) : u.req # 0 /\ p[j].req # 0 => Precedes(u, p[j])
               => Ahead(h, p)
    BY <1>1, <1>2 DEF Ahead
  <1>5. ASSUME Sorted(q), \A i \in 1..Len(q) : q[i].req # 0 /\ u.req # 0 => Precedes(q[i], u)
        PROVE  Sorted(h)
    <2>1. ASSUME NEW i \in 1..Len(h), NEW j \in 1..Len(h), i < j, h[i].req # 0, h[j].req # 0
          PROVE  Precedes(h[i], h[j])
      <3>1. i \in 1..Len(q)
        BY ONLY <1>1, <2>1
      <3>2. CASE j \in 1..Len(q)
        BY <1>1, <1>5, <2>1, <3>1, <3>2 DEF Sorted
      <3>3. CASE j = Len(q) + 1
        BY <1>1, <1>5, <2>1, <3>1, <3>3
      <3> QED  BY <1>2, <3>2, <3>3
    <2> QED  BY <2>1 DEF Sorted
  <1> QED  BY <1>1, <1>3, <1>4, <1>5 DEF h

LEMMA NoiseAppended ==
  ASSUME NEW q \in Seq(Unit)
  PROVE  /\ Sorted(q) => Sorted(Append(q, Noise))
         /\ \A n \in Nat : UpTo(q, n) => UpTo(Append(q, Noise), n)
         /\ \A r : Only(q, r) => Only(Append(q, Noise), r)
         /\ \A p : Ahead(q, p) => Ahead(Append(q, Noise), p)
  <1>1. Noise \in Unit /\ Noise.req = 0
    BY NoiseUnit
  <1> QED  BY <1>1, AppendLine

\* The master's next request at the end of the line.
LEMMA FrameSorted ==
  ASSUME NEW q \in Seq(Unit), NEW n \in Nat, UpTo(q, n), n + 1 \in 1..MaxReq
  PROVE  /\ Sorted(q) => Sorted(q \o Frame(n + 1))
         /\ UpTo(q \o Frame(n + 1), n + 1)
         /\ Only(q, 0) => Only(q \o Frame(n + 1), n + 1)
         /\ \A p \in Seq(Unit) : UpTo(p, n) /\ Ahead(p, q) => Ahead(p, q \o Frame(n + 1))
  <1> DEFINE r == n + 1
             f == Frame(n + 1)
             h == q \o f
  <1>1. /\ f \in Seq(Unit) /\ Len(f) = ReqLen
        /\ \A i \in 1..ReqLen : f[i].req = r /\ f[i].ix = i
    BY FrameUnits
  <1>2. /\ Len(h) = Len(q) + Len(f) /\ Len(q) \in Nat /\ Len(f) \in Nat
        /\ \A i \in 1..Len(h) : h[i] = IF i <= Len(q) THEN q[i] ELSE f[i - Len(q)]
    BY <1>1, Joined
  <1>3. r \in Int /\ n < r
    OBVIOUS
  <1>4. \A s \in Seq(Unit) : \A i \in 1..Len(s) : s[i].req \in Int /\ s[i].ix \in Int
    <2>1. \A u \in Unit : u.req \in Int /\ u.ix \in Int
      BY Sizes DEF Unit
    <2> QED  BY <2>1, ElementIn
  <1> HIDE DEF h, f, r
  <1>5. ASSUME NEW i \in 1..Len(h)
        PROVE  \/ i \in 1..Len(q) /\ h[i] = q[i]
               \/ ~(i <= Len(q)) /\ h[i].req = r /\ h[i].ix = i - Len(q)
    <2>1. CASE i <= Len(q)
      BY <1>2, <2>1
    <2>2. CASE ~(i <= Len(q))
      <3>1. i - Len(q) \in 1..ReqLen /\ h[i] = f[i - Len(q)]
        BY <1>1, <1>2, <2>2
      <3> QED  BY <1>1, <2>2, <3>1
    <2> QED  BY <2>1, <2>2
  <1>6. UpTo(h, r)
    <2>1. ASSUME NEW i \in 1..Len(h)  PROVE h[i].req <= r
      <3>1. CASE i \in 1..Len(q) /\ h[i] = q[i]
        <4>1. q[i].req <= n /\ q[i].req \in Int
          BY <1>4, <3>1 DEF UpTo
        <4> QED  BY <1>3, <3>1, <4>1
      <3>2. CASE h[i].req = r
        BY <1>3, <3>2
      <3> QED  BY <1>5, <3>1, <3>2
    <2> QED  BY <2>1 DEF UpTo
  <1>7. ASSUME Only(q, 0)  PROVE Only(h, r)
    BY <1>5, <1>7 DEF Only
  <1>8. ASSUME Sorted(q)  PROVE Sorted(h)
    <2>1. ASSUME NEW i \in 1..Len(h), NEW j \in 1..Len(h), i < j, h[i].req # 0, h[j].req # 0
          PROVE  Precedes(h[i], h[j])
      <3>1. CASE i \in 1..Len(q) /\ h[i] = q[i] /\ j \in 1..Len(q) /\ h[j] = q[j]
        BY <1>8, <2>1, <3>1 DEF Sorted
      <3>2. CASE i \in 1..Len(q) /\ h[i] = q[i] /\ h[j].req = r
        <4>1. q[i].req <= n /\ q[i].req \in Int
          BY <1>4, <3>2 DEF UpTo
        <4> QED  BY <1>3, <3>2, <4>1 DEF Precedes
      <3>3. CASE ~(i <= Len(q)) /\ h[i].req = r /\ h[i].ix = i - Len(q)
        <4>1. ~(j <= Len(q))
          BY <1>2, <2>1, <3>3
        <4>2. h[j].req = r /\ h[j].ix = j - Len(q)
          BY <1>5, <4>1
        <4>3. i - Len(q) < j - Len(q)
          BY <1>2, <2>1
        <4> QED  BY <3>3, <4>2, <4>3 DEF Precedes
      <3> QED  BY <1>5, <3>1, <3>2, <3>3
    <2> QED  BY <2>1 DEF Sorted
  <1>9. ASSUME NEW p \in Seq(Unit), UpTo(p, n), Ahead(p, q)  PROVE Ahead(p, h)
    <2>1. ASSUME NEW i \in 1..Len(p), NEW j \in 1..Len(h), p[i].req # 0, h[j].req # 0
          PROVE  Precedes(p[i], h[j])
      <3>1. p[i].req <= n /\ p[i].req \in Int
        BY <1>4, <1>9 DEF UpTo
      <3>2. CASE j \in 1..Len(q) /\ h[j] = q[j]
        BY <1>9, <2>1, <3>2 DEF Ahead
      <3>3. CASE h[j].req = r
        BY <1>3, <3>1, <3>3 DEF Precedes
      <3> QED  BY <1>5, <3>2, <3>3
    <2> QED  BY <2>1 DEF Ahead
  <1> QED  BY <1>6, <1>7, <1>8, <1>9 DEF h, f, r

\* The first unit of the line goes to the UART.
LEMMA UnitMoved ==
  ASSUME NEW p \in Seq(Unit), NEW q \in Seq(Unit), q # <<>>,
         Sorted(p), Sorted(q), Ahead(p, q)
  PROVE  Sorted(Append(p, Head(q))) /\ Ahead(Append(p, Head(q)), Tail(q))
  <1> DEFINE u == Head(q)
  <1>1. /\ u \in Unit /\ u = q[1] /\ 1 \in 1..Len(q) /\ Ahead(p, Tail(q))
        /\ \A i \in 1..Len(Tail(q)) :
             i + 1 \in 1..Len(q) /\ 1 < i + 1 /\ Tail(q)[i] = q[i + 1]
    BY TailLine
  <1>2. \A i \in 1..Len(p) : p[i].req # 0 /\ u.req # 0 => Precedes(p[i], u)
    BY <1>1 DEF Ahead
  <1>3. \A j \in 1..Len(Tail(q)) : u.req # 0 /\ Tail(q)[j].req # 0 => Precedes(u, Tail(q)[j])
    BY <1>1 DEF Sorted
  <1> HIDE DEF u
  <1>4. Sorted(Append(p, u)) /\ Ahead(Append(p, u), Tail(q))
    BY <1>1, <1>2, <1>3, AppendLine
  <1> QED  BY <1>4 DEF u

LEMMA LineTypes ==
  ASSUME TypedControl
  PROVE  rx \in Seq(Unit) /\ wire \in Seq(Unit) /\ sent \in 0..MaxReq /\ mcur \in 0..sent
  BY DEF TypedControl, TypeOK

\* What a step does to the line.
LEMMA LineChange ==
  ASSUME TypedControl, [Next]_vars
  PROVE  \/ /\ UNCHANGED <<wire, sent>>
            /\ rx' = rx \/ (rx # <<>> /\ rx' = Tail(rx))
         \/ Line /\ UNCHANGED sent
         \/ MasterSend
  <1>1. CASE UNCHANGED vars \/ Caller \/ ListenRetry
    BY <1>1 DEF vars, lineVars, masterVars, Caller, Connect, CallNext, IntoStream, ListenRetry
  <1>2. CASE ListenHeader \/ ListenBody \/ (ListenLast /\ pc' # "failed")
    BY <1>2 DEF ListenHeader, ListenBody, ListenLast, ReadUnit, masterVars, Fail
  <1>3. CASE TcpSend \/ TcpListenMore \/ TcpListenLast
    BY <1>3 DEF TcpSend, TcpListenMore, TcpListenLast, lineVars, masterVars
  <1>4. CASE RtuSend
    BY <1>4 DEF RtuSend, SendFrame, SendFlush, SendWrite, SendDrain, SendError, lineVars,
                masterVars
  <1>5. CASE PollReady \/ PollSleep \/ MasterGiveUp \/ Server
    BY <1>5 DEF PollReady, PollSleep, MasterGiveUp, Server, ServerAnswer, ServerIgnore,
                TcpArrive, ServerClose, lineVars, masterVars
  <1>6. ASSUME Line  PROVE UNCHANGED sent
    BY <1>6 DEF Line, Arrive, Babble, masterVars
  <1>7. ASSUME NEW e \in Errors, FailStep(e)
        PROVE  UNCHANGED <<wire, sent>> /\ (rx' = rx \/ (rx # <<>> /\ rx' = Tail(rx)))
    BY <1>7 DEF FailStep, Fail, masterVars
  <1> QED  BY <1>1, <1>2, <1>3, <1>4, <1>5, <1>6, <1>7, Steps DEF Master

LEMMA LineSortedNext ==
  ASSUME TypedControl, LineSorted, [Next]_vars  PROVE LineSorted'
  <1>1. /\ rx \in Seq(Unit) /\ wire \in Seq(Unit) /\ sent \in Nat
        /\ Sorted(rx) /\ Sorted(wire) /\ Ahead(rx, wire) /\ UpTo(rx, sent) /\ UpTo(wire, sent)
    BY LineTypes, Sizes DEF LineSorted
  <1>2. CASE UNCHANGED <<wire, sent>> /\ (rx' = rx \/ (rx # <<>> /\ rx' = Tail(rx)))
    BY <1>1, <1>2, TailLine DEF LineSorted
  <1>3. CASE Line /\ UNCHANGED sent
    <2>1. CASE wire # <<>> /\ wire' = Tail(wire) /\ rx' = Append(rx, Head(wire))
      <3>1. Sorted(rx') /\ Ahead(rx', wire')
        BY <1>1, <2>1, UnitMoved
      <3>2. UpTo(rx', sent)
        <4>1. Head(wire) \in Unit /\ Head(wire).req <= sent
          BY <1>1, <2>1, TailLine
        <4> QED  BY <1>1, <2>1, <4>1, AppendLine
      <3>3. Sorted(wire') /\ UpTo(wire', sent)
        BY <1>1, <2>1, TailLine
      <3> QED  BY <1>3, <3>1, <3>2, <3>3 DEF LineSorted
    <2>2. CASE wire # <<>> /\ wire' = Tail(wire) /\ rx' \in {rx, Append(rx, Noise)}
      <3>1. Sorted(wire') /\ UpTo(wire', sent) /\ Ahead(rx, wire')
        BY <1>1, <2>2, TailLine
      <3> QED  BY <1>1, <1>3, <2>2, <3>1, NoiseAppended DEF LineSorted
    <2>3. CASE wire' = wire /\ rx' = Append(rx, Noise)
      BY <1>1, <1>3, <2>3, NoiseAppended DEF LineSorted
    <2> QED  BY <1>3, <2>1, <2>2, <2>3, Arrived
  <1>4. CASE MasterSend
    <2>1. /\ sent' = sent + 1 /\ sent + 1 \in 1..MaxReq /\ rx' = rx
          /\ wire' = wire \o Frame(sent + 1)
      BY <1>4, RequestMade DEF MasterSend
    <2>2. UpTo(rx, sent + 1)
      <3>1. \A i \in 1..Len(rx) : rx[i].req \in Int
        <4>1. \A u \in Unit : u.req \in Int
          BY Sizes DEF Unit
        <4> QED  BY <1>1, <4>1, ElementIn
      <3> QED  BY <1>1, <3>1 DEF UpTo
    <2>3. Sorted(wire') /\ UpTo(wire', sent') /\ Ahead(rx', wire')
      BY <1>1, <2>1, FrameSorted
    <2> QED  BY <1>1, <2>1, <2>2, <2>3 DEF LineSorted
  <1> QED  BY <1>2, <1>3, <1>4, LineChange

\* Once the last unit of a request is read, only later requests are left.
LEMMA RequestGone ==
  ASSUME TypedControl, LineSorted, ListenLast, pc' # "failed"
  PROVE  /\ rx # <<>> /\ Head(rx).req = loc'.req
         /\ \A i \in 1..Len(Tail(rx)) : Tail(rx)[i].req # 0 => loc'.req < Tail(rx)[i].req
         /\ \A i \in 1..Len(wire) : wire[i].req # 0 => loc'.req < wire[i].req
  <1>1. rx # <<>> /\ rx' = Tail(rx) /\ loc'.req \in 1..MaxReq /\ Got = Frame(loc'.req)
    BY RequestRead
  <1>2. rx \in Seq(Unit) /\ wire \in Seq(Unit) /\ loc.got \in Seq(Unit)
    BY LineTypes DEF TypedControl, TypeOK, Locals
  <1> DEFINE u == Head(rx)
             r == loc'.req
  <1>3. /\ u \in Unit /\ u = rx[1] /\ 1 \in 1..Len(rx) /\ Tail(rx) \in Seq(Unit)
        /\ \A i \in 1..Len(Tail(rx)) :
             i + 1 \in 1..Len(rx) /\ 1 < i + 1 /\ Tail(rx)[i] = rx[i + 1]
    BY <1>1, <1>2, TailLine
  <1>4. u.req = r /\ u.ix = ReqLen
    <2> DEFINE n == Len(loc.got) + 1
               f == Frame(r)
    <2>1. f = Append(loc.got, u)
      BY <1>1 DEF Got
    <2>2. Len(f) = ReqLen /\ (\A i \in 1..ReqLen : f[i].req = r /\ f[i].ix = i)
      BY <1>1, FrameUnits
    <2> HIDE DEF u, f
    <2>3. Len(f) = n /\ f[n] = u /\ n \in 1..n
      BY ONLY <1>2, <1>3, <2>1, AppendLast
    <2> HIDE DEF n
    <2> QED  BY ONLY <2>2, <2>3
  <1>5. ASSUME NEW v \in Unit, Precedes(u, v)  PROVE r < v.req
    <2>1. v.ix \in 0..ReqLen
      BY DEF Unit
    <2>2. ~(ReqLen < v.ix)
      BY <2>1, Sizes
    <2> QED  BY <1>4, <1>5, <2>2 DEF Precedes
  <1>6. u.req # 0
    BY <1>1, <1>4
  <1> HIDE DEF r
  <1>7. ASSUME NEW i \in 1..Len(Tail(rx)), Tail(rx)[i].req # 0  PROVE r < Tail(rx)[i].req
    <2>1. Tail(rx)[i] \in Unit
      BY <1>3, ElementIn
    <2>2. Precedes(u, Tail(rx)[i])
      BY <1>3, <1>6, <1>7 DEF LineSorted, Sorted
    <2> QED  BY <1>5, <2>1, <2>2
  <1>8. ASSUME NEW i \in 1..Len(wire), wire[i].req # 0  PROVE r < wire[i].req
    <2>1. wire[i] \in Unit
      BY <1>2, ElementIn
    <2>2. Precedes(u, wire[i])
      BY <1>3, <1>6, <1>8 DEF LineSorted, Ahead
    <2> QED  BY <1>5, <2>1, <2>2
  <1> QED  BY <1>1, <1>4, <1>7, <1>8 DEF r

LEMMA OnlyMore == \A q, r : Only(q, 0) => Only(q, r)
  BY DEF Only

\* A step that leaves the line and the master alone.
LEMMA LineAside ==
  ASSUME LineMine, UNCHANGED <<setup, rx, wire, mcur>>,
         pc' \notin Upstream \/ (pc \in Upstream /\ loc'.req = loc.req)
  PROVE  LineMine'
  BY DEF LineMine, Fault

\* A step of the call that takes a unit of an unfinished request.
LEMMA LineUnitRead ==
  ASSUME TypedControl, LineMine, UNCHANGED <<setup, wire, mcur>>,
         rx # <<>>, rx' = Tail(rx), pc' \notin Upstream
  PROVE  LineMine'
  BY LineTypes, TailLine DEF LineMine, Fault

\* The request read is the only one on the line: the master's.
LEMMA LineRequestRead ==
  ASSUME TypedControl, LineSorted, LineMine, ListenLast, pc' # "failed"  PROVE LineMine'
  <1> SUFFICES ASSUME ~Fault("impatient")
               PROVE  mcur' = loc'.req /\ Only(rx', 0) /\ Only(wire', 0)
    <2>1. setup' = setup
      BY RequestRead
    <2> QED  BY <2>1, OnlyMore DEF LineMine, Fault
  <1>1. /\ rx' = Tail(rx) /\ UNCHANGED <<mcur, wire>> /\ loc'.req \in 1..MaxReq
    BY RequestRead
  <1>2. /\ rx # <<>> /\ Head(rx).req = loc'.req
        /\ \A i \in 1..Len(Tail(rx)) : Tail(rx)[i].req # 0 => loc'.req < Tail(rx)[i].req
        /\ \A i \in 1..Len(wire) : wire[i].req # 0 => loc'.req < wire[i].req
    BY RequestGone
  <1>3. Only(rx, mcur) /\ Only(wire, mcur) /\ rx \in Seq(Unit)
    BY LineTypes DEF LineMine
  <1>4. Only(Tail(rx), mcur) /\ Head(rx).req \in {0, mcur}
    BY <1>2, <1>3, TailLine
  <1>5. mcur = loc'.req /\ loc'.req # 0 /\ ~(mcur < mcur)
    BY <1>1, <1>2, <1>4, LineTypes
  <1>6. Only(Tail(rx), 0) /\ Only(wire, 0)
    BY <1>2, <1>3, <1>4, <1>5 DEF Only
  <1> QED  BY <1>1, <1>5, <1>6

LEMMA LineMasterSteps ==
  ASSUME TypedControl, LineSorted, LineMine, Master  PROVE LineMine'
  <1>1. setup' = setup /\ pc' = pc /\ loc' = loc
    BY DEF Master, MasterSend, MasterGiveUp
  <1> SUFFICES ASSUME ~Fault("impatient")
               PROVE  Only(rx', mcur') /\ Only(wire', mcur') /\ pc \notin Upstream
    BY <1>1 DEF LineMine, Fault
  <1>2. CASE MasterSend
    <2>1. /\ mcur = 0 /\ mcur' = sent + 1 /\ sent + 1 \in 1..MaxReq /\ sent \in Nat
          /\ wire' = wire \o Frame(sent + 1) /\ rx' = rx
      BY <1>2, RequestMade, LineTypes DEF MasterSend
    <2>2. Only(rx, 0) /\ Only(wire, 0)
      BY <2>1 DEF LineMine
    <2>3. Only(wire', mcur')
      BY <2>1, <2>2, LineTypes, FrameSorted DEF LineSorted
    <2>4. pc \notin Upstream
      BY <2>1 DEF LineMine, TypedControl, ControlOK
    <2> QED  BY <2>1, <2>2, <2>3, <2>4, OnlyMore
  <1>3. CASE MasterGiveUp
    <2>1. wire = <<>> /\ rx = <<>> /\ ~Serving /\ wire' = wire /\ rx' = rx
      BY <1>3 DEF MasterGiveUp, lineVars
    <2>2. pc \notin Upstream
      BY <2>1 DEF Serving, Upstream
    <2> QED  BY <2>1, <2>2 DEF Only
  <1> QED  BY <1>2, <1>3 DEF Master

\* A line brings no other request, whatever it does to this one.
LEMMA LineSteps ==
  ASSUME TypedControl, LineMine, Line  PROVE LineMine'
  <1>1. UNCHANGED <<setup, pc, loc, mcur>>
    BY Arrived
  <1>2. rx \in Seq(Unit) /\ wire \in Seq(Unit)
    BY LineTypes
  <1>3. ASSUME NEW r, Only(rx, r), Only(wire, r)  PROVE Only(rx', r) /\ Only(wire', r)
    <2>1. CASE wire # <<>> /\ wire' = Tail(wire) /\ rx' = Append(rx, Head(wire))
      <3>1. Head(wire) \in Unit /\ Head(wire).req \in {0, r} /\ Only(Tail(wire), r)
        BY <1>2, <1>3, <2>1, TailLine
      <3> QED  BY <1>2, <1>3, <2>1, <3>1, AppendLine
    <2>2. CASE wire # <<>> /\ wire' = Tail(wire) /\ rx' \in {rx, Append(rx, Noise)}
      <3>1. Only(wire', r)
        BY <1>2, <1>3, <2>2, TailLine
      <3>2. Only(Append(rx, Noise), r)
        BY <1>2, <1>3, NoiseAppended
      <3> QED  BY <1>3, <2>2, <3>1, <3>2
    <2>3. CASE wire' = wire /\ rx' = Append(rx, Noise)
      BY <1>2, <1>3, <2>3, NoiseAppended
    <2> QED  BY <2>1, <2>2, <2>3, Arrived
  <1> QED  BY <1>1, <1>3 DEF LineMine, Fault

-----------------------------------------------------------------------------
(***************************************************************************)
(* End to end, the stream: a caller that connects anew after every error   *)
(* has no answer under way but that of the request in hand, and one at     *)
(* most if the server answers no request twice.                            *)
(***************************************************************************)
AnswersOf(q, r) == \A i \in 1..Len(q) : q[i].req = r

Awaiting == {"tcpPoll", "tcpListen"}

OneAnswer ==
  /\ AnswersOf(loc.tcp, loc.req) /\ AnswersOf(tcpIn, loc.req) /\ AnswersOf(net, loc.req)
  /\ \/ srv = {} /\ Len(loc.tcp) + Len(tcpIn) + Len(net) <= 2
     \/ /\ srv = {[req |-> loc.req, tid |-> loc.tid]}
        /\ loc.tcp = <<>> /\ tcpIn = <<>> /\ net = <<>>

Alone == setup.caller = "fresh" /\ ~Fault("repeat")

StreamMine ==
  Alone =>
    /\ pc \notin {"idle", "failed"} =>
         /\ ~stream.cut /\ ~stream.half
         /\ IF pc \in Awaiting THEN OneAnswer ELSE srv = {} /\ net = <<>> /\ tcpIn = <<>>
    /\ pc \in {"flush", "write"} => loc.resp = loc.req

LEMMA MineTail ==
  ASSUME NEW q \in Seq(Part), q # <<>>, NEW r, AnswersOf(q, r)
  PROVE  AnswersOf(Tail(q), r) /\ Head(q).req = r
  <1>1. 1 \in 1..Len(q)
    BY HeadTail
  <1> QED  BY <1>1, HeadTail DEF AnswersOf

LEMMA MineAppend ==
  ASSUME NEW q \in Seq(Part), NEW r, AnswersOf(q, r), NEW p \in Part, p.req = r
  PROVE  AnswersOf(Append(q, p), r) /\ Append(q, p)[1].req = r
  <1> DEFINE h == Append(q, p)
  <1>1. /\ Len(h) = Len(q) + 1 /\ Len(q) \in Nat /\ h[Len(q) + 1] = p
        /\ \A i \in 1..Len(q) : h[i] = q[i]
    BY AppendLast
  <1> HIDE DEF h
  <1>2. ASSUME NEW i \in 1..Len(h)  PROVE h[i].req = r
    <2>1. i \in 1..Len(q) \/ i = Len(q) + 1
      BY ONLY <1>1, i \in 1..Len(h)
    <2> QED  BY <1>1, <2>1 DEF AnswersOf
  <1>3. 1 \in 1..Len(h)
    BY <1>1
  <1> QED  BY <1>2, <1>3 DEF AnswersOf, h

LEMMA MineLengths ==
  ASSUME TypedControl
  PROVE  /\ Len(loc.tcp) \in Nat /\ Len(tcpIn) \in Nat /\ Len(net) \in Nat
         /\ loc.tcp = <<>> => Len(loc.tcp) = 0
         /\ tcpIn = <<>> <=> Len(tcpIn) = 0
         /\ net = <<>> <=> Len(net) = 0
  <1>1. \A s \in Seq(Part) : Len(s) \in Nat /\ (s = <<>> <=> Len(s) = 0)
    OBVIOUS
  <1> QED  BY <1>1, StreamTypes

LEMMA MineNone == \A r : AnswersOf(<<>>, r)
  BY DEF AnswersOf

\* A step between two places at which no answer is awaited.
LEMMA MineBetween ==
  ASSUME StreamMine, UNCHANGED <<setup, srv, net, tcpIn, stream>>,
         pc \notin {"idle", "failed"} \cup Awaiting,
         pc' \notin Awaiting,
         pc' \in {"flush", "write"} => pc \in {"flush", "write"} /\ loc' = loc
  PROVE  StreamMine'
  BY DEF StreamMine, Alone, Fault

\* A step while the answer is awaited.
LEMMA MineWaiting ==
  ASSUME StreamMine, setup' = setup, pc \in Awaiting, pc' \in Awaiting,
         stream'.cut = stream.cut, stream'.half = stream.half,
         Alone /\ OneAnswer => OneAnswer'
  PROVE  StreamMine'
  BY DEF StreamMine, Alone, Fault, Awaiting

LEMMA MineSent ==
  ASSUME TypedControl, StreamMine, TcpSend  PROVE StreamMine'
  <1>1. /\ pc = "tcpSend" /\ pc' \in Awaiting
        /\ UNCHANGED <<setup, loc, net, tcpIn, stream>>
        /\ srv' = srv \/ srv' = srv \cup {[req |-> loc.req, tid |-> loc.tid]}
    BY RequestSent DEF Awaiting
  <1>2. loc.tcp = <<>>
    BY <1>1 DEF TypedControl, ControlOK
  <1>3. ASSUME Alone  PROVE OneAnswer' /\ ~stream.cut /\ ~stream.half
    <2>1. ~stream.cut /\ ~stream.half /\ srv = {} /\ net = <<>> /\ tcpIn = <<>>
      BY <1>1, <1>3 DEF StreamMine, Awaiting
    <2>2. srv' = {} \/ srv' = {[req |-> loc.req, tid |-> loc.tid]}
      BY <1>1, <2>1
    <2>3. Len(<<>>) = 0
      OBVIOUS
    <2> QED  BY <1>1, <1>2, <2>1, <2>2, <2>3, MineNone DEF OneAnswer
  <1> QED  BY <1>1, <1>3 DEF StreamMine, Alone, Fault, Awaiting

\* What is read while an answer is awaited.
LEMMA MineRead ==
  ASSUME TypedControl, ReadPart, OneAnswer
  PROVE  /\ srv = {} /\ Len(loc.tcp) + Len(tcpIn) + Len(net) <= 2
         /\ AnswersOf(Parts, loc.req) /\ Parts[1].req = loc.req
         /\ AnswersOf(tcpIn', loc.req) /\ AnswersOf(net, loc.req)
         /\ Len(Parts) + Len(tcpIn') + Len(net) <= 2
         /\ Len(tcpIn) >= 1 /\ Len(tcpIn') = Len(tcpIn) - 1
  <1>1. tcpIn # <<>> /\ tcpIn' = Tail(tcpIn)
    BY DEF ReadPart
  <1>2. /\ Head(tcpIn) \in Part /\ Len(Tail(tcpIn)) = Len(tcpIn) - 1
        /\ Len(tcpIn) \in Nat /\ Len(tcpIn) > 0
    BY <1>1, StreamTypes, HeadTail
  <1>3. AnswersOf(Tail(tcpIn), loc.req) /\ Head(tcpIn).req = loc.req
    BY <1>1, StreamTypes, MineTail DEF OneAnswer
  <1>4. AnswersOf(Parts, loc.req) /\ Parts[1].req = loc.req
    BY <1>2, <1>3, StreamTypes, MineAppend DEF OneAnswer, Parts
  <1>5. Len(Parts) = Len(loc.tcp) + 1
    BY PartsTyped
  <1>6. srv = {} /\ Len(loc.tcp) + Len(tcpIn) + Len(net) <= 2
    BY <1>1 DEF OneAnswer
  <1> QED  BY <1>1, <1>2, <1>3, <1>4, <1>5, <1>6, MineLengths DEF OneAnswer

LEMMA MinePartRead ==
  ASSUME TypedControl, StreamMine, TcpListenMore  PROVE StreamMine'
  <1>1. /\ ReadPart /\ pc = "tcpListen" /\ pc' = "tcpListen" /\ loc'.tcp = Parts
        /\ UNCHANGED <<setup, srv, net, stream>> /\ loc'.req = loc.req
    BY PartRead, PartsTyped DEF TcpListenMore
  <1>2. OneAnswer => OneAnswer'
    BY <1>1, MineRead DEF OneAnswer
  <1> QED  BY <1>1, <1>2, MineWaiting DEF Awaiting

\* The whole answer is read: no part of it, and no other answer, is left.
LEMMA MineAnswerRead ==
  ASSUME TypedControl, StreamInStep, StreamMine, TcpListenLast  PROVE StreamMine'
  <1>1. /\ ReadPart /\ pc = "tcpListen" /\ pc' = "flush" /\ loc.tcp # <<>>
        /\ UNCHANGED <<setup, srv, net, stream>> /\ loc'.req = loc.req
    BY AnswerRead, PartsTyped
  <1>2. ASSUME Alone
        PROVE  /\ ~stream.cut /\ ~stream.half /\ srv = {} /\ net = <<>> /\ tcpIn' = <<>>
               /\ loc'.resp = loc.req
    <2>1. ~stream.cut /\ ~stream.half /\ OneAnswer
      BY <1>1, <1>2 DEF StreamMine, Awaiting
    <2>2. /\ srv = {} /\ Len(loc.tcp) + Len(tcpIn) + Len(net) <= 2
          /\ Len(tcpIn) >= 1 /\ Len(tcpIn') = Len(tcpIn) - 1 /\ Parts[1].req = loc.req
      BY <1>1, <2>1, MineRead
    <2>3. Len(loc.tcp) >= 1
      <3>1. \A s \in Seq(Part) : s # <<>> => Len(s) >= 1
        OBVIOUS
      <3> QED  BY <1>1, <3>1, StreamTypes
    <2>4. Len(net) = 0 /\ Len(tcpIn') = 0
      BY <2>2, <2>3, MineLengths
    <2>5. net = <<>> /\ tcpIn' = <<>>
      <3>1. tcpIn' \in Seq(Part)
        BY <1>1, PartsTyped
      <3>2. \A s \in Seq(Part) : Len(s) = 0 => s = <<>>
        OBVIOUS
      <3> QED  BY <2>4, <3>1, <3>2, MineLengths
    <2>6. InStep
      BY <1>1, <2>1, PartInStep
    <2> QED  BY <2>1, <2>2, <2>5, <2>6, AnswerRead
  <1> QED  BY <1>1, <1>2 DEF StreamMine, Alone, Fault, Awaiting

LEMMA MineServer ==
  ASSUME TypedControl, StreamMine, Server  PROVE StreamMine'
  <1>1. UNCHANGED <<setup, pc, loc>> /\ stream'.cut = stream.cut /\ stream'.half = stream.half
    BY Closed DEF Server, ServerAnswer, ServerIgnore, TcpArrive
  <1>2. CASE pc \in Awaiting
    <2>1. ASSUME ServerAnswer, Alone, OneAnswer  PROVE OneAnswer'
      <3>1. PICK q \in srv, t \in Tids :
              /\ q.req \in 1..MaxReq /\ srv' = srv \ {q} /\ tcpIn' = tcpIn
              /\ net' = net \o Answer(q.req, t)
        BY <2>1, Answered DEF Alone
      <3>2. /\ q = [req |-> loc.req, tid |-> loc.tid] /\ srv' = {}
            /\ loc.tcp = <<>> /\ tcpIn = <<>> /\ net = <<>>
        BY <2>1, <3>1 DEF OneAnswer
      <3> DEFINE a == Answer(q.req, t)
      <3>3. /\ a \in Seq(Part) /\ Len(a) = 2 /\ \A i \in 1..2 : a[i].req = q.req
        BY <3>1, AnswerParts
      <3>4. AnswersOf(a, loc.req)
        BY <3>2, <3>3 DEF AnswersOf
      <3> HIDE DEF a
      <3>5. net' = a
        <4>1. net' = net \o a
          BY <3>1 DEF a
        <4> QED  BY <3>2, <3>3, <4>1, ConcatEmptySeq
      <3>6. Len(loc'.tcp) + Len(tcpIn') + Len(net') <= 2
        <4>1. Len(loc'.tcp) = 0 /\ Len(tcpIn') = 0
          BY <1>1, <3>1, <3>2, MineLengths
        <4>2. Len(net') = 2
          BY <3>3, <3>5
        <4> QED  BY ONLY <4>1, <4>2
      <3>7. /\ AnswersOf(loc'.tcp, loc'.req) /\ AnswersOf(tcpIn', loc'.req)
            /\ AnswersOf(net', loc'.req)
        BY <1>1, <3>1, <3>2, <3>4, <3>5, MineNone
      <3> QED  BY <3>2, <3>6, <3>7 DEF OneAnswer
    <2>2. ASSUME ServerIgnore, OneAnswer  PROVE OneAnswer'
      <3>1. PICK q \in srv : srv' = srv \ {q}
        BY <2>2 DEF ServerIgnore
      <3>2. srv' = {} /\ loc.tcp = <<>> /\ tcpIn = <<>> /\ net = <<>>
            /\ UNCHANGED <<tcpIn, net>>
        BY <2>2, <3>1 DEF OneAnswer, ServerIgnore
      <3>3. Len(<<>>) = 0
        OBVIOUS
      <3> QED  BY <1>1, <3>2, <3>3, MineNone DEF OneAnswer
    <2>3. ASSUME TcpArrive, OneAnswer  PROVE OneAnswer'
      <3>1. net # <<>> /\ net' = Tail(net) /\ tcpIn' = Append(tcpIn, Head(net)) /\ srv' = srv
        BY <2>3 DEF TcpArrive
      <3>2. Head(net) \in Part /\ Len(Tail(net)) = Len(net) - 1
        BY <3>1, StreamTypes, HeadTail
      <3>3. AnswersOf(Tail(net), loc.req) /\ Head(net).req = loc.req
        BY <2>3, <3>1, StreamTypes, MineTail DEF OneAnswer
      <3>4. AnswersOf(Append(tcpIn, Head(net)), loc.req)
        BY <2>3, <3>2, <3>3, StreamTypes, MineAppend DEF OneAnswer
      <3>5. Len(Append(tcpIn, Head(net))) = Len(tcpIn) + 1
        BY <3>2, StreamTypes, AppendLast
      <3>6. srv = {} /\ Len(loc.tcp) + Len(tcpIn) + Len(net) <= 2
        BY <2>3, <3>1 DEF OneAnswer
      <3>7. Len(loc.tcp) + Len(tcpIn') + Len(net') <= 2
        <4> DEFINE a == Len(loc.tcp)
                   b == Len(tcpIn)
                   c == Len(net)
        <4>1. Len(tcpIn') = b + 1 /\ Len(net') = c - 1
          BY <3>1, <3>2, <3>5
        <4>2. a \in Nat /\ b \in Nat /\ c \in Nat /\ a + b + c <= 2
          BY <3>6, MineLengths
        <4> HIDE DEF a, b, c
        <4>3. a + (b + 1) + (c - 1) <= 2
          BY ONLY <4>2
        <4>4. a + Len(tcpIn') + Len(net') <= 2
          BY ONLY <4>1, <4>3
        <4> QED  BY <4>4 DEF a
      <3> QED  BY <1>1, <2>3, <3>1, <3>3, <3>4, <3>6, <3>7 DEF OneAnswer
    <2>4. ASSUME ServerClose, OneAnswer  PROVE OneAnswer'
      <3>1. srv' = {} /\ net' = <<>> /\ tcpIn' = tcpIn
        BY <2>4, Closed
      <3>2. Len(loc.tcp) + Len(tcpIn) + 0 <= 2
        BY <2>4, MineLengths DEF OneAnswer
      <3>3. Len(net') = 0
        BY <3>1
      <3> QED  BY <1>1, <2>4, <3>1, <3>2, <3>3, MineNone DEF OneAnswer
    <2> QED  BY <1>1, <1>2, <2>1, <2>2, <2>3, <2>4, MineWaiting DEF Server
  <1>3. CASE pc \notin Awaiting
    <2>1. srv = {} /\ net = <<>> /\ tcpIn = <<>> => UNCHANGED tcpIn /\ srv' = {} /\ net' = <<>>
      BY Closed DEF Server, ServerAnswer, ServerIgnore, TcpArrive
    <2> QED  BY <1>1, <1>3, <2>1 DEF StreamMine, Alone, Fault
  <1> QED  BY <1>2, <1>3

LEMMA MineNext ==
  ASSUME TypedControl, StreamInStep, StreamMine, [Next]_vars  PROVE StreamMine'
  <1>1. CASE UNCHANGED vars \/ Master \/ Line
    <2>1. UNCHANGED <<setup, pc, loc, srv, net, tcpIn, stream>>
      BY <1>1, Arrived DEF vars, serverVars, Master, MasterSend, MasterGiveUp
    <2> QED  BY <2>1 DEF StreamMine, Alone, Fault, OneAnswer
  <1>2. CASE Connect
    <2>1. setup' = setup /\ pc' = "ready"
          /\ \/ setup.caller = "reuse"
             \/ stream' = FreshStream /\ srv' = {} /\ net' = <<>> /\ tcpIn' = <<>>
      BY <1>2 DEF Connect
    <2> QED  BY <2>1 DEF StreamMine, Alone, Fault, FreshStream, Awaiting
  <1>3. CASE CallNext
    <2>1. /\ pc = "ready" \/ setup.caller = "resume"
          /\ pc' \in {"rtuPoll", "rtuListen"}
          /\ UNCHANGED <<setup, srv, net, tcpIn, stream>>
      BY <1>3 DEF CallNext, serverVars
    <2> QED  BY <2>1 DEF StreamMine, Alone, Fault, Awaiting
  <1>4. CASE IntoStream
    BY <1>4 DEF IntoStream, StreamMine
  <1>5. CASE ListenHeader \/ ListenBody \/ (ListenLast /\ pc' # "failed")
    BY <1>5, UnitRead, RequestRead, MineBetween DEF Awaiting
  <1>6. CASE ListenRetry
    BY <1>6, MineBetween DEF ListenRetry, Awaiting, serverVars
  <1>7. CASE TcpSend
    BY <1>7, MineSent
  <1>8. CASE TcpListenMore
    BY <1>8, MinePartRead
  <1>9. CASE TcpListenLast
    BY <1>9, MineAnswerRead
  <1>10. CASE SendFrame
    BY <1>10, MineBetween DEF SendFrame, SendFlush, SendWrite, SendDrain, Awaiting, serverVars
  <1>11. CASE pc' = "failed"
    BY <1>11 DEF StreamMine
  <1>12. CASE PollReady \/ PollSleep
    <2>1. /\ UNCHANGED <<setup, srv, net, tcpIn, stream>>
          /\ loc'.tcp = loc.tcp /\ loc'.req = loc.req /\ loc'.tid = loc.tid
          /\ \/ pc = "rtuPoll" /\ pc' \in {"rtuPoll", "rtuListen"}
             \/ pc \in Awaiting /\ pc' \in Awaiting
      BY <1>12, Polled DEF Awaiting
    <2>2. OneAnswer => OneAnswer'
      BY <2>1 DEF OneAnswer
    <2> QED  BY <2>1, <2>2, MineBetween, MineWaiting DEF Awaiting
  <1>13. CASE Server
    BY <1>13, MineServer
  <1>14. (SendError \/ \E e \in Errors : FailStep(e)) => pc' = "failed"
    BY DEF SendError, FailStep, Fail
  <1> QED  BY <1>1, <1>2, <1>3, <1>4, <1>5, <1>6, <1>7, <1>8, <1>9, <1>10, <1>11, <1>12,
              <1>13, <1>14, Steps DEF Caller, RtuSend

(***************************************************************************)
(* The two together: the request a patient master waits for is the one in  *)
(* hand, and the answer under way is that request's.                       *)
(***************************************************************************)
EndInv == /\ TypedControl /\ StreamInStep /\ LineSorted /\ LineMine /\ StreamMine
          /\ EndToEnd

LEMMA EndInit == Init => EndInv
  <1> SUFFICES ASSUME Init  PROVE LineSorted /\ LineMine /\ StreamMine /\ EndToEnd
    BY TypesInit, FramingInit DEF EndInv, FramingInv
  <1>1. pc = "idle" /\ rx = <<>> /\ wire = <<>> /\ delivered = <<>>
    BY DEF Init
  <1> QED  BY <1>1 DEF LineSorted, LineMine, StreamMine, EndToEnd, Sorted, Ahead, UpTo, Only,
                  Upstream

LEMMA LineMineNext ==
  ASSUME TypedControl, LineSorted, LineMine, [Next]_vars  PROVE LineMine'
  <1>1. CASE UNCHANGED vars
    BY <1>1 DEF LineMine, Fault, vars, lineVars, masterVars
  <1>2. CASE Caller \/ ListenRetry
    <2>1. UNCHANGED <<setup, rx, wire, mcur>> /\ pc' \notin Upstream
      BY <1>2 DEF Caller, Connect, CallNext, IntoStream, ListenRetry, lineVars, masterVars,
                  Upstream
    <2> QED  BY <2>1, LineAside
  <1>3. CASE ListenHeader \/ ListenBody
    BY <1>3, UnitRead, LineUnitRead DEF Upstream
  <1>4. CASE ListenLast /\ pc' # "failed"
    BY <1>4, LineRequestRead
  <1>5. CASE TcpSend \/ TcpListenMore \/ TcpListenLast
    <2>1. UNCHANGED <<setup, rx, wire, mcur>> /\ pc \in Upstream /\ loc'.req = loc.req
      BY <1>5, RequestSent, PartRead, AnswerRead, PartsTyped DEF Upstream, TcpListenMore
    <2> QED  BY <2>1, LineAside
  <1>6. CASE SendFlush \/ SendDrain \/ SendError
    <2>1. UNCHANGED <<setup, rx, wire, mcur>>
          /\ (pc' \notin Upstream \/ (pc \in Upstream /\ loc' = loc))
      BY <1>6 DEF SendFlush, SendDrain, SendError, lineVars, masterVars, Upstream
    <2> QED  BY <2>1, LineAside
  <1>7. CASE SendWrite
    <2>1. pc = "write" /\ pc' = "drain" /\ mcur' = 0 /\ UNCHANGED <<setup, rx, wire>>
      BY <1>7, AnswerSent
    <2>2. ~Fault("impatient") => Only(rx, 0) /\ Only(wire, 0)
      BY <2>1 DEF LineMine, Upstream
    <2> QED  BY <2>1, <2>2 DEF LineMine, Fault, Upstream
  <1>8. CASE PollReady \/ PollSleep
    <2>1. UNCHANGED <<setup, rx, wire, mcur>> /\ loc'.req = loc.req
          /\ (pc' \notin Upstream \/ pc \in Upstream)
      BY <1>8, Polled DEF Upstream
    <2> QED  BY <2>1, LineAside
  <1>9. CASE Master
    BY <1>9, LineMasterSteps
  <1>10. CASE Line
    BY <1>10, LineSteps
  <1>11. CASE Server
    <2>1. UNCHANGED <<setup, rx, wire, mcur, pc, loc>>
      BY <1>11 DEF Server, ServerAnswer, ServerIgnore, TcpArrive, ServerClose, lineVars,
                   masterVars
    <2> QED  BY <2>1, LineAside
  <1>12. ASSUME NEW e \in Errors, FailStep(e)  PROVE LineMine'
    <2>1. UNCHANGED <<setup, wire, mcur>> /\ pc' \notin Upstream
          /\ (rx' = rx \/ (rx # <<>> /\ rx' = Tail(rx)))
      BY <1>12 DEF FailStep, Fail, masterVars, Upstream
    <2> QED  BY <2>1, LineAside, LineUnitRead
  <1> QED  BY <1>1, <1>2, <1>3, <1>4, <1>5, <1>6, <1>7, <1>8, <1>9, <1>10, <1>11, <1>12,
              Steps DEF RtuSend, SendFrame

LEMMA EndNext == EndInv /\ [Next]_vars => EndInv'
  <1> SUFFICES ASSUME EndInv, [Next]_vars  PROVE EndInv'
    OBVIOUS
  <1>1. TypedControl' /\ StreamInStep' /\ LineSorted' /\ LineMine' /\ StreamMine'
    BY TypesNext, StreamNext, LineSortedNext, LineMineNext, MineNext DEF EndInv
  <1>2. setup' = setup /\ (delivered' = delivered \/ SendWrite) /\ TypedControl
    BY NumbersKept DEF EndInv
  <1>3. CASE delivered' = delivered
    BY <1>1, <1>2, <1>3 DEF EndInv, EndToEnd, Fault
  <1>4. CASE SendWrite
    <2>1. PICK d \in Delivery :
            /\ delivered' = Append(delivered, d) /\ pc = "write"
            /\ d.req = loc.req /\ d.resp = loc.resp /\ d.to = mcur
      BY <1>2, <1>4, AnswerSent
    <2>2. delivered \in Seq(Delivery)
      BY <1>2 DEF TypedControl, TypeOK
    <2>3. \A i \in DOMAIN delivered' :
            \/ i \in DOMAIN delivered /\ delivered'[i] = delivered[i]
            \/ delivered'[i] = d
      <3>1. \A i \in DOMAIN Append(delivered, d) :
              \/ i \in DOMAIN delivered /\ Append(delivered, d)[i] = delivered[i]
              \/ Append(delivered, d)[i] = d
        BY ONLY <2>2, d \in Delivery
      <3> QED  BY <2>1, <3>1
    <2>4. Alone /\ ~Fault("impatient") => d.to = d.req /\ d.resp = d.req
      BY <2>1 DEF EndInv, LineMine, StreamMine, Upstream
    <2> QED  BY <1>1, <1>2, <2>3, <2>4 DEF EndInv, EndToEnd, Fault, Alone
  <1> QED  BY <1>1, <1>2, <1>3, <1>4 DEF EndInv

(***************************************************************************)
(* End to end.  Behind a gateway that connects anew after every error, a   *)
(* patient master gets the answer to the request it waits for and no       *)
(* other, whatever the line and the network do and whatever ids the server *)
(* echoes, as long as the server answers no request twice.                 *)
(***************************************************************************)
THEOREM OwnAnswers == Spec => []EndToEnd
  <1>1. EndInv => EndToEnd
    BY DEF EndInv
  <1> QED  BY <1>1, EndInit, EndNext, PTL DEF Spec

-----------------------------------------------------------------------------
(***************************************************************************)
(* The refinement.  Flow is what the live stream still carries, what is    *)
(* read of an answer first.  If the server answers no request twice, then  *)
(* no part is there twice, the body of an answer follows its header, and   *)
(* neither a request the server still holds nor the answer being sent has  *)
(* a part there.                                                           *)
(***************************************************************************)
Distinct(z) == \A i, j \in 1..Len(z) : i # j /\ z[i].req = z[j].req => z[i].ix # z[j].ix
Whole(z) == \A i \in 1..(Len(z) - 1) : z[i].ix = 1 => z[i + 1].req = z[i].req
EndsWhole(z) == z # <<>> => z[Len(z)].ix = 2

Flow == loc.tcp \o (tcpIn \o net)

HeaderRead == loc.tcp # <<>> /\ loc.tcp[1].ix = 1 => Len(loc.tcp) = 1 /\ loc.left = 1

OwedOnce ==
  /\ Distinct(Flow) /\ Whole(Flow) /\ (stream.eof \/ EndsWhole(Flow))
  /\ \A q \in srv : q.req \notin ReqsOf(Flow)
  /\ \A p, q \in srv : p.req = q.req => p = q
  /\ HeaderRead
  /\ loc.resp # 0 => /\ pc \in {"flush", "write"} /\ loc.resp \notin ReqsOf(Flow)
                     /\ \A q \in srv : q.req # loc.resp

\* The requests whose units or parts a queue holds.
LEMMA ReqsJoined ==
  ASSUME NEW S, NEW s \in Seq(S), NEW t \in Seq(S)
  PROVE  ReqsOf(s \o t) = ReqsOf(s) \cup ReqsOf(t)
  <1> DEFINE z == s \o t
  <1>1. /\ Len(z) = Len(s) + Len(t) /\ Len(s) \in Nat /\ Len(t) \in Nat /\ z \in Seq(S)
        /\ \A i \in 1..Len(z) : z[i] = IF i <= Len(s) THEN s[i] ELSE t[i - Len(s)]
    BY Joined
  <1> HIDE DEF z
  <1>2. DOMAIN z = 1..Len(z) /\ DOMAIN s = 1..Len(s) /\ DOMAIN t = 1..Len(t)
    BY <1>1
  <1>3. ASSUME NEW i \in 1..Len(z)
        PROVE  (i \in 1..Len(s) /\ z[i] = s[i]) \/ (i - Len(s) \in 1..Len(t) /\ z[i] = t[i - Len(s)])
    BY ONLY <1>1, i \in 1..Len(z)
  <1>4. ASSUME NEW i \in 1..Len(s)  PROVE i \in 1..Len(z) /\ z[i] = s[i]
    BY ONLY <1>1, i \in 1..Len(s)
  <1>5. ASSUME NEW i \in 1..Len(t)
        PROVE  Len(s) + i \in 1..Len(z) /\ z[Len(s) + i] = t[i]
    <2>1. Len(s) + i \in 1..Len(z) /\ ~(Len(s) + i <= Len(s)) /\ (Len(s) + i) - Len(s) = i
      BY ONLY <1>1, i \in 1..Len(t)
    <2> QED  BY <1>1, <2>1
  <1>6. ReqsOf(z) \subseteq ReqsOf(s) \cup ReqsOf(t)
    BY <1>2, <1>3 DEF ReqsOf
  <1>7. ReqsOf(s) \subseteq ReqsOf(z)
    BY <1>2, <1>4 DEF ReqsOf
  <1>8. ReqsOf(t) \subseteq ReqsOf(z)
    BY <1>2, <1>5 DEF ReqsOf
  <1> QED  BY <1>6, <1>7, <1>8 DEF z

LEMMA ReqsNone == ReqsOf(<<>>) = {}
  BY DEF ReqsOf

\* A queue is its head and its tail, and one longer by an element is both.
LEMMA ReqsMoved ==
  ASSUME NEW S, NEW s \in Seq(S)
  PROVE  /\ s # <<>> => ReqsOf(s) = ({Head(s).req} \ {0}) \cup ReqsOf(Tail(s))
         /\ \A e \in S : ReqsOf(Append(s, e)) = ReqsOf(s) \cup ({e.req} \ {0})
  <1>1. ASSUME NEW e  PROVE ReqsOf(<<e>>) = {e.req} \ {0}
    <2>1. DOMAIN <<e>> = {1} /\ <<e>>[1] = e
      OBVIOUS
    <2> QED  BY <2>1 DEF ReqsOf
  <1>2. ASSUME NEW e \in S  PROVE ReqsOf(Append(s, e)) = ReqsOf(s) \cup ({e.req} \ {0})
    <2> DEFINE h == <<e>>
               a == Append(s, e)
    <2>1. a = s \o h /\ h \in Seq(S) /\ ReqsOf(h) = {e.req} \ {0}
      BY <1>1
    <2> HIDE DEF h, a
    <2>2. ReqsOf(s \o h) = ReqsOf(s) \cup ReqsOf(h)
      BY <2>1, ReqsJoined
    <2>3. ReqsOf(a) = ReqsOf(s) \cup ({e.req} \ {0})
      BY <2>1, <2>2
    <2> QED  BY <2>3 DEF a
  <1>3. ASSUME s # <<>>  PROVE ReqsOf(s) = ({Head(s).req} \ {0}) \cup ReqsOf(Tail(s))
    <2> DEFINE h == <<Head(s)>>
               t == Tail(s)
    <2>1. s = h \o t /\ h \in Seq(S) /\ t \in Seq(S)
      BY <1>3
    <2>2. ReqsOf(h) = {Head(s).req} \ {0}
      BY <1>1
    <2> HIDE DEF h, t
    <2>3. ReqsOf(h \o t) = ReqsOf(h) \cup ReqsOf(t)
      BY <2>1, ReqsJoined
    <2>4. ReqsOf(s) = ({Head(s).req} \ {0}) \cup ReqsOf(t)
      BY <2>1, <2>2, <2>3
    <2> QED  BY <2>4 DEF t
  <1> QED  BY <1>2, <1>3

LEMMA ReqsFrame == \A r \in 1..MaxReq : ReqsOf(Frame(r)) = {r}
  <1> TAKE r \in 1..MaxReq
  <1>1. /\ DOMAIN Frame(r) = 1..ReqLen /\ \A i \in 1..ReqLen : Frame(r)[i].req = r
        /\ 1 \in 1..ReqLen /\ r # 0
    BY FrameUnits, Sizes DEF Frame
  <1> QED  BY <1>1 DEF ReqsOf

LEMMA ReqsAnswer == \A r \in 1..MaxReq, t \in Tids : ReqsOf(Answer(r, t)) = {r}
  <1> TAKE r \in 1..MaxReq, t \in Tids
  <1>1. /\ DOMAIN Answer(r, t) = 1..2 /\ (\A i \in 1..2 : Answer(r, t)[i].req = r)
        /\ 1 \in 1..2 /\ r # 0
    BY AnswerParts, Sizes DEF Answer
  <1> QED  BY <1>1 DEF ReqsOf

\* Whatever is taken off the front or lost at the end leaves a stream tidy.
LEMMA FrontTaken ==
  ASSUME NEW s \in Seq(Part), NEW t \in Seq(Part), Distinct(s \o t), Whole(s \o t)
  PROVE  Distinct(t) /\ Whole(t) /\ (EndsWhole(s \o t) => EndsWhole(t))
  <1> DEFINE z == s \o t
             n == Len(s)
  <1>1. /\ Len(z) = n + Len(t) /\ n \in Nat /\ Len(t) \in Nat
        /\ \A i \in 1..Len(z) : z[i] = IF i <= Len(s) THEN s[i] ELSE t[i - n]
    BY Joined
  <1> HIDE DEF z, n
  <1>2. ASSUME NEW i \in 1..Len(t)  PROVE n + i \in 1..Len(z) /\ z[n + i] = t[i]
    <2>1. n + i \in 1..Len(z) /\ ~(n + i <= n) /\ (n + i) - n = i
      BY ONLY <1>1, i \in 1..Len(t)
    <2> QED  BY <1>1, <2>1 DEF n
  <1>3. Distinct(t)
    <2> SUFFICES ASSUME NEW i \in 1..Len(t), NEW j \in 1..Len(t), i # j, t[i].req = t[j].req
                 PROVE  t[i].ix # t[j].ix
      BY DEF Distinct
    <2>1. n + i # n + j
      BY <1>1
    <2>2. Distinct(z)
      BY DEF z
    <2> QED  BY <1>2, <2>1, <2>2 DEF Distinct
  <1>4. Whole(t)
    <2> SUFFICES ASSUME NEW i \in 1..(Len(t) - 1), t[i].ix = 1  PROVE t[i + 1].req = t[i].req
      BY DEF Whole
    <2>1. i \in 1..Len(t) /\ i + 1 \in 1..Len(t) /\ n + i \in 1..(Len(z) - 1)
          /\ (n + i) + 1 = n + (i + 1)
      BY ONLY <1>1, i \in 1..(Len(t) - 1)
    <2>2. z[n + i] = t[i] /\ z[(n + i) + 1] = t[i + 1]
      BY <1>2, <2>1
    <2>3. Whole(z)
      BY DEF z
    <2> QED  BY <2>1, <2>2, <2>3 DEF Whole
  <1>5. ASSUME EndsWhole(z), t # <<>>  PROVE t[Len(t)].ix = 2
    <2>1. Len(t) \in 1..Len(t) /\ Len(z) # 0
      BY <1>1, <1>5
    <2>2. z # <<>> /\ z[Len(z)] = t[Len(t)]
      BY <1>1, <1>2, <2>1
    <2> QED  BY <1>5, <2>2 DEF EndsWhole
  <1> QED  BY <1>3, <1>4, <1>5 DEF EndsWhole, z

LEMMA EndLost ==
  ASSUME NEW s \in Seq(Part), NEW t \in Seq(Part), Distinct(s \o t), Whole(s \o t)
  PROVE  Distinct(s) /\ Whole(s)
  <1> DEFINE z == s \o t
  <1>1. /\ Len(z) = Len(s) + Len(t) /\ Len(s) \in Nat /\ Len(t) \in Nat
        /\ \A i \in 1..Len(z) : z[i] = IF i <= Len(s) THEN s[i] ELSE t[i - Len(s)]
    BY Joined
  <1>2. Distinct(z) /\ Whole(z)
    OBVIOUS
  <1> HIDE DEF z
  <1>3. ASSUME NEW i \in 1..Len(s)  PROVE i \in 1..Len(z) /\ z[i] = s[i]
    BY ONLY <1>1, i \in 1..Len(s)
  <1>4. Distinct(s)
    BY <1>2, <1>3 DEF Distinct
  <1>5. Whole(s)
    <2> SUFFICES ASSUME NEW i \in 1..(Len(s) - 1), s[i].ix = 1  PROVE s[i + 1].req = s[i].req
      BY DEF Whole
    <2>1. i \in 1..Len(s) /\ i + 1 \in 1..Len(s) /\ i \in 1..(Len(z) - 1)
      BY ONLY <1>1, i \in 1..(Len(s) - 1)
    <2>2. z[i] = s[i] /\ z[i + 1] = s[i + 1]
      BY <1>3, <2>1
    <2> QED  BY <1>2, <2>1, <2>2 DEF Whole
  <1> QED  BY <1>4, <1>5

\* The server answers a request of which nothing is on the stream yet.
LEMMA AnswerAfter ==
  ASSUME NEW z \in Seq(Part), Distinct(z), Whole(z), EndsWhole(z),
         NEW r \in 1..MaxReq, NEW t \in Tids, r \notin ReqsOf(z)
  PROVE  LET y == z \o Answer(r, t) IN Distinct(y) /\ Whole(y) /\ EndsWhole(y)
  <1> DEFINE a == Answer(r, t)
             y == z \o a
             n == Len(z)
  <1>1. /\ a \in Seq(Part) /\ Len(a) = 2 /\ a[1].ix = 1 /\ a[2].ix = 2
        /\ a[1].req = r /\ a[2].req = r
    <2>1. 1 \in 1..2 /\ 2 \in 1..2
      OBVIOUS
    <2> QED  BY <2>1, AnswerParts
  <1> HIDE DEF a
  <1>2. /\ Len(y) = n + Len(a) /\ n \in Nat
        /\ \A i \in 1..Len(y) : y[i] = IF i <= Len(z) THEN z[i] ELSE a[i - Len(z)]
    BY <1>1, Joined
  <1>3. DOMAIN z = 1..n /\ n \in Nat
    OBVIOUS
  <1> HIDE DEF n, y
  <1>4. /\ Len(y) = n + 2 /\ n \in Nat
        /\ \A i \in 1..Len(y) : y[i] = IF i <= n THEN z[i] ELSE a[i - n]
    BY ONLY <1>1, <1>2 DEF n
  <1>5. ASSUME NEW i \in 1..n  PROVE i \in 1..Len(y) /\ y[i] = z[i] /\ y[i].req # r
    <2>1. z[i].req # r
      <3>1. r # 0 /\ i \in DOMAIN z
        BY <1>3
      <3> QED  BY <3>1 DEF ReqsOf
    <2> QED  BY <1>4, <2>1
  <1>6. /\ y[n + 1].ix = 1 /\ y[n + 1].req = r /\ y[n + 2].ix = 2 /\ y[n + 2].req = r
    <2>1. y[n + 1] = a[1] /\ y[n + 2] = a[2]
      BY ONLY <1>4
    <2> QED  BY <1>1, <2>1
  <1>7. ASSUME NEW i \in 1..Len(y)  PROVE i \in 1..n \/ i = n + 1 \/ i = n + 2
    BY ONLY <1>4, <1>7
  <1>8. Distinct(y)
    <2> SUFFICES ASSUME NEW i \in 1..Len(y), NEW j \in 1..Len(y), i # j, y[i].req = y[j].req
                 PROVE  y[i].ix # y[j].ix
      BY DEF Distinct
    <2>1. CASE i \in 1..n /\ j \in 1..n
      BY <1>5, <2>1 DEF Distinct, n
    <2>2. CASE i \notin 1..n /\ j \notin 1..n
      <3>1. (i = n + 1 /\ j = n + 2) \/ (i = n + 2 /\ j = n + 1)
        BY <1>7, <2>2
      <3> QED  BY <1>6, <3>1
    <2>3. CASE i \in 1..n /\ j \notin 1..n
      BY <1>5, <1>6, <1>7, <2>3
    <2>4. CASE i \notin 1..n /\ j \in 1..n
      BY <1>5, <1>6, <1>7, <2>4
    <2> QED  BY <2>1, <2>2, <2>3, <2>4
  <1>9. Whole(y)
    <2> SUFFICES ASSUME NEW i \in 1..(Len(y) - 1), y[i].ix = 1  PROVE y[i + 1].req = y[i].req
      BY DEF Whole
    <2>1. CASE i \in 1..(n - 1)
      <3>1. i \in 1..n /\ i + 1 \in 1..n
        BY <1>4, <2>1
      <3>2. y[i] = z[i] /\ y[i + 1] = z[i + 1]
        BY <1>5, <3>1
      <3> QED  BY <2>1, <3>2 DEF Whole, n
    <2>2. CASE i = n
      <3>1. n \in 1..n /\ z # <<>>
        BY ONLY <1>4, <2>2, <1>3, i \in 1..(Len(y) - 1)
      <3>2. y[i].ix = 2
        BY <1>5, <2>2, <3>1 DEF EndsWhole, n
      <3> QED  BY <3>2
    <2>3. CASE i = n + 1
      <3>1. i + 1 = n + 2
        BY <1>4, <2>3
      <3> QED  BY <1>6, <2>3, <3>1
    <2>4. i \in 1..(n - 1) \/ i = n \/ i = n + 1
      BY ONLY <1>4, i \in 1..(Len(y) - 1)
    <2> QED  BY <2>1, <2>2, <2>3, <2>4, Zenon
  <1>10. EndsWhole(y)
    BY <1>4, <1>6 DEF EndsWhole
  <1> QED  BY <1>8, <1>9, <1>10 DEF y, a

\* The two parts of one answer are all there is of it.
LEMMA AnswerTaken ==
  ASSUME NEW g \in Seq(Part), NEW t \in Seq(Part), Len(g) = 2, g[1].ix = 1,
         Distinct(g \o t), Whole(g \o t)
  PROVE  g[1].req \in ReqsOf(g) /\ g[1].req \notin ReqsOf(t)
  <1> DEFINE z == g \o t
             r == g[1].req
  <1>a. Distinct(z) /\ Whole(z)
    OBVIOUS
  <1>1. /\ z \in Seq(Part) /\ Len(z) = Len(g) + Len(t) /\ Len(t) \in Nat
        /\ \A i \in 1..Len(z) : z[i] = IF i <= Len(g) THEN g[i] ELSE t[i - Len(g)]
    BY Joined
  <1>b. DOMAIN g = 1..Len(g) /\ DOMAIN t = 1..Len(t)
    OBVIOUS
  <1>c. \A p \in Part : p.ix \in 1..2 /\ p.req \in 1..MaxReq
    BY DEF Part
  <1> HIDE DEF z
  <1>2. Len(z) = 2 + Len(t) /\ 1 \in 1..Len(z) /\ 2 \in 1..Len(z) /\ 1 \in 1..(Len(z) - 1)
    BY ONLY <1>1, Len(g) = 2
  <1>3. z[1] = g[1] /\ z[2] = g[2]
    BY ONLY <1>1, <1>2, Len(g) = 2
  <1>4. z[1].ix = 1 /\ z[1].req = r /\ z[1 + 1].req = r
    BY <1>2, <1>3, <1>a DEF Whole
  <1>5. z[2].req = r /\ z[2].ix # 1
    BY <1>2, <1>4, <1>a DEF Distinct
  <1>6. z[2] \in Part
    BY <1>1, <1>2, ElementIn
  <1>7. z[2].ix = 2
    BY <1>5, <1>6, <1>c
  <1>8. ASSUME NEW i \in 1..Len(t), t[i].req = r  PROVE FALSE
    <2>1. i + 2 \in 1..Len(z) /\ i + 2 # 1 /\ i + 2 # 2 /\ (i + 2) - 2 = i /\ ~(i + 2 <= 2)
      BY ONLY <1>1, <1>2, <1>8
    <2>2. z[i + 2] = t[i]
      BY ONLY <1>1, <2>1, Len(g) = 2
    <2>3. z[i + 2].ix # 1 /\ z[i + 2].ix # 2
      BY <1>2, <1>4, <1>5, <1>7, <1>8, <1>a, <2>1, <2>2 DEF Distinct
    <2>4. z[i + 2] \in Part
      BY <1>1, <2>1, ElementIn
    <2> QED  BY <1>c, <2>3, <2>4
  <1>9. r \notin ReqsOf(t)
    BY <1>8, <1>b DEF ReqsOf
  <1>10. r \in ReqsOf(g)
    <2>1. 1 \in DOMAIN g /\ r # 0
      <3>1. 1 \in 1..Len(g)
        <4>1. 1 \in 1..2
          OBVIOUS
        <4> QED  BY ONLY <4>1, Len(g) = 2
      <3>2. g[1] \in Part
        BY <3>1, ElementIn
      <3> QED  BY <1>b, <1>c, <3>1, <3>2
    <2> QED  BY <2>1 DEF ReqsOf
  <1> QED  BY <1>9, <1>10

LEMMA FlowTypes ==
  ASSUME TypedControl
  PROVE  /\ loc.tcp \in Seq(Part) /\ tcpIn \in Seq(Part) /\ net \in Seq(Part)
         /\ tcpIn \o net \in Seq(Part) /\ Flow \in Seq(Part)
         /\ ReqsOf(Flow) = ReqsOf(loc.tcp) \cup ReqsOf(tcpIn) \cup ReqsOf(net)
  <1>1. /\ loc.tcp \in Seq(Part) /\ tcpIn \in Seq(Part) /\ net \in Seq(Part)
        /\ tcpIn \o net \in Seq(Part)
    BY StreamTypes
  <1>2. Flow \in Seq(Part)
    BY <1>1, Joined DEF Flow
  <1>3. ReqsOf(Flow) = ReqsOf(loc.tcp) \cup ReqsOf(tcpIn \o net)
    <2> DEFINE q == tcpIn \o net
    <2>1. q \in Seq(Part) /\ Flow = loc.tcp \o q
      BY <1>1 DEF Flow
    <2> HIDE DEF q
    <2>2. ReqsOf(loc.tcp \o q) = ReqsOf(loc.tcp) \cup ReqsOf(q)
      BY <1>1, <2>1, ReqsJoined
    <2> QED  BY <2>1, <2>2 DEF q
  <1>4. ReqsOf(tcpIn \o net) = ReqsOf(tcpIn) \cup ReqsOf(net)
    BY <1>1, ReqsJoined
  <1> QED  BY <1>1, <1>2, <1>3, <1>4

\* A part is taken from the stream.
LEMMA FlowRead ==
  ASSUME TypedControl, ReadPart  PROVE Flow = Parts \o (tcpIn' \o net)
  <1> DEFINE q == tcpIn \o net
             p == Parts
             r == tcpIn' \o net
  <1>1. tcpIn # <<>> /\ tcpIn' = Tail(tcpIn)
    BY DEF ReadPart
  <1>2. q \in Seq(Part) /\ q # <<>> /\ Head(q) = Head(tcpIn) /\ Tail(q) = Tail(tcpIn) \o net
    BY <1>1, StreamTypes, HeadJoined
  <1>3. p = Append(loc.tcp, Head(q)) /\ r = Tail(q) /\ Flow = loc.tcp \o q
    BY <1>1, <1>2 DEF Parts, Flow
  <1>4. loc.tcp \in Seq(Part)
    BY StreamTypes
  <1> HIDE DEF q, p, r
  <1>5. Append(loc.tcp, Head(q)) \o Tail(q) = loc.tcp \o q
    BY <1>2, <1>4, MovedAcross
  <1>6. Flow = p \o r
    BY <1>3, <1>5
  <1> QED  BY <1>6 DEF p, r

\* A part arrives.
LEMMA FlowArrives ==
  ASSUME TypedControl, TcpArrive  PROVE Flow' = Flow
  <1>1. net # <<>> /\ net' = Tail(net) /\ tcpIn' = Append(tcpIn, Head(net)) /\ loc' = loc
    BY DEF TcpArrive
  <1>2. Append(tcpIn, Head(net)) \o Tail(net) = tcpIn \o net
    BY <1>1, StreamTypes, MovedAcross
  <1> QED  BY <1>1, <1>2 DEF Flow

-----------------------------------------------------------------------------
(* What the server, the stream and the gateway still owe. *)

\* The server does not answer a request twice.
NoRepeat == ~Fault("repeat")

LEMMA ReqsOfThree ==
  \A s, t, u \in Seq(Part) : ReqsOf(s \o (t \o u)) = ReqsOf(u) \cup ReqsOf(t) \cup ReqsOf(s)
  <1> TAKE s, t, u \in Seq(Part)
  <1> DEFINE q == t \o u
  <1>1. q \in Seq(Part) /\ ReqsOf(q) = ReqsOf(t) \cup ReqsOf(u)
    BY Joined, ReqsJoined
  <1> HIDE DEF q
  <1>2. ReqsOf(s \o q) = ReqsOf(s) \cup ReqsOf(q)
    BY <1>1, ReqsJoined
  <1>3. ReqsOf(s \o q) = ReqsOf(u) \cup ReqsOf(t) \cup ReqsOf(s)
    BY <1>1, <1>2
  <1> QED  BY <1>3 DEF q

LEMMA OwedFlow ==
  ASSUME TypedControl, TypedControl'
  PROVE  /\ OwedReqs = {q.req : q \in srv} \cup ReqsOf(Flow) \cup ({loc.resp} \ {0})
         /\ OwedReqs' = {q.req : q \in srv'} \cup ReqsOf(Flow') \cup ({loc'.resp} \ {0})
         /\ Flow' \in Seq(Part)
  <1>1. /\ loc.tcp \in Seq(Part) /\ tcpIn \in Seq(Part) /\ net \in Seq(Part)
        /\ loc'.tcp \in Seq(Part) /\ tcpIn' \in Seq(Part) /\ net' \in Seq(Part)
    BY DEF TypedControl, TypeOK, Locals
  <1>2. ReqsOf(Flow) = ReqsOf(net) \cup ReqsOf(tcpIn) \cup ReqsOf(loc.tcp)
    BY <1>1, ReqsOfThree DEF Flow
  <1>3. ReqsOf(Flow') = ReqsOf(net') \cup ReqsOf(tcpIn') \cup ReqsOf(loc'.tcp)
    BY <1>1, ReqsOfThree DEF Flow
  <1>4. Flow' \in Seq(Part)
    <2>1. tcpIn' \o net' \in Seq(Part)
      BY <1>1, Joined
    <2> QED  BY <1>1, <2>1, Joined DEF Flow
  <1>5. ReqsOf(Flow') = ReqsOf(Flow)'
    BY DEF ReqsOf
  <1> QED  BY <1>2, <1>3, <1>4, <1>5 DEF OwedReqs

\* A step that leaves the server and the stream alone.
LEMMA OwedAside ==
  ASSUME TypedControl, TypedControl', OwedOnce,
         UNCHANGED <<srv, tcpIn, net>>, stream'.eof = stream.eof, loc'.tcp = loc.tcp,
         loc'.left = loc.left \/ loc.tcp = <<>>,
         loc'.resp = 0 \/ (loc'.resp = loc.resp /\ pc' \in {"flush", "write"})
  PROVE  /\ OwedOnce' /\ OwedReqs' \subseteq OwedReqs
         /\ loc'.resp = loc.resp => OwedReqs' = OwedReqs
  <1>1. Flow' = Flow
    BY DEF Flow
  <1>2. OwedOnce'
    BY <1>1 DEF OwedOnce, HeaderRead, ReqsOf, Distinct, Whole, EndsWhole
  <1>3. OwedReqs' \subseteq OwedReqs /\ (loc'.resp = loc.resp => OwedReqs' = OwedReqs)
    BY <1>1, OwedFlow
  <1> QED  BY <1>2, <1>3

\* A step that takes parts from the front of the stream.
LEMMA OwedTaken ==
  ASSUME TypedControl, TypedControl', OwedOnce,
         NEW s \in Seq(Part), NEW t \in Seq(Part), Flow = s \o t, Flow' = t,
         srv' = srv, stream'.eof = stream.eof, HeaderRead',
         \/ loc'.resp = 0
         \/ /\ loc'.resp \in ReqsOf(s) /\ loc'.resp \notin ReqsOf(t)
            /\ pc' \in {"flush", "write"}
  PROVE  OwedOnce' /\ OwedReqs' \subseteq OwedReqs
  <1>1. ReqsOf(Flow) = ReqsOf(s) \cup ReqsOf(t)
    BY ReqsJoined
  <1>2. Distinct(Flow) /\ Whole(Flow) /\ (stream.eof \/ EndsWhole(Flow))
    BY DEF OwedOnce
  <1>3. Distinct(t) /\ Whole(t) /\ (EndsWhole(Flow) => EndsWhole(t))
    <2>1. Distinct(s \o t) /\ Whole(s \o t)
      BY <1>2
    <2>2. Distinct(t) /\ Whole(t) /\ (EndsWhole(s \o t) => EndsWhole(t))
      BY ONLY <2>1, s \in Seq(Part), t \in Seq(Part), FrontTaken
    <2> QED  BY <2>2
  <1>4. /\ Distinct(Flow') /\ Whole(Flow') /\ (stream'.eof \/ EndsWhole(Flow'))
    BY <1>2, <1>3
  <1>5. /\ \A q \in srv' : q.req \notin ReqsOf(Flow')
        /\ \A p, q \in srv' : p.req = q.req => p = q
        /\ loc'.resp # 0 => /\ pc' \in {"flush", "write"} /\ loc'.resp \notin ReqsOf(Flow')
                            /\ \A q \in srv' : q.req # loc'.resp
    BY <1>1 DEF OwedOnce
  <1>6. OwedOnce'
    BY <1>4, <1>5 DEF OwedOnce, ReqsOf, Distinct, Whole, EndsWhole
  <1>7. OwedReqs' \subseteq OwedReqs
    BY <1>1, OwedFlow
  <1> QED  BY <1>6, <1>7

LEMMA OwedErrors ==
  ASSUME TypedControl, TypedControl', OwedOnce, NEW e \in Errors, FailStep(e)
  PROVE  OwedOnce' /\ OwedReqs' \subseteq OwedReqs
  <1>1. /\ Fail(e) /\ loc' = [Fresh EXCEPT !.err = e] /\ srv' = srv /\ net' = net
        /\ tcpIn' = tcpIn \/ (ReadPart /\ loc'.tcp = <<>>)
    <2>1. Fail(e)
      BY DEF FailStep
    <2>2. loc' = [Fresh EXCEPT !.err = e] /\ srv' = srv /\ net' = net
      BY <2>1 DEF Fail, serverVars
    <2>3. loc'.tcp = <<>>
      BY <2>2, FailedLocals
    <2> QED  BY <2>1, <2>2, <2>3 DEF FailStep, ReadPart
  <1>2. loc'.tcp = <<>> /\ loc'.left = 0 /\ loc'.resp = 0 /\ stream'.eof = stream.eof
    <2>1. loc'.tcp = <<>> /\ loc'.left = 0
      BY <1>1, FailedLocals
    <2>2. stream'.eof = stream.eof
      BY <1>1, FailHistory DEF TypedControl
    <2>3. loc'.resp = 0
      <3>1. Fresh.resp = 0 /\ Fresh \in Locals
        BY FreshLocals
      <3> QED  BY ONLY <1>1, <3>1 DEF Locals
    <2> QED  BY <2>1, <2>2, <2>3
  <1>3. HeaderRead'
    BY <1>2 DEF HeaderRead
  <1>4. CASE tcpIn' = tcpIn
    <2>1. Flow' = tcpIn \o net /\ Flow = loc.tcp \o (tcpIn \o net) /\ tcpIn \o net \in Seq(Part)
          /\ loc.tcp \in Seq(Part)
      <3>1. <<>> \o (tcpIn \o net) = tcpIn \o net
        BY StreamTypes, ConcatEmptySeq
      <3> QED  BY <1>1, <1>2, <1>4, <3>1, StreamTypes DEF Flow
    <2> QED  BY <1>1, <1>2, <1>3, <2>1, OwedTaken
  <1>5. CASE ReadPart
    <2>1. /\ Flow = Parts \o (tcpIn' \o net) /\ Parts \in Seq(Part)
          /\ tcpIn' \o net \in Seq(Part)
      BY <1>5, FlowRead, PartsTyped, StreamTypes, Joined
    <2>2. Flow' = tcpIn' \o net
      <3>1. <<>> \o (tcpIn' \o net) = tcpIn' \o net
        BY <2>1, ConcatEmptySeq
      <3> QED  BY <1>1, <1>2, <3>1 DEF Flow
    <2> QED  BY <1>1, <1>2, <1>3, <2>1, <2>2, OwedTaken
  <1> QED  BY <1>1, <1>4, <1>5

LEMMA OwedPartRead ==
  ASSUME TypedControl, TypedControl', OwedOnce, TcpListenMore
  PROVE  OwedOnce' /\ OwedReqs' \subseteq OwedReqs
  <1>1. /\ ReadPart /\ pc = "tcpListen" /\ loc'.tcp = Parts
        /\ UNCHANGED <<srv, net, stream>>
        /\ loc'.left \in 1..MaxLeft
        /\ loc'.left \in IF loc.tcp # <<>> THEN {loc.left - 1}
                         ELSE IF InStep THEN {1} ELSE 1..MaxLeft
    BY PartRead, PartsTyped DEF TcpListenMore
  <1>2. Flow' = Flow
    BY <1>1, FlowRead DEF Flow
  <1>3. loc.resp = 0
    BY <1>1 DEF OwedOnce
  <1>4. loc'.resp = 0
    <2>1. \E n : loc' = [loc EXCEPT !.tcp = Parts, !.left = n]
      BY DEF TcpListenMore
    <2>2. loc \in Locals
      BY DEF TypedControl, TypeOK
    <2> QED  BY ONLY <1>3, <2>1, <2>2 DEF Locals
  <1>5. HeaderRead'
    <2> SUFFICES ASSUME Parts[1].ix = 1  PROVE Len(Parts) = 1 /\ loc'.left = 1
      BY <1>1 DEF HeaderRead
    <2>1. /\ loc.tcp \in Seq(Part) /\ Head(tcpIn) \in Part /\ Len(Parts) = Len(loc.tcp) + 1
      BY <1>1, PartsTyped, HeadTail
    <2>2. CASE loc.tcp = <<>>
      <3>1. loc'.left = 1
        BY <1>1, <2>2 DEF InStep
      <3>2. Len(loc.tcp) = 0
        BY <2>2
      <3> QED  BY <2>1, <3>1, <3>2
    <2>3. CASE loc.tcp # <<>>
      <3>1. 1 \in 1..Len(loc.tcp)
        BY <2>1, <2>3, HeadTail
      <3>2. Parts[1] = loc.tcp[1]
        BY <2>1, <3>1, AppendLast DEF Parts
      <3>3. loc.left = 1
        BY <2>3, <3>2 DEF OwedOnce, HeaderRead
      <3>4. loc'.left = 0
        BY <1>1, <2>3, <3>3
      <3> QED  BY <1>1, <3>4
    <2> QED  BY <2>2, <2>3
  <1>6. OwedOnce'
    BY <1>1, <1>2, <1>4, <1>5 DEF OwedOnce, ReqsOf, Distinct, Whole, EndsWhole
  <1>7. OwedReqs' \subseteq OwedReqs
    BY <1>1, <1>2, <1>4, OwedFlow
  <1> QED  BY <1>6, <1>7

\* The answer read whole is off the stream.
LEMMA OwedAnswerRead ==
  ASSUME TypedControl, TypedControl', OwedOnce, TcpListenLast
  PROVE  OwedOnce' /\ OwedReqs' \subseteq OwedReqs
  <1> DEFINE t == tcpIn' \o net
             g == Parts
  <1>1. /\ ReadPart /\ pc' = "flush" /\ loc.tcp # <<>>
        /\ UNCHANGED <<srv, net, stream>> /\ loc'.tcp = <<>>
        /\ \/ InStep /\ loc'.resp = g[1].req
           \/ (~InStep \/ stream.half) /\ loc'.resp = 0
    BY AnswerRead
  <1>2. g \in Seq(Part) /\ t \in Seq(Part) /\ Flow = g \o t
    <2>1. tcpIn' \in Seq(Part) /\ net \in Seq(Part) /\ Parts \in Seq(Part)
      BY <1>1, PartsTyped, StreamTypes
    <2> QED  BY <1>1, <2>1, FlowRead, Joined
  <1>3. Flow' = t
    <2>1. Flow' = <<>> \o t
      BY <1>1 DEF Flow
    <2> HIDE DEF t
    <2> QED  BY <1>2, <2>1, ConcatEmptySeq
  <1>4. HeaderRead'
    BY <1>1 DEF HeaderRead
  <1>5. InStep => Len(g) = 2 /\ g[1].ix = 1
    <2> SUFFICES ASSUME InStep  PROVE Len(g) = 2 /\ g[1].ix = 1
      OBVIOUS
    <2>1. /\ loc.tcp \in Seq(Part) /\ Head(tcpIn) \in Part /\ Len(g) = Len(loc.tcp) + 1
      BY <1>1, PartsTyped, HeadTail
    <2>2. 1 \in 1..Len(loc.tcp)
      BY <1>1, <2>1, HeadTail
    <2>3. g[1] = loc.tcp[1] /\ g[1].ix = 1
      BY <2>1, <2>2, AppendLast DEF Parts, InStep
    <2>4. Len(loc.tcp) = 1
      BY <1>1, <2>3 DEF OwedOnce, HeaderRead
    <2> QED  BY <2>1, <2>3, <2>4
  <1>6. Distinct(g \o t) /\ Whole(g \o t)
    <2>1. Distinct(Flow) /\ Whole(Flow)
      BY DEF OwedOnce
    <2> QED  BY <1>2, <2>1
  <1> HIDE DEF g, t
  <1>7. InStep => g[1].req \in ReqsOf(g) /\ g[1].req \notin ReqsOf(t)
    BY ONLY <1>2, <1>5, <1>6, AnswerTaken
  <1>8. \/ loc'.resp = 0
        \/ /\ loc'.resp \in ReqsOf(g) /\ loc'.resp \notin ReqsOf(t)
           /\ pc' \in {"flush", "write"}
    BY <1>1, <1>7
  <1> QED  BY <1>1, <1>2, <1>3, <1>4, <1>8, OwedTaken

LEMMA OwedConnected ==
  ASSUME TypedControl, TypedControl', OwedOnce, Connect
  PROVE  OwedOnce' /\ OwedReqs' \subseteq OwedReqs
  <1>1. /\ loc.tcp = <<>> /\ loc'.tcp = <<>> /\ loc'.left = 0 /\ loc'.resp = 0
    BY FreshLocals DEF Connect, TypedControl, ControlOK
  <1>2. CASE UNCHANGED <<srv, net, tcpIn>> /\ stream' = [stream EXCEPT !.reused = TRUE]
    <2>1. stream'.eof = stream.eof
      <3> DEFINE t == TRUE
      <3>1. stream \in StreamType /\ stream' = [stream EXCEPT !.reused = t]
        BY <1>2, IdTypes
      <3> HIDE DEF t
      <3> QED  BY ONLY <3>1 DEF StreamType
    <2> QED  BY <1>1, <1>2, <2>1, OwedAside
  <1>3. CASE srv' = {} /\ net' = <<>> /\ tcpIn' = <<>>
    <2>1. Flow' = <<>>
      BY <1>1, <1>3 DEF Flow
    <2>2. /\ Distinct(Flow') /\ Whole(Flow') /\ EndsWhole(Flow') /\ ReqsOf(Flow') = {}
      BY <2>1, ReqsNone DEF Distinct, Whole, EndsWhole
    <2>3. HeaderRead'
      BY <1>1 DEF HeaderRead
    <2>4. OwedOnce'
      BY <1>1, <1>3, <2>2, <2>3 DEF OwedOnce, ReqsOf, Distinct, Whole, EndsWhole
    <2>5. OwedReqs' = {}
      BY <1>1, <1>3, <2>2, OwedFlow
    <2> QED  BY <2>4, <2>5
  <1> QED  BY <1>2, <1>3 DEF Connect, serverVars

\* The server takes a request that is owed nothing yet.
LEMMA OwedSent ==
  ASSUME TypedControl, TypedControl', OwedOnce, TcpSend, loc.req \notin OwedReqs
  PROVE  OwedOnce' /\ OwedReqs' \in {OwedReqs, OwedReqs \cup {loc.req}}
  <1> DEFINE x == [req |-> loc.req, tid |-> loc.tid]
  <1>1. /\ UNCHANGED <<loc, net, tcpIn, stream>> /\ pc = "tcpSend"
        /\ srv' = srv \/ srv' = srv \cup {x}
        /\ x.req = loc.req
    BY RequestSent
  <1> HIDE DEF x
  <1>2. Flow' = Flow
    BY <1>1 DEF Flow
  <1>3. loc.resp = 0 /\ loc'.resp = 0
    BY <1>1 DEF OwedOnce
  <1>4. OwedReqs' \in {OwedReqs, OwedReqs \cup {loc.req}}
    <2>1. CASE srv' = srv
      BY <1>1, <1>2, <1>3, <2>1, OwedFlow
    <2>2. CASE srv' = srv \cup {x}
      <3>1. {q.req : q \in srv'} = {q.req : q \in srv} \cup {loc.req}
        BY <1>1, <2>2
      <3>2. OwedReqs' = OwedReqs \cup {loc.req}
        BY <1>1, <1>2, <1>3, <3>1, OwedFlow
      <3> QED  BY <3>2
    <2> QED  BY <1>1, <2>1, <2>2
  <1>5. loc.req \notin ReqsOf(Flow) /\ \A q \in srv : q.req # loc.req
    BY OwedFlow
  <1>6. /\ \A q \in srv' : q.req \notin ReqsOf(Flow)
        /\ \A p, q \in srv' : p.req = q.req => p = q
    BY <1>1, <1>5 DEF OwedOnce
  <1>7. OwedOnce'
    BY <1>1, <1>2, <1>3, <1>6 DEF OwedOnce, HeaderRead, ReqsOf, Distinct, Whole, EndsWhole
  <1> QED  BY <1>4, <1>7

LEMMA OwedServer ==
  ASSUME NoRepeat, TypedControl, TypedControl', OwedOnce, Server
  PROVE  OwedOnce' /\ OwedReqs' \subseteq OwedReqs
  <1>1. UNCHANGED <<pc, loc>> /\ HeaderRead'
    <2>1. UNCHANGED <<pc, loc>>
      BY DEF Server, ServerAnswer, ServerIgnore, TcpArrive, ServerClose
    <2> QED  BY <2>1 DEF OwedOnce, HeaderRead
  <1> DEFINE S == {q.req : q \in srv}
             S2 == {q.req : q \in srv'}
  <1>2. OwedReqs = S \cup ReqsOf(Flow) \cup ({loc.resp} \ {0})
        /\ OwedReqs' = S2 \cup ReqsOf(Flow') \cup ({loc.resp} \ {0})
    BY <1>1, OwedFlow
  <1>3. CASE ServerAnswer
    <2>1. /\ stream' = stream /\ ~stream.eof /\ tcpIn' = tcpIn
          /\ \E q \in srv, t \in Tids :
               /\ q.req \in 1..MaxReq /\ srv' = srv \ {q}
               /\ net' = net \o Answer(q.req, t) \/ Fault("repeat")
               /\ Answer(q.req, t) \in Seq(Part)
      BY <1>3, Answered
    <2>2. ~Fault("repeat")
      BY DEF NoRepeat
    <2>3. PICK q \in srv, t \in Tids :
            /\ q.req \in 1..MaxReq /\ srv' = srv \ {q}
            /\ net' = net \o Answer(q.req, t) /\ Answer(q.req, t) \in Seq(Part)
      BY <2>1, <2>2
    <2> DEFINE a == Answer(q.req, t)
    <2>4. ReqsOf(a) = {q.req}
      BY <2>3, ReqsAnswer
    <2>5. Flow' = Flow \o a
      <3>1. a \in Seq(Part) /\ net' = net \o a
        BY <2>3
      <3> HIDE DEF a
      <3>2. tcpIn \o (net \o a) = (tcpIn \o net) \o a
        BY <3>1, StreamTypes, PartsRegrouped
      <3>3. loc.tcp \o ((tcpIn \o net) \o a) = (loc.tcp \o (tcpIn \o net)) \o a
        BY <3>1, StreamTypes, PartsRegrouped
      <3> QED  BY <1>1, <2>1, <3>1, <3>2, <3>3 DEF Flow
    <2>6. ReqsOf(Flow') = ReqsOf(Flow) \cup {q.req}
      <3>1. a \in Seq(Part)
        BY <2>3
      <3> HIDE DEF a
      <3>2. ReqsOf(Flow \o a) = ReqsOf(Flow) \cup ReqsOf(a)
        BY <3>1, FlowTypes, ReqsJoined
      <3> QED  BY <2>4, <2>5, <3>2
    <2>7. Distinct(Flow') /\ Whole(Flow') /\ EndsWhole(Flow')
      <3>1. Distinct(Flow) /\ Whole(Flow) /\ EndsWhole(Flow) /\ q.req \notin ReqsOf(Flow)
        BY <2>1 DEF OwedOnce
      <3>2. Flow \in Seq(Part)
        BY FlowTypes
      <3>3. Distinct(Flow \o a) /\ Whole(Flow \o a) /\ EndsWhole(Flow \o a)
        BY <2>3, <3>1, <3>2, AnswerAfter
      <3> HIDE DEF a
      <3> QED  BY <2>5, <3>3
    <2>8. /\ \A p \in srv' : p.req \notin ReqsOf(Flow')
          /\ \A p, r \in srv' : p.req = r.req => p = r
          /\ loc.resp # 0 => /\ pc \in {"flush", "write"} /\ loc.resp \notin ReqsOf(Flow')
                             /\ \A p \in srv' : p.req # loc.resp
      BY <2>3, <2>6 DEF OwedOnce
    <2>9. OwedOnce'
      BY <1>1, <2>7, <2>8 DEF OwedOnce, ReqsOf, Distinct, Whole, EndsWhole
    <2>10. OwedReqs' \subseteq OwedReqs
      <3>1. S2 \subseteq S /\ q.req \in S
        BY <2>3
      <3> QED  BY <1>2, <2>6, <3>1
    <2> QED  BY <2>9, <2>10
  <1>4. CASE ServerIgnore
    <2>1. srv' \subseteq srv /\ UNCHANGED <<net, tcpIn, stream>>
      BY <1>4 DEF ServerIgnore
    <2>2. Flow' = Flow
      BY <1>1, <2>1 DEF Flow
    <2>3. OwedOnce'
      BY <1>1, <2>1, <2>2 DEF OwedOnce, ReqsOf, Distinct, Whole, EndsWhole
    <2>4. S2 \subseteq S
      BY <2>1
    <2> QED  BY <1>2, <2>2, <2>3, <2>4
  <1>5. CASE TcpArrive
    <2>1. UNCHANGED <<srv, stream>> /\ Flow' = Flow
      BY <1>5, FlowArrives DEF TcpArrive
    <2>2. OwedOnce'
      BY <1>1, <2>1 DEF OwedOnce, ReqsOf, Distinct, Whole, EndsWhole
    <2> QED  BY <1>2, <2>1, <2>2
  <1>6. CASE ServerClose
    <2>1. srv' = {} /\ net' = <<>> /\ tcpIn' = tcpIn /\ stream'.eof
      BY <1>6, Closed
    <2> DEFINE s == loc.tcp \o tcpIn
    <2>2. s \in Seq(Part) /\ net \in Seq(Part) /\ Flow = s \o net
      BY StreamTypes, Joined, PartsRegrouped DEF Flow
    <2>3. Flow' = s
      <3>1. tcpIn \o <<>> = tcpIn
        BY StreamTypes, ConcatEmptySeq
      <3> QED  BY <1>1, <2>1, <3>1 DEF Flow
    <2> HIDE DEF s
    <2>4. ReqsOf(Flow) = ReqsOf(s) \cup ReqsOf(net)
      BY <2>2, ReqsJoined
    <2>5. Distinct(Flow') /\ Whole(Flow')
      <3>1. Distinct(s \o net) /\ Whole(s \o net)
        BY <2>2 DEF OwedOnce
      <3>2. Distinct(s) /\ Whole(s)
        BY ONLY <2>2, <3>1, EndLost
      <3> QED  BY <2>3, <3>2
    <2>6. loc.resp # 0 => pc \in {"flush", "write"} /\ loc.resp \notin ReqsOf(Flow')
      BY <2>3, <2>4 DEF OwedOnce
    <2>7. OwedOnce'
      BY <1>1, <2>1, <2>5, <2>6 DEF OwedOnce, ReqsOf, Distinct, Whole, EndsWhole
    <2>8. S2 = {}
      BY <2>1
    <2> QED  BY <1>2, <2>3, <2>4, <2>7, <2>8
  <1> QED  BY <1>3, <1>4, <1>5, <1>6 DEF Server

LEMMA OwedNext ==
  ASSUME NoRepeat, TypedControl, TypedControl', OwedOnce, [Next]_vars, ~TcpSend
  PROVE  /\ OwedOnce' /\ OwedReqs' \subseteq OwedReqs
         /\ MasterSend \/ (ListenLast /\ pc' # "failed") => OwedReqs' = OwedReqs
  <1>1. CASE UNCHANGED vars \/ Master \/ Line
    <2>1. UNCHANGED <<pc, loc, srv, tcpIn, net, stream>>
      BY <1>1, Arrived DEF vars, serverVars, Master, MasterSend, MasterGiveUp
    <2>2. loc.resp # 0 => pc \in {"flush", "write"}
      BY DEF OwedOnce
    <2> QED  BY <2>1, <2>2, OwedAside
  <1>2. CASE Connect
    BY <1>2, OwedConnected DEF Connect, MasterSend, ListenLast, ReadUnit
  <1>3. CASE CallNext \/ IntoStream
    <2>1. UNCHANGED <<srv, tcpIn, net, stream>> /\ loc.tcp = <<>> /\ loc'.tcp = <<>>
          /\ loc'.resp = 0 /\ pc \notin {"flush", "write"}
      BY <1>3, FreshLocals DEF CallNext, IntoStream, serverVars, TypedControl, ControlOK
    <2>2. loc.resp = 0
      BY <2>1 DEF OwedOnce
    <2> QED  BY <2>1, <2>2, OwedAside
  <1>4. CASE ListenHeader \/ ListenBody
    <2>1. /\ pc = "rtuListen" /\ UNCHANGED <<srv, tcpIn, net, stream>>
          /\ loc'.tcp = loc.tcp /\ loc'.left = loc.left /\ loc'.resp = loc.resp
      BY <1>4, UnitRead
    <2>2. loc.resp = 0
      BY <2>1 DEF OwedOnce
    <2> QED  BY <2>1, <2>2, OwedAside
  <1>5. CASE ListenLast /\ pc' # "failed"
    <2>1. /\ pc = "rtuListen" /\ UNCHANGED <<srv, tcpIn, net, stream>>
          /\ loc'.tcp = <<>> /\ loc'.resp = 0
      BY <1>5, RequestRead
    <2>2. loc.resp = 0 /\ loc.tcp = <<>>
      BY <2>1 DEF OwedOnce, TypedControl, ControlOK
    <2> QED  BY <2>1, <2>2, OwedAside
  <1>6. CASE ListenRetry
    <2>1. /\ pc = "rtuListen" /\ UNCHANGED <<srv, tcpIn, net, stream>>
          /\ \E n : loc' = [loc EXCEPT !.attempt = n]
      BY <1>6 DEF ListenRetry, serverVars
    <2>2. loc \in Locals
      BY DEF TypedControl, TypeOK
    <2>3. loc'.tcp = loc.tcp /\ loc'.left = loc.left /\ loc'.resp = loc.resp
      BY ONLY <2>1, <2>2 DEF Locals
    <2>4. loc.resp = 0
      BY <2>1 DEF OwedOnce
    <2> QED  BY <2>1, <2>3, <2>4, OwedAside
  <1>7. CASE PollReady \/ PollSleep
    <2>1. /\ pc \in {"rtuPoll", "tcpPoll"} /\ UNCHANGED <<srv, tcpIn, net, stream>>
          /\ loc'.tcp = loc.tcp /\ loc'.left = loc.left /\ loc'.resp = loc.resp
      BY <1>7, Polled
    <2>2. loc.resp = 0
      BY <2>1 DEF OwedOnce
    <2> QED  BY <2>1, <2>2, OwedAside
  <1>8. CASE RtuSend
    <2>1. /\ UNCHANGED <<srv, tcpIn, net, stream>> /\ pc \in {"flush", "write", "drain"}
          /\ \/ loc' = loc /\ (pc = "drain" \/ pc' \in {"flush", "write"})
             \/ loc'.resp = 0 /\ loc'.tcp = <<>>
      <3>1. CASE SendFlush \/ SendDrain
        BY <3>1 DEF SendFlush, SendDrain, serverVars
      <3>2. CASE SendWrite
        BY <3>2, FreshLocals DEF SendWrite, serverVars
      <3>3. CASE SendError
        <4>1. /\ UNCHANGED <<srv, tcpIn, net, stream>> /\ pc \in {"flush", "write", "drain"}
              /\ loc' = [Fresh EXCEPT !.err = RtuErr.Serial]
          BY <3>3 DEF SendError, serverVars
        <4>2. Fresh.resp = 0 /\ Fresh.tcp = <<>> /\ Fresh \in Locals
          BY FreshLocals
        <4>3. loc'.resp = 0 /\ loc'.tcp = <<>>
          BY ONLY <4>1, <4>2 DEF Locals
        <4> QED  BY <4>1, <4>3
      <3> QED  BY <1>8, <3>1, <3>2, <3>3 DEF RtuSend, SendFrame
    <2>2. loc.tcp = <<>> /\ (pc = "drain" => loc.resp = 0)
      BY <2>1 DEF OwedOnce, TypedControl, ControlOK
    <2>3. ~(MasterSend \/ (ListenLast /\ pc' # "failed"))
      <3>1. MasterSend => sent' # sent
        BY LineTypes, Sizes DEF MasterSend
      <3>2. sent' = sent
        BY <1>8 DEF RtuSend, SendFrame, SendFlush, SendWrite, SendDrain, SendError, masterVars
      <3> QED  BY <2>1, <3>1, <3>2 DEF ListenLast, ReadUnit
    <2> QED  BY <2>1, <2>2, <2>3, OwedAside
  <1>9. ASSUME ~MasterSend, ~ListenLast
        PROVE  MasterSend \/ (ListenLast /\ pc' # "failed") => OwedReqs' = OwedReqs
    BY <1>9
  <1>10. ASSUME sent' = sent, pc # "rtuListen" \/ pc' = "failed"
         PROVE  ~(MasterSend \/ (ListenLast /\ pc' # "failed"))
    <2>1. MasterSend => sent' # sent
      BY LineTypes, Sizes DEF MasterSend
    <2> QED  BY <1>10, <2>1 DEF ListenLast, ReadUnit
  <1>11. CASE TcpListenMore \/ TcpListenLast
    <2>1. sent' = sent /\ pc = "tcpListen"
      BY <1>11 DEF TcpListenMore, TcpListenLast, ReadPart, masterVars
    <2> QED  BY <1>10, <1>11, <2>1, OwedPartRead, OwedAnswerRead
  <1>12. CASE Server
    <2>1. sent' = sent /\ pc' = pc /\ rx' = rx
      BY <1>12 DEF Server, ServerAnswer, ServerIgnore, TcpArrive, ServerClose, masterVars,
                   lineVars
    <2>2. ListenLast /\ pc' # "failed" => pc' # pc
      BY RequestRead
    <2>3. MasterSend => sent' # sent
      BY LineTypes, Sizes DEF MasterSend
    <2> QED  BY <1>12, <2>1, <2>2, <2>3, OwedServer
  <1>13. ASSUME NEW e \in Errors, FailStep(e)
         PROVE  /\ OwedOnce' /\ OwedReqs' \subseteq OwedReqs
                /\ ~(MasterSend \/ (ListenLast /\ pc' # "failed"))
    <2>1. sent' = sent /\ pc' = "failed"
      BY <1>13 DEF FailStep, Fail, masterVars
    <2> QED  BY <1>10, <1>13, <2>1, OwedErrors
  <1> QED  BY <1>1, <1>2, <1>3, <1>4, <1>5, <1>6, <1>7, <1>8, <1>11, <1>12, <1>13, Steps
           DEF Caller

-----------------------------------------------------------------------------
(* What waits to be taken, and how far the exchange is. *)

LEMMA WaitingAfter ==
  WaitingReqs' = ReqsOf(wire') \cup ReqsOf(rx') \cup ReqsOf(loc'.got)
  BY DEF WaitingReqs, ReqsOf

\* Units may be dropped from the front of the line and from the frame read.
LEMMA WaitingDropped ==
  ASSUME TypedControl, wire' = wire, rx' = rx \/ (rx # <<>> /\ rx' = Tail(rx)),
         loc'.got = loc.got \/ loc'.got = <<>>
  PROVE  WaitingReqs' \subseteq WaitingReqs
  <1>1. ReqsOf(rx') \subseteq ReqsOf(rx)
    BY LineTypes, ReqsMoved
  <1>2. ReqsOf(loc'.got) \subseteq ReqsOf(loc.got)
    BY ReqsNone
  <1> QED  BY <1>1, <1>2, WaitingAfter DEF WaitingReqs

LEMMA WaitingNext ==
  ASSUME TypedControl, [Next]_vars, ~MasterSend  PROVE WaitingReqs' \subseteq WaitingReqs
  <1>1. rx \in Seq(Unit) /\ wire \in Seq(Unit) /\ loc.got \in Seq(Unit)
    BY LineTypes DEF TypedControl, TypeOK, Locals
  <1>2. CASE UNCHANGED vars \/ MasterGiveUp \/ Server
    <2>1. UNCHANGED <<wire, rx, loc>>
      BY <1>2 DEF vars, lineVars, MasterGiveUp, Server, ServerAnswer, ServerIgnore,
                  TcpArrive, ServerClose
    <2> QED  BY <2>1, WaitingDropped
  <1>3. CASE Caller
    <2>1. UNCHANGED <<wire, rx>> /\ loc'.got = <<>>
      BY <1>3, FreshLocals DEF Caller, Connect, CallNext, IntoStream, lineVars
    <2> QED  BY <2>1, WaitingDropped
  <1>4. CASE ListenHeader \/ ListenBody
    <2>1. /\ wire' = wire /\ rx # <<>> /\ rx' = Tail(rx)
          /\ loc'.got = Append(loc.got, Head(rx))
      BY <1>4, UnitRead DEF Got
    <2>2. Head(rx) \in Unit
      BY <1>1, <2>1, HeadTail
    <2>3. ReqsOf(loc'.got) = ReqsOf(loc.got) \cup ({Head(rx).req} \ {0})
      BY <1>1, <2>1, <2>2, ReqsMoved
    <2>4. ReqsOf(rx) = ({Head(rx).req} \ {0}) \cup ReqsOf(rx')
      BY <1>1, <2>1, ReqsMoved
    <2> QED  BY <2>1, <2>3, <2>4, WaitingAfter DEF WaitingReqs
  <1>5. CASE ListenLast /\ pc' # "failed"
    BY <1>5, RequestRead, WaitingDropped
  <1>6. CASE ListenRetry
    <2>1. UNCHANGED <<wire, rx>> /\ \E n : loc' = [loc EXCEPT !.attempt = n]
      BY <1>6 DEF ListenRetry, lineVars
    <2>2. loc \in Locals
      BY DEF TypedControl, TypeOK
    <2>3. loc'.got = loc.got
      BY ONLY <2>1, <2>2 DEF Locals
    <2> QED  BY <2>1, <2>3, WaitingDropped
  <1>7. CASE TcpSend \/ TcpListenMore \/ TcpListenLast \/ PollReady \/ PollSleep
    BY <1>7, RequestSent, PartRead, AnswerRead, Polled, WaitingDropped
  <1>8. CASE RtuSend
    <2>1. UNCHANGED <<wire, rx>> /\ loc'.got \in {loc.got, <<>>}
      <3>1. CASE SendFlush \/ SendDrain
        BY <3>1 DEF SendFlush, SendDrain, lineVars
      <3>2. CASE SendWrite
        BY <3>2, FreshLocals DEF SendWrite, lineVars
      <3>3. CASE SendError
        BY <3>3, ErrorNames, FailedLocals DEF SendError, lineVars
      <3> QED  BY <1>8, <3>1, <3>2, <3>3 DEF RtuSend, SendFrame
    <2> QED  BY <2>1, WaitingDropped
  <1>9. CASE Line
    <2>1. loc' = loc
      BY <1>9, Arrived
    <2>2. ASSUME wire # <<>>, wire' = Tail(wire), rx' = Append(rx, Head(wire))
          PROVE  WaitingReqs' \subseteq WaitingReqs
      <3>1. Head(wire) \in Unit
        BY <1>1, <2>2, HeadTail
      <3>2. ReqsOf(rx') = ReqsOf(rx) \cup ({Head(wire).req} \ {0})
        BY <1>1, <2>2, <3>1, ReqsMoved
      <3>3. ReqsOf(wire) = ({Head(wire).req} \ {0}) \cup ReqsOf(wire')
        BY <1>1, <2>2, ReqsMoved
      <3> QED  BY <2>1, <3>2, <3>3, WaitingAfter DEF WaitingReqs
    <2>3. ASSUME wire' = wire \/ (wire # <<>> /\ wire' = Tail(wire)),
                 rx' \in {rx, Append(rx, Noise)}
          PROVE  WaitingReqs' \subseteq WaitingReqs
      <3>1. ReqsOf(Append(rx, Noise)) = ReqsOf(rx) \cup ({Noise.req} \ {0})
        BY <1>1, NoiseUnit, ReqsMoved
      <3>2. ReqsOf(rx') = ReqsOf(rx)
        BY <2>3, <3>1, NoiseUnit
      <3>3. ReqsOf(wire') \subseteq ReqsOf(wire)
        BY <1>1, <2>3, ReqsMoved
      <3> QED  BY <2>1, <3>2, <3>3, WaitingAfter DEF WaitingReqs
    <2> QED  BY <1>9, <2>2, <2>3, Arrived
  <1>10. ASSUME NEW e \in Errors, FailStep(e)  PROVE WaitingReqs' \subseteq WaitingReqs
    <2>1. wire' = wire /\ loc' = [Fresh EXCEPT !.err = e]
          /\ (rx' = rx \/ (rx # <<>> /\ rx' = Tail(rx)))
      BY <1>10 DEF FailStep, Fail
    <2>2. loc'.got = <<>>
      BY <2>1, FailedLocals
    <2> QED  BY <2>1, <2>2, WaitingDropped
  <1> QED  BY <1>2, <1>3, <1>4, <1>5, <1>6, <1>7, <1>8, <1>9, <1>10, Steps DEF Master

\* A step that takes, forwards and answers no request, and makes none.
LEMMA StageKept ==
  ASSUME TypedControl, [Next]_vars, ~TcpSend, ~SendWrite, ~MasterSend,
         ~(ListenLast /\ pc' # "failed")
  PROVE  /\ UNCHANGED <<sent, served>>
         /\ \/ Stage' = Stage /\ Cur' = Cur
            \/ Stage # "free" /\ Stage' = "free" /\ Cur' = 0
  <1>1. ASSUME pc' = pc, loc'.req = loc.req  PROVE Stage' = Stage /\ Cur' = Cur
    BY <1>1 DEF Stage, Cur
  <1>2. ASSUME pc' \in {"idle", "ready", "rtuPoll", "rtuListen", "failed", "drain"}
        PROVE  \/ Stage' = Stage /\ Cur' = Cur
               \/ Stage # "free" /\ Stage' = "free" /\ Cur' = 0
    BY <1>2 DEF Stage, Cur
  <1>3. ASSUME pc \in {"tcpPoll", "tcpListen", "flush"}, loc'.req = loc.req,
               pc' \in {"tcpPoll", "tcpListen", "flush", "write"}
        PROVE  Stage' = Stage /\ Cur' = Cur
    BY <1>3 DEF Stage, Cur
  <1>4. CASE UNCHANGED vars \/ MasterGiveUp \/ Server \/ Line
    <2>1. UNCHANGED <<sent, served, pc, loc>>
      BY <1>4, Arrived DEF vars, masterVars, MasterGiveUp, Server, ServerAnswer, ServerIgnore,
                  TcpArrive, ServerClose
    <2> QED  BY <1>1, <2>1
  <1>5. CASE Caller \/ ListenRetry
    <2>1. UNCHANGED <<sent, served>>
          /\ pc' \in {"idle", "ready", "rtuPoll", "rtuListen"}
      BY <1>5 DEF Caller, Connect, CallNext, IntoStream, ListenRetry, masterVars
    <2> QED  BY <1>2, <2>1
  <1>6. CASE ListenHeader \/ ListenBody
    BY <1>2, <1>6, UnitRead
  <1>7. CASE TcpListenMore \/ TcpListenLast
    <2>1. pc = "tcpListen"
      BY <1>7 DEF TcpListenMore, TcpListenLast, ReadPart
    <2> QED  BY <1>3, <1>7, <2>1, PartRead, AnswerRead
  <1>8. CASE PollReady \/ PollSleep
    BY <1>1, <1>2, <1>3, <1>8, Polled
  <1>9. CASE SendFlush
    <2>1. UNCHANGED <<sent, served, loc>> /\ pc = "flush" /\ pc' = "write"
      BY <1>9 DEF SendFlush, masterVars
    <2> QED  BY <1>3, <2>1
  <1>10. CASE SendDrain \/ SendError
    <2>1. UNCHANGED <<sent, served>> /\ pc' \in {"ready", "failed"}
      BY <1>10 DEF SendDrain, SendError, masterVars
    <2> QED  BY <1>2, <2>1
  <1>11. CASE \E e \in Errors : FailStep(e)
    <2>1. UNCHANGED <<sent, served>> /\ pc' = "failed"
      BY <1>11 DEF FailStep, Fail, masterVars
    <2> QED  BY <1>2, <2>1
  <1> QED  BY <1>4, <1>5, <1>6, <1>7, <1>8, <1>9, <1>10, <1>11, Steps
           DEF Master, RtuSend, SendFrame

\* The oldest request that waits is taken.
LEMMA StepTakes ==
  ASSUME NoRepeat, TypedControl, TypedControl', LineSorted, OwedOnce, [Next]_vars,
         ListenLast, pc' # "failed"
  PROVE  G!Take
  <1> DEFINE r == loc'.req
  <1>1. /\ pc = "rtuListen" /\ pc' = "tcpSend" /\ UNCHANGED <<wire, sent, served>>
        /\ rx # <<>> /\ rx' = Tail(rx) /\ loc'.got = <<>> /\ r \in 1..MaxReq
        /\ Got = Frame(r)
    BY RequestRead
  <1>2. /\ rx \in Seq(Unit) /\ wire \in Seq(Unit) /\ loc.got \in Seq(Unit)
        /\ Tail(rx) \in Seq(Unit) /\ Head(rx) \in Unit
    BY <1>1, LineTypes, HeadTail DEF TypedControl, TypeOK, Locals
  <1>3. Stage = "free" /\ Stage' = "taken" /\ Cur' = r
    BY <1>1 DEF Stage, Cur
  <1>4. OwedReqs' = OwedReqs
    <2>1. ~TcpSend
      BY <1>1 DEF TcpSend
    <2> QED  BY <1>1, <2>1, OwedNext
  <1>5. /\ Head(rx).req = r /\ r # 0
        /\ \A i \in 1..Len(Tail(rx)) : Tail(rx)[i].req # 0 => r < Tail(rx)[i].req
        /\ \A i \in 1..Len(wire) : wire[i].req # 0 => r < wire[i].req
    BY <1>1, RequestGone
  <1>6. (\A q \in ReqsOf(Tail(rx)) : r < q) /\ \A q \in ReqsOf(wire) : r < q
    <2> DEFINE t == Tail(rx)
    <2>1. t \in Seq(Unit) /\ \A i \in 1..Len(t) : t[i].req # 0 => r < t[i].req
      BY <1>2, <1>5
    <2>2. DOMAIN wire = 1..Len(wire)
      BY <1>2
    <2> HIDE DEF t
    <2>3. DOMAIN t = 1..Len(t)
      BY <2>1
    <2>4. \A q \in ReqsOf(t) : r < q
      BY <2>1, <2>3 DEF ReqsOf
    <2>5. \A q \in ReqsOf(wire) : r < q
      BY <1>5, <2>2 DEF ReqsOf
    <2> QED  BY <2>4, <2>5 DEF t
  <1>7. ReqsOf(rx) = {r} \cup ReqsOf(Tail(rx))
    BY <1>1, <1>2, <1>5, ReqsMoved
  <1>8. ReqsOf(loc.got) \subseteq {r}
    <2>1. ReqsOf(Append(loc.got, Head(rx))) = {r}
      BY <1>1, ReqsFrame DEF Got
    <2>2. ReqsOf(Append(loc.got, Head(rx))) = ReqsOf(loc.got) \cup ({Head(rx).req} \ {0})
      BY <1>2, ReqsMoved
    <2> QED  BY <2>1, <2>2
  <1>9. WaitingReqs = {r} \cup ReqsOf(Tail(rx)) \cup ReqsOf(wire)
    BY <1>7, <1>8 DEF WaitingReqs
  <1>10. WaitingReqs' = ReqsOf(Tail(rx)) \cup ReqsOf(wire)
    BY <1>1, ReqsNone, WaitingAfter
  <1> HIDE DEF r
  <1>11. r \in WaitingReqs /\ \A q \in WaitingReqs : r <= q
    <2>1. r \in Int /\ \A q \in WaitingReqs : q = r \/ r < q
      BY <1>1, <1>6, <1>9
    <2>2. \A q \in WaitingReqs : q \in Int
      <3>1. ReqsOf(Tail(rx)) \subseteq Int /\ ReqsOf(wire) \subseteq Int
        <4>1. \A u \in Unit : u.req \in Int
          BY Sizes DEF Unit
        <4>2. \A s \in Seq(Unit) : ReqsOf(s) \subseteq Int
          BY <4>1, ElementIn DEF ReqsOf
        <4> QED  BY <1>2, <4>2
      <3> QED  BY <1>9, <2>1, <3>1
    <2> QED  BY <1>9, <2>1, <2>2
  <1>12. WaitingReqs' = WaitingReqs \ {r}
    <2>1. r \notin ReqsOf(Tail(rx)) /\ r \notin ReqsOf(wire)
      <3>1. r \in Int /\ ~(r < r)
        BY <1>1
      <3> QED  BY <1>6, <3>1
    <2> QED  BY <1>9, <1>10, <2>1
  <1> QED  BY <1>1, <1>3, <1>4, <1>11, <1>12 DEF G!Take

\* The server may take the request; it was owed nothing for it before.
LEMMA StepForwards ==
  ASSUME TypedControl, TypedControl', OwedOnce, TcpSend, loc.req \notin OwedReqs
  PROVE  G!Forward
  <1>1. /\ pc = "tcpSend" /\ pc' \in {"tcpPoll", "tcpListen"}
        /\ UNCHANGED <<loc, sent, wire, rx, served>>
    BY RequestSent
  <1>2. Stage = "taken" /\ Stage' = "forwarded" /\ Cur = loc.req /\ Cur' = Cur
    BY <1>1 DEF Stage, Cur
  <1>3. WaitingReqs' = WaitingReqs
    BY <1>1, WaitingAfter DEF WaitingReqs
  <1>4. OwedReqs' \in {OwedReqs, OwedReqs \cup {Cur}}
    BY <1>2, OwedSent
  <1> QED  BY <1>1, <1>2, <1>3, <1>4 DEF G!Forward

\* The master gets an answer that was owed, and nobody gets it again; a
\* garbled one ends the exchange and is no answer.
LEMMA StepAnswers ==
  ASSUME NoRepeat, TypedControl, TypedControl', OwedOnce, [Next]_vars, SendWrite
  PROVE  G!Answer \/ G!Fail
  <1>1. /\ pc = "write" /\ pc' = "drain" /\ loc' = Fresh
        /\ UNCHANGED <<sent, wire, rx, srv, net, tcpIn, stream>>
        /\ IF loc.resp = 0 THEN served' = served
           ELSE served' = Append(served, [req |-> loc.req, resp |-> loc.resp])
    BY AnswerSent
  <1>2. Stage = "forwarded" /\ Stage' = "free" /\ Cur = loc.req /\ Cur' = 0
    BY <1>1 DEF Stage, Cur
  <1>3. loc.tcp = <<>> /\ loc'.tcp = <<>> /\ loc.got = <<>> /\ loc'.got = <<>>
        /\ loc'.resp = 0
    BY <1>1, FreshLocals DEF TypedControl, ControlOK
  <1>4. WaitingReqs' = WaitingReqs
    BY <1>1, <1>3, WaitingAfter DEF WaitingReqs
  <1>5. Flow' = Flow
    BY <1>1, <1>3 DEF Flow
  <1>6. OwedReqs' = OwedReqs \ ({loc.resp} \ {0})
    <2>1. loc.resp # 0 => loc.resp \notin ReqsOf(Flow) /\ \A q \in srv : q.req # loc.resp
      BY DEF OwedOnce
    <2>2. OwedReqs' = {q.req : q \in srv} \cup ReqsOf(Flow)
      BY <1>1, <1>3, <1>5, OwedFlow
    <2> QED  BY <2>1, <2>2, OwedFlow
  <1>7. CASE loc.resp = 0
    BY <1>1, <1>2, <1>4, <1>6, <1>7 DEF G!Fail
  <1>8. CASE loc.resp # 0
    <2>1. loc.resp \in OwedReqs /\ OwedReqs' = OwedReqs \ {loc.resp}
      BY <1>6, <1>8 DEF OwedReqs
    <2>2. served' = Append(served, [req |-> Cur, resp |-> loc.resp])
      BY <1>1, <1>2, <1>8
    <2> QED  BY <1>1, <1>2, <1>4, <2>1, <2>2 DEF G!Answer
  <1> QED  BY <1>7, <1>8

\* The master makes a request.
LEMMA StepAsks ==
  ASSUME NoRepeat, TypedControl, TypedControl', OwedOnce, [Next]_vars, MasterSend
  PROVE  G!Ask
  <1>1. /\ sent' = sent + 1 /\ sent' \in 1..MaxReq /\ wire' = wire \o Frame(sent')
        /\ wire \in Seq(Unit) /\ Frame(sent') \in Seq(Unit)
        /\ UNCHANGED <<pc, loc, rx, srv, served>>
    BY RequestMade
  <1>2. Stage' = Stage /\ Cur' = Cur
    BY <1>1 DEF Stage, Cur
  <1>3. OwedReqs' = OwedReqs
    BY <1>1, OwedFlow, RequestMade DEF Flow
  <1>4. WaitingReqs' = WaitingReqs \cup {sent'}
    <2> DEFINE f == Frame(sent')
    <2>1. ReqsOf(f) = {sent'} /\ f \in Seq(Unit) /\ wire' = wire \o f
      BY <1>1, ReqsFrame
    <2> HIDE DEF f
    <2>2. ReqsOf(wire \o f) = ReqsOf(wire) \cup ReqsOf(f)
      BY <1>1, <2>1, ReqsJoined
    <2>3. ReqsOf(wire') = ReqsOf(wire) \cup {sent'}
      BY <2>1, <2>2
    <2> QED  BY <1>1, <2>3, WaitingAfter DEF WaitingReqs
  <1> QED  BY <1>1, <1>2, <1>3, <1>4 DEF G!Ask

\* Anything else only loses requests and answers, or ends the exchange.
LEMMA StepLoses ==
  ASSUME NoRepeat, TypedControl, TypedControl', OwedOnce, [Next]_vars,
         ~TcpSend, ~SendWrite, ~MasterSend, ~(ListenLast /\ pc' # "failed")
  PROVE  G!Lose \/ G!Fail
  <1>1. WaitingReqs' \subseteq WaitingReqs /\ OwedReqs' \subseteq OwedReqs
    BY WaitingNext, OwedNext
  <1> QED  BY <1>1, StageKept DEF G!Lose, G!Fail

-----------------------------------------------------------------------------
(* Every step of client mode is one of Gateway's, so that the invariant    *)
(* proved of Gateway can be used on the way.                               *)

P == INSTANCE GatewayProofs WITH asked <- sent, waiting <- WaitingReqs, stage <- Stage,
                                 cur <- Cur, owed <- OwedReqs, served <- served

RefInv == NoRepeat /\ TypedControl /\ LineSorted /\ OwedOnce /\ P!GInv

\* A request being sent to the server is newer than all that are owed.
LEMMA NewRequest ==
  ASSUME TypedControl, P!GInv, TcpSend  PROVE loc.req \notin OwedReqs
  <1>1. Stage = "taken" /\ Cur = loc.req
    BY RequestSent DEF Stage, Cur
  <1>2. \A r \in OwedReqs : r < loc.req
    BY <1>1 DEF P!GInv, P!Older
  <1>3. loc.req \in Int
    BY RequestSent DEF Tids
  <1> QED  BY <1>2, <1>3

LEMMA StepImplements ==
  RefInv /\ [Next]_vars => [G!Next]_(G!vars) /\ OwedOnce'
  <1> SUFFICES ASSUME RefInv, [Next]_vars  PROVE G!Next /\ OwedOnce'
    OBVIOUS
  <1>1. /\ TypedControl /\ TypedControl' /\ LineSorted /\ OwedOnce /\ P!GInv /\ NoRepeat
    BY TypesNext DEF RefInv
  <1>2. CASE TcpSend
    <2>1. loc.req \notin OwedReqs
      BY <1>1, <1>2, NewRequest
    <2> QED  BY <1>1, <1>2, <2>1, OwedSent, StepForwards DEF G!Next
  <1>3. ASSUME ~TcpSend  PROVE OwedOnce'
    BY <1>1, <1>3, OwedNext
  <1>4. CASE ListenLast /\ pc' # "failed"
    <2>1. ~TcpSend
      BY <1>4 DEF ListenLast, ReadUnit, TcpSend
    <2> QED  BY <1>1, <1>3, <1>4, <2>1, StepTakes DEF G!Next
  <1>5. CASE SendWrite
    <2>1. ~TcpSend
      BY <1>5 DEF SendWrite, TcpSend
    <2> QED  BY <1>1, <1>3, <1>5, <2>1, StepAnswers DEF G!Next
  <1>6. CASE MasterSend
    <2>1. ~TcpSend
      BY <1>1, <1>6, RequestMade, RequestSent
    <2> QED  BY <1>1, <1>3, <1>6, <2>1, StepAsks DEF G!Next
  <1>7. CASE ~TcpSend /\ ~SendWrite /\ ~MasterSend /\ ~(ListenLast /\ pc' # "failed")
    BY <1>1, <1>3, <1>7, StepLoses DEF G!Next
  <1> QED  BY <1>2, <1>4, <1>5, <1>6, <1>7

LEMMA RefNext == RefInv /\ [Next]_vars => RefInv'
  <1> SUFFICES ASSUME RefInv, [Next]_vars  PROVE RefInv'
    OBVIOUS
  <1>1. TypedControl' /\ LineSorted' /\ NoRepeat'
    BY TypesNext, LineSortedNext, NumbersKept DEF RefInv, NoRepeat, Fault
  <1>2. [G!Next]_(G!vars) /\ OwedOnce'
    BY StepImplements
  <1>3. [P!Next]_(P!vars)
    BY <1>2 DEF G!Next, P!Next, G!vars, P!vars, G!Ask, P!Ask, G!Lose, P!Lose,
                G!Take, P!Take, G!Forward, P!Forward, G!Answer, P!Answer, G!Fail, P!Fail
  <1>4. P!GInv'
    BY <1>3, P!NextGInv DEF RefInv
  <1> QED  BY <1>1, <1>2, <1>4 DEF RefInv

LEMMA InitImplements == Init /\ NoRepeat => G!Init /\ RefInv
  <1> SUFFICES ASSUME Init, NoRepeat  PROVE G!Init /\ RefInv
    OBVIOUS
  <1>1. /\ pc = "idle" /\ loc = Fresh /\ sent = 0 /\ wire = <<>> /\ rx = <<>> /\ served = <<>>
        /\ srv = {} /\ net = <<>> /\ tcpIn = <<>>
    BY DEF Init
  <1>2. loc.got = <<>> /\ loc.tcp = <<>> /\ loc.resp = 0
    BY <1>1, FreshLocals
  <1>3. Stage = "free" /\ Cur = 0 /\ WaitingReqs = {} /\ OwedReqs = {}
    BY <1>1, <1>2, ReqsNone DEF Stage, Cur, WaitingReqs, OwedReqs
  <1>4. G!Init
    BY <1>1, <1>3 DEF G!Init
  <1>5. P!GInv
    BY <1>4, P!InitGInv DEF G!Init, P!Init
  <1>6. TypedControl /\ LineSorted
    BY TypesInit, EndInit DEF EndInv
  <1>7. OwedOnce
    <2>1. Flow = <<>>
      BY <1>1, <1>2 DEF Flow
    <2> QED  BY <1>1, <1>2, <2>1, ReqsNone
             DEF OwedOnce, Distinct, Whole, EndsWhole, HeaderRead
  <1> QED  BY <1>4, <1>5, <1>6, <1>7 DEF RefInv

(***************************************************************************)
(* Client mode implements Gateway, whatever the caller, the master, the    *)
(* line and the network do and whatever ids the server echoes, as long as  *)
(* the server answers no request twice: a request is forwarded and         *)
(* answered at most once, in the order the requests came, and an answer    *)
(* given to the master was owed until then and is never given again.       *)
(***************************************************************************)
THEOREM ClientImplements == Spec /\ NoRepeat => GatewaySpec
  <1>1. Spec /\ NoRepeat => []RefInv
    BY InitImplements, RefNext, PTL DEF Spec
  <1> QED  BY <1>1, InitImplements, StepImplements, PTL DEF Spec, GatewaySpec, G!Spec

\* An answer given to the master is its request's own or one to an earlier
\* request, and it is given once.
ServedOnce ==
  \A i, j \in 1..Len(served) :
    /\ i < j => served[i].req < served[j].req
    /\ i # j => served[i].resp # served[j].resp
    /\ served[i].resp <= served[i].req

(***************************************************************************)
(* An answer that comes too late for its request may be given to a later   *)
(* one (the master sees a Warning, or not), but no answer twice and none   *)
(* before it was asked for, and the requests are answered in order.        *)
(***************************************************************************)
THEOREM ClientServesOnce == Spec /\ NoRepeat => []ServedOnce
  <1>1. Spec /\ NoRepeat => []RefInv
    BY InitImplements, RefNext, PTL DEF Spec
  <1>2. RefInv => ServedOnce
    BY DEF RefInv, P!GInv, P!InOrder, P!NoAnswerTwice, P!NeverAhead, ServedOnce
  <1> QED  BY <1>1, <1>2, PTL
=============================================================================
