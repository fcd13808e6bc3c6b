---------------------------- MODULE ClientSession ----------------------------
(***************************************************************************)
(* Client mode of modbus-bridge-rs: an RTU master on the serial line is    *)
(* served by a Modbus TCP server.  Client::connect wraps a TCP stream in a *)
(* ClientSession, and each call of ClientSession::next reads one request   *)
(* from the line, sends it to the server under the next transaction id,    *)
(* and sends the server's answer back to the master.                       *)
(*                                                                         *)
(* One specification covers the four bodies of next (async and sync, with  *)
(* and without timeouts).  The build, the timeouts given to the builder,   *)
(* what the caller does after an error and what may go wrong are one       *)
(* scenario, chosen by Init and kept.  The master, the server, the line    *)
(* and the network are the environment.                                    *)
(*                                                                         *)
(* A request is known by its number.  On the line it is ReqLen units, on   *)
(* the stream an answer is two parts; a unit or a part is what one read    *)
(* takes, so that frames can be torn, lost in part and read piecemeal.     *)
(***************************************************************************)
EXTENDS Integers, Sequences, FiniteSets

CONSTANTS
  NoTimeout,   \* the None of rtu_timeout_ms and tcp_timeout_ms
  Scenarios,   \* what a behaviour may start with, a subset of Scenario
  TidMod,      \* transaction ids there are (65536 in the code)
  Hdr,         \* units of a request that decide its length
  ReqLen,      \* units of a whole request
  RtuBuf,      \* units the buffer of ModbusRtu::listen holds
  MaxAttempt,  \* read errors tolerated per read_exact (10 in the code)
  MaxLeft,     \* bound on the parts a misread MBAP header may ask for
  MaxSess,     \* bound on the sessions connected
  MaxReq,      \* bound on the requests the master makes
  MaxRx        \* bound on the UART buffer while the line babbles

(***************************************************************************)
(*   noise, loss    a unit of a request is corrupted or lost on the line   *)
(*   babble         a unit nobody sent appears on the line                 *)
(*   impatient      the master may give up a request at any time           *)
(*   readErr        a serial read returns an error                         *)
(*   rtuEof         a serial read returns 0 bytes                          *)
(*   pollErr        read_ready returns an error                            *)
(*   writeErr       a serial write or flush returns an error               *)
(*   tcpErr         a TCP read or write returns an error                   *)
(*   close          the server closes the stream                           *)
(*   silent         the server does not answer a request                   *)
(*   wrongTid       the server answers with a transaction id of its own    *)
(*   repeat         the server answers a request twice                     *)
(***************************************************************************)
AllFaults == {"noise", "loss", "babble", "impatient", "readErr", "rtuEof",
              "pollErr", "writeErr", "tcpErr", "close", "silent", "wrongTid",
              "repeat"}

(***************************************************************************)
(* What the caller does after an error: leave, as the documented loop      *)
(* does, and connect a fresh stream or the one that into_stream gives      *)
(* back; or call next again.                                               *)
(***************************************************************************)
Callers  == {"fresh", "reuse", "resume"}
Timeouts == Nat \cup {NoTimeout}
Scenario == [mode : {"async", "sync"}, rtu : Timeouts, tcp : Timeouts,
             caller : Callers, faults : SUBSET AllFaults]

ASSUME ScenarioAssumption == NoTimeout \notin Nat /\ Scenarios \subseteq Scenario

ASSUME SizeAssumption ==
  /\ TidMod \in Nat /\ TidMod >= 1
  /\ Hdr \in Nat /\ Hdr >= 1
  /\ ReqLen \in Nat /\ ReqLen > Hdr
  /\ RtuBuf \in Nat /\ RtuBuf >= ReqLen
  /\ MaxAttempt \in Nat /\ MaxAttempt >= 1
  /\ MaxLeft \in Nat /\ MaxLeft >= 1

ASSUME BoundAssumption == MaxSess \in Nat /\ MaxReq \in Nat /\ MaxRx \in Nat

VARIABLES
  setup,      \* the scenario
  pc,         \* where the caller's loop and the call of next are
  sess,       \* sessions connected so far
  loc,        \* locals of the call of next (see Fresh)
  txEn,       \* level of the RS-485 transmit-enable pin
  tid,        \* ModbusTcp::transaction_id of the live session
  sent,       \* requests the master has made
  mcur,       \* the request whose answer the master awaits, 0 for none
  wire,       \* units of requests still on the line
  rx,         \* units in the UART, not yet read
  numbered,   \* history: the requests that took a transaction id, in order
  srv,        \* requests the server has taken and not answered
  net,        \* parts of answers on their way
  tcpIn,      \* parts of answers arrived on the live stream, not yet read
  stream,     \* the live stream: closed by the server; a request sent in part;
              \*   history: reused, cut
  delivered,  \* history: what was sent to the master, in order
  served,     \* history: what of it was an answer, and to which request
  past        \* history: torn, sendFailed (see Fail and SendError)

masterVars == <<sent, mcur>>
lineVars   == <<wire, rx>>
serverVars == <<srv, net>>
vars == <<setup, pc, sess, loc, txEn, tid, masterVars, lineVars, numbered,
          serverVars, tcpIn, stream, delivered, served, past>>

-----------------------------------------------------------------------------
(* Values. *)

Errors == {"RtuClosed", "TcpClosed", "RtuIo", "TcpIo", "RtuCrcMismatch",
           "BufferOverflow", "Timeout"}

Noise    == [req |-> 0, ix |-> 0]
Unit     == [req : 0..MaxReq, ix : 0..ReqLen]
Part     == [req : 1..MaxReq, tid : 0..(TidMod - 1), ix : 1..2]
Frame(r) == [i \in 1..ReqLen |-> [req |-> r, ix |-> i]]
Answer(r, t) == [i \in 1..2 |-> [req |-> r, tid |-> t, ix |-> i]]

ReqsOf(s) == {s[i].req : i \in DOMAIN s} \ {0}

(***************************************************************************)
(* The locals of a call: the request it serves and the transaction id it   *)
(* took; the request as read so far, how many units it still lacks after   *)
(* its header, and the attempt counter of the current read_exact; the      *)
(* milliseconds a polling loop has waited; the answer as read so far and   *)
(* the parts it still lacks; the request the answer is for (0: none, it is *)
(* garbled) and whether it will be reported as a Warning.  err is the      *)
(* error the last call returned.                                           *)
(***************************************************************************)
Fresh == [req |-> 0, tid |-> 0, got |-> <<>>, need |-> 0, attempt |-> 1,
          elapsed |-> 0, tcp |-> <<>>, left |-> 0, resp |-> 0, warn |-> FALSE,
          err |-> "none"]

Timed(t) == t # NoTimeout
Fault(f) == f \in setup.faults

FreshStream == [eof |-> FALSE, half |-> FALSE, reused |-> FALSE, cut |-> FALSE]

Init ==
  /\ setup \in Scenarios
  /\ pc = "idle" /\ sess = 0 /\ loc = Fresh /\ txEn = FALSE /\ tid = 0
  /\ sent = 0 /\ mcur = 0 /\ wire = <<>> /\ rx = <<>>
  /\ numbered = <<>> /\ srv = {} /\ net = <<>> /\ tcpIn = <<>>
  /\ stream = FreshStream /\ delivered = <<>> /\ served = <<>>
  /\ past = [torn |-> FALSE, sendFailed |-> FALSE]

-----------------------------------------------------------------------------
(* The caller: Client::connect, the loop over next, into_stream. *)

\* ModbusTcp::new starts the transaction counter at 0, whatever the stream.
Connect ==
  /\ pc = "idle" /\ sess < MaxSess
  /\ pc' = "ready" /\ sess' = sess + 1 /\ tid' = 0 /\ loc' = Fresh
  /\ IF setup.caller = "reuse" /\ sess > 0
     THEN /\ stream' = [stream EXCEPT !.reused = TRUE]
          /\ UNCHANGED <<serverVars, tcpIn>>
     ELSE stream' = FreshStream /\ srv' = {} /\ net' = <<>> /\ tcpIn' = <<>>
  /\ UNCHANGED <<setup, txEn, masterVars, lineVars, numbered, delivered, served,
                 past>>

CallNext ==
  /\ pc = "ready" \/ (pc = "failed" /\ setup.caller = "resume")
  /\ pc' = IF setup.mode = "sync" /\ Timed(setup.rtu) THEN "rtuPoll" ELSE "rtuListen"
  /\ loc' = Fresh
  /\ UNCHANGED <<setup, sess, txEn, tid, masterVars, lineVars, numbered,
                 serverVars, tcpIn, stream, delivered, served, past>>

\* The caller leaves its loop, after an error or of its own accord.
IntoStream ==
  /\ pc = "failed" \/ (pc = "ready" /\ sess < MaxSess)
  /\ pc' = "idle" /\ loc' = Fresh
  /\ UNCHANGED <<setup, sess, txEn, tid, masterVars, lineVars, numbered,
                 serverVars, tcpIn, stream, delivered, served, past>>

Caller == Connect \/ CallNext \/ IntoStream

\* The errors that end a read before the end of what it takes for a frame.
Abandons(e) == e \notin {"RtuCrcMismatch", "BufferOverflow"}

\* Mutant: the loop goes on after an error.
FailAndGoOn(e) ==
  /\ pc' = "ready" /\ loc' = [Fresh EXCEPT !.err = e]
  /\ past' = [past EXCEPT !.torn = @ \/ (Abandons(e) /\ loc.got # <<>>)]
  /\ stream' = [stream EXCEPT !.cut = @ \/ (Abandons(e) /\ loc.tcp # <<>>),
                             !.half = @ \/ pc = "tcpSend"]
  /\ UNCHANGED <<setup, sess, tid, masterVars, wire, numbered, serverVars,
                 delivered, served>>

(***************************************************************************)
(* next returns an error and drops its locals: what it has read of an      *)
(* unfinished request is torn off the line, and of an unfinished answer    *)
(* cut off the stream; and half a request may be sent.  Everything that    *)
(* next does not own stays.                                                *)
(***************************************************************************)
Fail(e) ==
  /\ pc' = "failed" /\ loc' = [Fresh EXCEPT !.err = e]
  /\ past' = [past EXCEPT !.torn = @ \/ (Abandons(e) /\ loc.got # <<>>)]
  /\ stream' = [stream EXCEPT !.cut = @ \/ (Abandons(e) /\ loc.tcp # <<>>),
                             !.half = @ \/ pc = "tcpSend"]
  /\ UNCHANGED <<setup, sess, tid, masterVars, wire, numbered, serverVars,
                 delivered, served>>

\* What the map_err closures of next make of the transports' errors.
RtuErr == [Serial |-> "RtuIo", Crc |-> "RtuCrcMismatch",
           PayloadTooShort |-> "RtuClosed", Push |-> "BufferOverflow"]
TcpErr == [PayloadTooShort |-> "TcpClosed", Tcp |-> "TcpIo", Push |-> "BufferOverflow"]

-----------------------------------------------------------------------------
(***************************************************************************)
(* ModbusRtu::listen: the header, then the rest one read_exact at a time.  *)
(* Then rtu_to_tcp with next_transaction_id, which cannot fail.            *)
(***************************************************************************)
Got == Append(loc.got, Head(rx))

(***************************************************************************)
(* The units a header asks for: right when the header is one request's     *)
(* own, otherwise whatever its bytes make of it.                           *)
(***************************************************************************)
NeedLessOne(h) == {ReqLen - Hdr - 1}  \* mutant: a CRC byte is forgotten
NeedPlusOne(h) == {ReqLen - Hdr + 1}  \* mutant: one byte too many
Need(h) == IF \E r \in 1..sent : h = SubSeq(Frame(r), 1, Hdr)
           THEN {ReqLen - Hdr}
           ELSE 1..(RtuBuf - Hdr + 1)

ReadUnit == pc = "rtuListen" /\ rx # <<>> /\ rx' = Tail(rx)

ListenHeader ==
  /\ ReadUnit /\ Len(loc.got) < Hdr
  /\ IF Len(Got) < Hdr
     THEN loc' = [loc EXCEPT !.got = Got]
     ELSE \E n \in Need(Got) :
            loc' = [loc EXCEPT !.got = Got, !.need = n, !.attempt = 1]
  /\ UNCHANGED <<setup, pc, sess, txEn, tid, masterVars, wire, numbered,
                 serverVars, tcpIn, stream, delivered, served, past>>

\* A fixed-length rest is one read_exact, a variable one a read_exact per
\* byte: the attempts start anew or they do not.
ListenBody ==
  /\ ReadUnit /\ loc.need > 1 /\ Len(loc.got) < RtuBuf
  /\ \E a \in {1, loc.attempt} :
       loc' = [loc EXCEPT !.got = Got, !.need = @ - 1, !.attempt = a]
  /\ UNCHANGED <<setup, pc, sess, txEn, tid, masterVars, wire, numbered,
                 serverVars, tcpIn, stream, delivered, served, past>>

\* The unit that no longer fits is lost.
ListenOverflow ==
  /\ ReadUnit /\ loc.need >= 1 /\ Len(loc.got) = RtuBuf
  /\ Fail(RtuErr.Push)
  /\ UNCHANGED <<txEn, tcpIn>>

\* Mutant: check_crc is forgotten, the request is taken for the newest one.
IntactUnchecked(g) == {sent}

\* The requests whose CRC is right: whole, in order, nothing in between.
Intact(g) == {r \in 1..sent : g = Frame(r)}

SameId == tid  \* mutant: the counter is read and not advanced

\* wrapping_add(1) on a u16.
next_transaction_id == (tid + 1) % TidMod

ListenLast ==
  /\ ReadUnit /\ loc.need = 1 /\ Len(loc.got) < RtuBuf
  /\ \/ \E r \in Intact(Got) :
          /\ pc' = "tcpSend" /\ tid' = next_transaction_id
          /\ loc' = [Fresh EXCEPT !.req = r, !.tid = tid']
          /\ numbered' = Append(numbered, [sess |-> sess, req |-> r])
          /\ UNCHANGED <<setup, sess, masterVars, wire, serverVars, stream,
                         delivered, served, past>>
     \/ Intact(Got) = {} /\ Fail(RtuErr.Crc)
  /\ UNCHANGED <<txEn, tcpIn>>

ListenEof ==
  /\ pc = "rtuListen" /\ Fault("rtuEof")
  /\ Fail(RtuErr.PayloadTooShort)
  /\ UNCHANGED <<txEn, rx, tcpIn>>

ListenRetryForever ==  \* mutant: the attempts are not counted against the limit
  /\ pc = "rtuListen" /\ Fault("readErr")
  /\ loc' = [loc EXCEPT !.attempt = @ + 1]
  /\ UNCHANGED <<setup, pc, sess, txEn, tid, masterVars, lineVars, numbered,
                 serverVars, tcpIn, stream, delivered, served, past>>

ListenRetry ==
  /\ pc = "rtuListen" /\ Fault("readErr") /\ loc.attempt <= MaxAttempt
  /\ loc' = [loc EXCEPT !.attempt = @ + 1]
  /\ UNCHANGED <<setup, pc, sess, txEn, tid, masterVars, lineVars, numbered,
                 serverVars, tcpIn, stream, delivered, served, past>>

ListenGiveUp ==
  /\ pc = "rtuListen" /\ Fault("readErr") /\ loc.attempt > MaxAttempt
  /\ Fail(RtuErr.Serial)
  /\ UNCHANGED <<txEn, rx, tcpIn>>

ListenUnit == ListenHeader \/ ListenBody \/ ListenOverflow \/ ListenLast
RtuListen == ListenUnit \/ ListenEof \/ ListenRetry \/ ListenGiveUp

-----------------------------------------------------------------------------
(* ModbusTcp::send of the request, ModbusTcp::listen for the answer. *)

\* A closed stream may still take the bytes, but no server gets them.
TcpSend ==
  /\ pc = "tcpSend"
  /\ pc' = IF setup.mode = "sync" /\ Timed(setup.tcp) THEN "tcpPoll" ELSE "tcpListen"
  /\ srv' = IF stream.eof THEN srv ELSE srv \cup {[req |-> loc.req, tid |-> loc.tid]}
  /\ UNCHANGED <<setup, sess, loc, txEn, tid, masterVars, lineVars, numbered, net,
                 tcpIn, stream, delivered, served, past>>

\* A write that fails may have sent the first bytes of the request.
TcpSendError ==
  /\ pc = "tcpSend" /\ Fault("tcpErr")
  /\ Fail(TcpErr.Tcp)
  /\ UNCHANGED <<txEn, rx, tcpIn>>

Parts == Append(loc.tcp, Head(tcpIn))
ReadPart == pc = "tcpListen" /\ tcpIn # <<>> /\ tcpIn' = Tail(tcpIn)

\* What is read as an MBAP header is one: the stream was in step.
InStep == Parts[1].ix = 1

\* A header asks for its answer's body, anything else for any number of parts.
TcpListenMore ==
  /\ ReadPart
  /\ \E n \in IF loc.tcp # <<>> THEN {loc.left - 1}
              ELSE IF InStep THEN {1} ELSE 1..MaxLeft :
       n >= 1 /\ loc' = [loc EXCEPT !.tcp = Parts, !.left = n]
  /\ UNCHANGED <<setup, pc, sess, txEn, tid, masterVars, lineVars, numbered,
                 serverVars, stream, delivered, served, past>>

(***************************************************************************)
(* The whole frame is read: tcp_resp_to_rtu with the id of the request or, *)
(* when that is not the answer's, with the answer's own and a Warning.     *)
(* The id of a garbled frame is whatever its bytes make of it.  After half *)
(* a request the server may answer what that half and the next request     *)
(* make together.                                                          *)
(***************************************************************************)
TcpListenLast ==
  /\ ReadPart /\ loc.left = 1 /\ loc.tcp # <<>>
  /\ pc' = "flush"
  /\ \/ /\ InStep
        /\ loc' = [loc EXCEPT !.tcp = <<>>, !.left = 0, !.resp = Parts[1].req,
                              !.warn = Parts[1].tid # loc.tid]
     \/ /\ ~InStep \/ stream.half
        /\ \E w \in BOOLEAN :
             loc' = [loc EXCEPT !.tcp = <<>>, !.left = 0, !.resp = 0, !.warn = w]
  /\ UNCHANGED <<setup, sess, txEn, tid, masterVars, lineVars, numbered,
                 serverVars, stream, delivered, served, past>>

\* A garbled length overflows the buffer, or is too short for tcp_resp_to_rtu.
TcpListenReject ==
  /\ ReadPart /\ ~InStep
  /\ Fail(TcpErr.Push)
  /\ UNCHANGED <<txEn, rx>>

TcpListenEof ==
  /\ pc = "tcpListen" /\ tcpIn = <<>> /\ stream.eof
  /\ Fail(TcpErr.PayloadTooShort)
  /\ UNCHANGED <<txEn, rx, tcpIn>>

TcpListenError ==
  /\ pc = "tcpListen" /\ Fault("tcpErr")
  /\ Fail(TcpErr.Tcp)
  /\ UNCHANGED <<txEn, rx, tcpIn>>

TcpListenFrame == TcpListenMore \/ TcpListenLast \/ TcpListenReject \/ TcpListenEof
TcpExchange == TcpSend \/ TcpSendError \/ TcpListenFrame \/ TcpListenError

-----------------------------------------------------------------------------
(* ModbusRtu::send of the answer, outside both timeouts, and the event. *)

SendFlush ==
  /\ pc = "flush"
  /\ pc' = "write" /\ txEn' = TRUE
  /\ UNCHANGED <<setup, sess, loc, tid, masterVars, lineVars, numbered,
                 serverVars, tcpIn, stream, delivered, served, past>>

\* The master has the answer once its last byte is out.
SendWrite ==
  /\ pc = "write"
  /\ delivered' = Append(delivered,
       [sess |-> sess, req |-> loc.req, resp |-> loc.resp, warn |-> loc.warn,
        to |-> mcur, clean |-> ~stream.reused /\ ~stream.cut /\ ~stream.half])
  /\ served' = IF loc.resp = 0 THEN served
               ELSE Append(served, [req |-> loc.req, resp |-> loc.resp])
  /\ pc' = "drain" /\ loc' = Fresh /\ mcur' = 0
  /\ UNCHANGED <<setup, sess, txEn, tid, sent, lineVars, numbered,
                 serverVars, tcpIn, stream, past>>

SendDrain ==
  /\ pc = "drain"
  /\ pc' = "ready" /\ txEn' = FALSE
  /\ past' = [past EXCEPT !.sendFailed = FALSE]
  /\ UNCHANGED <<setup, sess, loc, tid, masterVars, lineVars, numbered,
                 serverVars, tcpIn, stream, delivered, served>>

\* The ? of flush and write_all leaves send with the pin as it stands.
SendError ==
  /\ pc \in {"flush", "write", "drain"} /\ Fault("writeErr")
  /\ pc' = "failed" /\ loc' = [Fresh EXCEPT !.err = RtuErr.Serial]
  /\ past' = [past EXCEPT !.sendFailed = TRUE]
  /\ UNCHANGED <<setup, sess, txEn, tid, masterVars, lineVars, numbered,
                 serverVars, tcpIn, stream, delivered, served>>

SendFrame == SendFlush \/ SendWrite \/ SendDrain
RtuSend == SendFrame \/ SendError

-----------------------------------------------------------------------------
(***************************************************************************)
(* The async next with timeouts: a deadline around each listen, and around *)
(* no send.  select polls the I/O future first, so that a deadline never   *)
(* beats input that is there; the losing future is dropped where it stands.*)
(***************************************************************************)
RtuDeadlineFirstByte ==  \* mutant: the deadline covers the first read only
  /\ setup.mode = "async" /\ Timed(setup.rtu)
  /\ pc = "rtuListen" /\ rx = <<>> /\ loc.got = <<>>
  /\ Fail("Timeout")
  /\ UNCHANGED <<txEn, rx, tcpIn>>

RtuDeadline ==
  /\ setup.mode = "async" /\ Timed(setup.rtu)
  /\ pc = "rtuListen" /\ rx = <<>>
  /\ Fail("Timeout")
  /\ UNCHANGED <<txEn, rx, tcpIn>>

TcpDeadlineOnSend ==  \* mutant: the deadline covers the answer's way back too
  /\ setup.mode = "async" /\ Timed(setup.tcp)
  /\ \/ pc = "tcpListen" /\ tcpIn = <<>> /\ ~stream.eof
     \/ pc \in {"flush", "write", "drain"}
  /\ Fail("Timeout")
  /\ UNCHANGED <<txEn, rx, tcpIn>>

TcpDeadline ==
  /\ setup.mode = "async" /\ Timed(setup.tcp)
  /\ pc = "tcpListen" /\ tcpIn = <<>> /\ ~stream.eof
  /\ Fail("Timeout")
  /\ UNCHANGED <<txEn, rx, tcpIn>>

AsyncDeadlines == RtuDeadline \/ TcpDeadline

-----------------------------------------------------------------------------
(***************************************************************************)
(* The sync next with timeouts: a read_ready loop with 1 ms sleeps before  *)
(* each listen.                                                            *)
(***************************************************************************)
Ready == IF pc = "rtuPoll" THEN rx # <<>> ELSE tcpIn # <<>> \/ stream.eof
Budget == IF pc = "rtuPoll" THEN setup.rtu ELSE setup.tcp
InPoll == pc \in {"rtuPoll", "tcpPoll"}

PollReady ==
  /\ InPoll /\ (Ready \/ (pc = "rtuPoll" /\ Fault("rtuEof")))
  /\ pc' = IF pc = "rtuPoll" THEN "rtuListen" ELSE "tcpListen"
  /\ loc' = [loc EXCEPT !.elapsed = 0]
  /\ UNCHANGED <<setup, sess, txEn, tid, masterVars, lineVars, numbered,
                 serverVars, tcpIn, stream, delivered, served, past>>

PollSleep ==
  /\ InPoll /\ ~Ready /\ loc.elapsed < Budget
  /\ loc' = [loc EXCEPT !.elapsed = @ + 1]
  /\ UNCHANGED <<setup, pc, sess, txEn, tid, masterVars, lineVars, numbered,
                 serverVars, tcpIn, stream, delivered, served, past>>

PollExpire ==
  /\ InPoll /\ ~Ready /\ loc.elapsed >= Budget
  /\ Fail("Timeout")
  /\ UNCHANGED <<txEn, rx, tcpIn>>

PollError ==
  /\ InPoll /\ Fault("pollErr")
  /\ Fail(IF pc = "rtuPoll" THEN RtuErr.Serial ELSE TcpErr.Tcp)
  /\ UNCHANGED <<txEn, rx, tcpIn>>

Polling == PollReady \/ PollSleep \/ PollExpire
SyncPolls == Polling \/ PollError

-----------------------------------------------------------------------------
(* The environment: RTU master, serial line and Modbus TCP server. *)

MasterSend ==
  /\ mcur = 0 /\ sent < MaxReq
  /\ sent' = sent + 1 /\ mcur' = sent' /\ wire' = wire \o Frame(sent')
  /\ UNCHANGED <<setup, pc, sess, loc, txEn, tid, rx, numbered, serverVars,
                 tcpIn, stream, delivered, served, past>>

\* A request is under way from the line to the server and back.
Serving == pc \in {"tcpSend", "tcpPoll", "tcpListen", "flush", "write", "drain"}

\* A patient master outwaits the gateway: it gives a request up when the
\* request can no longer be answered.
MasterGiveUp ==
  /\ mcur # 0 /\ (Fault("impatient") \/ (wire = <<>> /\ rx = <<>> /\ ~Serving))
  /\ mcur' = 0
  /\ UNCHANGED <<setup, pc, sess, loc, txEn, tid, sent, lineVars, numbered,
                 serverVars, tcpIn, stream, delivered, served, past>>

Arrive ==
  /\ wire # <<>> /\ wire' = Tail(wire)
  /\ \/ rx' = Append(rx, Head(wire)) /\ past' = past
     \/ /\ \/ Fault("noise") /\ rx' = Append(rx, Noise)
           \/ Fault("loss") /\ rx' = rx
        /\ past' = [past EXCEPT !.torn = TRUE]
  /\ UNCHANGED <<setup, pc, sess, loc, txEn, tid, masterVars, numbered,
                 serverVars, tcpIn, stream, delivered, served>>

Babble ==
  /\ Fault("babble") /\ Len(rx) < MaxRx
  /\ rx' = Append(rx, Noise) /\ past' = [past EXCEPT !.torn = TRUE]
  /\ UNCHANGED <<setup, pc, sess, loc, txEn, tid, masterVars, wire, numbered,
                 serverVars, tcpIn, stream, delivered, served>>

\* The server answers in any order it likes, under the id it was given.
ServerAnswer ==
  /\ ~stream.eof
  /\ \E q \in srv, t \in 0..(TidMod - 1), n \in 1..2 :
       /\ t = q.tid \/ Fault("wrongTid")
       /\ n = 1 \/ Fault("repeat")
       /\ srv' = srv \ {q}
       /\ net' = net \o Answer(q.req, t) \o (IF n = 2 THEN Answer(q.req, t) ELSE <<>>)
  /\ UNCHANGED <<setup, pc, sess, loc, txEn, tid, masterVars, lineVars, numbered,
                 tcpIn, stream, delivered, served, past>>

\* After half a request a server may lose its place, and the next request.
ServerIgnore ==
  /\ Fault("silent") \/ stream.half
  /\ \E q \in srv : srv' = srv \ {q}
  /\ UNCHANGED <<setup, pc, sess, loc, txEn, tid, masterVars, lineVars, numbered,
                 net, tcpIn, stream, delivered, served, past>>

TcpArrive ==
  /\ net # <<>> /\ net' = Tail(net) /\ tcpIn' = Append(tcpIn, Head(net))
  /\ UNCHANGED <<setup, pc, sess, loc, txEn, tid, masterVars, lineVars, numbered,
                 srv, stream, delivered, served, past>>

\* Answers still on their way are lost with the connection.
ServerClose ==
  /\ Fault("close") \/ stream.half
  /\ sess > 0 /\ ~stream.eof
  /\ stream' = [stream EXCEPT !.eof = TRUE] /\ srv' = {} /\ net' = <<>>
  /\ UNCHANGED <<setup, pc, sess, loc, txEn, tid, masterVars, lineVars, numbered,
                 tcpIn, delivered, served, past>>

Master == MasterSend \/ MasterGiveUp
Line   == Arrive \/ Babble
Server == ServerAnswer \/ ServerIgnore \/ TcpArrive \/ ServerClose

-----------------------------------------------------------------------------
Cycle == RtuListen \/ TcpExchange \/ RtuSend

Next == \/ Caller \/ Cycle \/ AsyncDeadlines \/ SyncPolls
        \/ Master \/ Line \/ Server

Spec == Init /\ [][Next]_vars

(***************************************************************************)
(* Fairness.  The caller polls the future (or its thread runs) and both    *)
(* the serial port and the stream take what is sent, so a step of next     *)
(* that can be taken is taken; DelayNs completes, so a deadline or a sleep *)
(* ends.  No fault is fair, and the caller, the line and the server are    *)
(* fair in a scenario without faults only.                                 *)
(***************************************************************************)
ProgramFairness ==
  /\ WF_vars(ListenUnit) /\ WF_vars(TcpSend) /\ WF_vars(TcpListenFrame)
  /\ WF_vars(SendFrame) /\ WF_vars(AsyncDeadlines) /\ WF_vars(Polling)

Healthy == setup.faults = {}

HealthyFairness ==
  /\ WF_vars(Healthy /\ (Connect \/ CallNext)) /\ WF_vars(Healthy /\ Arrive)
  /\ WF_vars(Healthy /\ ServerAnswer) /\ WF_vars(Healthy /\ TcpArrive)

FairSpec == Spec /\ ProgramFairness /\ HealthyFairness

-----------------------------------------------------------------------------
(* Properties. *)

PCs == {"idle", "ready", "rtuPoll", "rtuListen", "failed"} \cup
       {"tcpSend", "tcpPoll", "tcpListen", "flush", "write", "drain"}

Tids == 0..(TidMod - 1)
Number == [sess : 1..MaxSess, req : 1..MaxReq]
Locals == [req : 0..MaxReq, tid : Tids, got : Seq(Unit), need : 0..(RtuBuf - Hdr + 1),
           attempt : 1..(MaxAttempt + 1), elapsed : Nat, tcp : Seq(Part),
           left : 0..MaxLeft, resp : 0..MaxReq, warn : BOOLEAN,
           err : Errors \cup {"none"}]
Delivery == [sess : 1..MaxSess, req : 1..MaxReq, resp : 0..MaxReq, warn : BOOLEAN,
             to : 0..MaxReq, clean : BOOLEAN]
Served == [req : 1..MaxReq, resp : 1..MaxReq]

\* Every variable has its type: no read outgrows the serial buffer, and no
\* read_exact outlives its attempts.
TypeOK ==
  /\ setup \in Scenarios /\ pc \in PCs /\ sess \in 0..MaxSess /\ loc \in Locals
  /\ Len(loc.got) <= RtuBuf
  /\ txEn \in BOOLEAN /\ tid \in Tids /\ sent \in 0..MaxReq /\ mcur \in 0..sent
  /\ wire \in Seq(Unit) /\ rx \in Seq(Unit) /\ numbered \in Seq(Number)
  /\ srv \subseteq [req : 1..MaxReq, tid : Tids] /\ net \in Seq(Part)
  /\ tcpIn \in Seq(Part)
  /\ stream \in [eof : BOOLEAN, half : BOOLEAN, reused : BOOLEAN, cut : BOOLEAN]
  /\ delivered \in Seq(Delivery) /\ served \in Seq(Served)
  /\ past \in [torn : BOOLEAN, sendFailed : BOOLEAN]

(***************************************************************************)
(* A Transaction, which is an answer without a Warning, carries the        *)
(* request's own answer as long as the server echoes ids: except on a      *)
(* stream that was connected twice (its ids start at 1 again), that a      *)
(* deadline cut inside an answer or that took half a request, and except   *)
(* for the answer to the request a whole round of the u16 counter before,  *)
(* in the same session.                                                    *)
(***************************************************************************)
RoundApart(d) ==
  \E m, n \in DOMAIN numbered :
    /\ numbered[m] = [sess |-> d.sess, req |-> d.resp]
    /\ numbered[n] = [sess |-> d.sess, req |-> d.req]
    /\ m < n /\ (n - m) % TidMod = 0

AnswersFlagged ==
  \A i \in DOMAIN delivered :
    LET d == delivered[i] IN
    d.clean /\ ~d.warn /\ ~Fault("wrongTid") => d.resp = d.req \/ RoundApart(d)

(***************************************************************************)
(* End to end.  A patient master whose gateway connects anew after every   *)
(* error gets the answer to the request it is waiting for and no other,    *)
(* whatever the line and the network do and whatever ids the server        *)
(* echoes, as long as the server answers no request twice.                 *)
(***************************************************************************)
EndToEnd ==
  setup.caller = "fresh" /\ ~Fault("impatient") /\ ~Fault("repeat") =>
    \A i \in DOMAIN delivered :
      LET d == delivered[i] IN d.to = d.req /\ d.resp = d.req

(***************************************************************************)
(* A request fails its CRC check only on a line that was disturbed, or off *)
(* which an earlier call has torn the first half of a request; the buffers *)
(* overflow only then or on a stream cut inside an answer.                 *)
(***************************************************************************)
FramingLost ==
  pc = "failed" =>
    /\ loc.err = "RtuCrcMismatch" => past.torn
    /\ loc.err = "BufferOverflow" => past.torn \/ stream.cut

(***************************************************************************)
(* "driving TX enable around the write": unlike in bridge mode no deadline *)
(* can drop a send, and the pin is high outside send only after a send     *)
(* that the serial port failed.                                            *)
(***************************************************************************)
TxEnOnlyWhileSending == txEn => pc \in {"write", "drain"} \/ past.sendFailed

\* With both deadlines set a call of next returns, whatever the master, the
\* line and the server do, if the port and the stream take what is sent.
InCall == pc \notin {"idle", "ready", "failed"}
CycleEnds ==
  setup.mode = "async" /\ Timed(setup.rtu) /\ Timed(setup.tcp) /\ InCall ~> ~InCall

\* Without faults and deadlines, every request the master makes is answered.
RequestServed ==
  \A r \in 1..MaxReq :
    Healthy /\ ~Timed(setup.rtu) /\ ~Timed(setup.tcp) /\ mcur = r
      ~> \E i \in DOMAIN delivered : delivered[i].to = r /\ delivered[i].resp = r

-----------------------------------------------------------------------------
(***************************************************************************)
(* Refinement.  A call takes its request when listen returns it, forwards  *)
(* it with TcpSend and answers it with SendWrite.  A garbled answer is no  *)
(* answer, and every error is Gateway's Fail or a loss.  A server that     *)
(* answers a request twice is outside what Gateway describes.              *)
(***************************************************************************)
Stage == CASE pc = "tcpSend" -> "taken"
           [] pc \in {"tcpPoll", "tcpListen", "flush", "write"} -> "forwarded"
           [] OTHER -> "free"

Cur == IF Stage = "free" THEN 0 ELSE loc.req
WaitingReqs == ReqsOf(wire) \cup ReqsOf(rx) \cup ReqsOf(loc.got)
OwedReqs == {q.req : q \in srv} \cup ReqsOf(net) \cup ReqsOf(tcpIn)
              \cup ReqsOf(loc.tcp) \cup ({loc.resp} \ {0})

G == INSTANCE Gateway WITH asked <- sent, waiting <- WaitingReqs, stage <- Stage,
                           cur <- Cur, owed <- OwedReqs, served <- served

\* Client mode implements Gateway.
GatewaySpec == G!Spec

-----------------------------------------------------------------------------
(* What the documentation says and the code does not do. *)

\* "It is safe to continue after this warning": once a Warning has been
\* reported, the answers that follow in the session are the requests' own.
SafeAfterWarning ==
  \A i, j \in DOMAIN delivered :
    i < j /\ delivered[i].warn /\ delivered[j].sess = delivered[i].sess
      => delivered[j].resp = delivered[j].req
=============================================================================
