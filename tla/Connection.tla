----------------------------- MODULE Connection -----------------------------
(***************************************************************************)
(* Bridge mode of modbus-bridge-rs: a Bridge accepts one Modbus TCP client *)
(* at a time, and each call of Connection::next reads one request from the *)
(* TCP stream, sends it to the RTU device over the half-duplex RS-485 line *)
(* and writes the device's answer back to the client.                      *)
(*                                                                         *)
(* One specification covers the four bodies of next (async and sync, with  *)
(* and without timeouts); Mode, TcpTimeout and RtuTimeout select one.  The *)
(* client, the device and the serial line are the environment.             *)
(*                                                                         *)
(* A request is known by its index in reqs.  An RTU answer is RespLen      *)
(* units; a unit is what one read takes off the UART, so that frames can   *)
(* be torn, mixed, lost in part and read piecemeal.                        *)
(***************************************************************************)
EXTENDS Integers, Sequences, FiniteSets

CONSTANTS
  Mode,        \* "async" or "sync": the crate feature the build selects
  NoTimeout,   \* the None of rtu_timeout_ms and tcp_timeout_ms
  RtuTimeout,  \* Bridge::rtu_timeout_ms, in milliseconds, or NoTimeout
  TcpTimeout,  \* Bridge::tcp_timeout_ms, in milliseconds, or NoTimeout
  Tids,        \* transaction identifiers a client may choose
  Kinds,       \* kinds of request a client may send, a subset of AllKinds
  Faults,      \* what may go wrong outside the crate, a subset of AllFaults
  ReqLen,      \* writes a request may be split into
  Hdr,         \* units of the response header (3 bytes in the code)
  RespLen,     \* units of a whole RTU response
  MaxNeed,     \* bound on the units a misread header may ask for
  MaxAttempt,  \* read errors tolerated per read_exact (10 in the code)
  MaxConn,     \* bound on the connections accepted
  MaxReq,      \* bound on the requests sent
  MaxRx        \* bound on the UART buffer while the line babbles

(***************************************************************************)
(* Requests, by what the code can tell apart.                              *)
(*   std     a request whose answer rtu_response_remaining can frame       *)
(*   bare    the same, with fewer than six PDU bytes (parse_tcp_request    *)
(*           needs twelve bytes in all)                                    *)
(*   vendor  a request whose answer has no byte count at the third byte    *)
(*   short   an MBAP header with an empty PDU                              *)
(*   big     a PDU that overflows the 261-byte buffer                      *)
(***************************************************************************)
AllKinds == {"std", "bare", "vendor", "short", "big"}

(***************************************************************************)
(*   noise, loss    a unit of an answer is corrupted or lost on the line   *)
(*   babble         a unit nobody sent appears on the line                 *)
(*   silent         the device does not answer a request                   *)
(*   readErr        a serial read returns an error                         *)
(*   pollErr        read_ready returns an error                            *)
(*   writeErr       a serial write or flush returns an error               *)
(*   serialEof      a serial read returns 0 bytes                          *)
(*   tcpErr         a TCP read or write returns an error                   *)
(***************************************************************************)
AllFaults == {"noise", "loss", "babble", "silent", "readErr", "pollErr",
              "writeErr", "serialEof", "tcpErr"}

ASSUME ConfigAssumption ==
  /\ Mode \in {"async", "sync"}
  /\ NoTimeout \notin Nat
  /\ RtuTimeout \in Nat \cup {NoTimeout}
  /\ TcpTimeout \in Nat \cup {NoTimeout}
  /\ Kinds \subseteq AllKinds
  /\ Faults \subseteq AllFaults

ASSUME FrameAssumption ==
  /\ ReqLen \in Nat \ {0}
  /\ Hdr \in Nat \ {0}
  /\ RespLen \in Nat
  /\ RespLen > Hdr
  /\ MaxNeed \in Nat
  /\ MaxNeed >= RespLen - Hdr
  /\ MaxAttempt \in Nat \ {0}

ASSUME BoundAssumption ==
  /\ MaxConn \in Nat
  /\ MaxReq \in Nat
  /\ MaxRx \in Nat

VARIABLES
  pc,         \* where the caller's loop and the call of next are
  conn,       \* connections accepted so far; the number of the live one
  loc,        \* locals of the call of next (see Fresh)
  txEn,       \* level of the RS-485 transmit-enable pin
  failures,   \* history: the calls of next that returned an error, in order
  delivered,  \* history: the answers written to TCP clients, in order
  reqs,       \* history: the requests clients have sent, in order
  tcpIn,      \* requests wholly arrived on the live stream, not yet read
  part,       \* the first bytes of one more request have arrived
  eof,        \* the client has closed its side
  dev,        \* requests the device has taken and not answered
  wire,       \* units of answers still on the line
  rx          \* units in the UART, not yet read

tcpVars  == <<reqs, tcpIn, part, eof>>
lineVars == <<dev, wire, rx>>
vars == <<pc, conn, loc, txEn, failures, delivered, tcpVars, lineVars>>

-----------------------------------------------------------------------------
(* Values. *)

Errors == {"TcpClosed", "TcpIo", "RtuIo", "RtuCrcMismatch",
           "BufferOverflow", "Timeout"}

Noise    == [req |-> 0, ix |-> 0]
Unit     == [req : 0..MaxReq, ix : 0..RespLen]
Frame(r) == [i \in 1..RespLen |-> [req |-> r, ix |-> i]]
Real(s)  == {i \in 1..Len(s) : s[i].req # 0}

\* An answer is still to come, or has come and was not read.
Owed == dev # <<>> \/ Real(wire) # {} \/ Real(rx) # {}

(***************************************************************************)
(* The locals of a call: the request it serves and its transaction id; the *)
(* request its event will report (0 is what unwrap_or((0, 0, 0, 0)) puts   *)
(* there); what write_all has written; the response as read so far, how    *)
(* many units the frame still lacks after its header, and the attempt      *)
(* counter of the current read_exact; the count of a polling loop; the     *)
(* request whose answer passed the CRC check.  History: slept, the calls   *)
(* of delay_ms(1) since the polling loop began; dirty, an answer was owed  *)
(* when the call began.                                                    *)
(***************************************************************************)
Fresh == [req |-> 0, tid |-> 0, seen |-> 0, wrote |-> 0, got |-> <<>>,
          need |-> 0, attempt |-> 1, elapsed |-> 0, slept |-> 0, resp |-> 0,
          dirty |-> FALSE]

Timed(t) == t # NoTimeout

Init ==
  /\ pc = "idle" /\ conn = 0 /\ loc = Fresh /\ txEn = FALSE
  /\ failures = <<>> /\ delivered = <<>>
  /\ reqs = <<>> /\ tcpIn = <<>> /\ part = FALSE /\ eof = FALSE
  /\ dev = <<>> /\ wire = <<>> /\ rx = <<>>

-----------------------------------------------------------------------------
(* The caller's loop. *)

\* Bridge::accept wraps a fresh stream; the serial side is left as it was.
Accept ==
  /\ pc = "idle" /\ conn < MaxConn
  /\ pc' = "ready" /\ conn' = conn + 1
  /\ tcpIn' = <<>> /\ part' = FALSE /\ eof' = FALSE
  /\ UNCHANGED <<loc, txEn, failures, delivered, reqs, lineVars>>

CallNext ==
  /\ pc = "ready"
  /\ pc' = IF Mode = "sync" /\ Timed(TcpTimeout) THEN "tcpPoll" ELSE "tcpListen"
  /\ loc' = [Fresh EXCEPT !.dirty = Owed]
  /\ UNCHANGED <<conn, txEn, failures, delivered, tcpVars, lineVars>>

\* The caller leaves its loop, after an error or of its own accord.
IntoStream ==
  /\ pc \in {"ready", "failed"}
  /\ pc' = "idle"
  /\ UNCHANGED <<conn, loc, txEn, failures, delivered, tcpVars, lineVars>>

\* What the map_err closures of next make of the transports' errors.
TcpErr == [PayloadTooShort |-> "TcpClosed", Tcp |-> "TcpIo",
           Push |-> "BufferOverflow"]
RtuErrSwallowed == [Serial |-> "RtuIo", Crc |-> "BufferOverflow",
                    PayloadTooShort |-> "BufferOverflow"]  \* mutant
RtuErr == [Serial |-> "RtuIo", Crc |-> "RtuCrcMismatch",
           PayloadTooShort |-> "RtuCrcMismatch"]

\* Mutant: the loop goes on after an error.
FailAndGoOn(e) ==
  /\ pc' = "ready" /\ loc' = Fresh
  /\ UNCHANGED <<conn, delivered, failures>>

\* next returns an error: its locals go, the bridge stays as it is.  The
\* history keeps where the call stood and what its locals were.
Fail(e) ==
  /\ pc' = "failed" /\ loc' = Fresh
  /\ failures' = Append(failures,
       [err |-> e, at |-> pc, req |-> loc.req, wrote |-> loc.wrote,
        slept |-> loc.slept, dirty |-> loc.dirty])
  /\ UNCHANGED <<conn, delivered>>

-----------------------------------------------------------------------------
(* ModbusTcp::listen, then parse_tcp_request and tcp_to_rtu. *)

Head0 == reqs[Head(tcpIn)]

TcpListenOk ==
  /\ pc = "tcpListen" /\ tcpIn # <<>> /\ Head0.kind \notin {"short", "big"}
  /\ loc' = [loc EXCEPT !.req  = Head(tcpIn), !.tid = Head0.tid,
                        !.seen = IF Head0.kind = "bare" THEN 0 ELSE Head(tcpIn)]
  /\ pc' = IF Mode = "sync" /\ Timed(RtuTimeout) THEN "rtuPoll" ELSE "flush"
  /\ tcpIn' = Tail(tcpIn)
  /\ UNCHANGED <<conn, txEn, failures, delivered, reqs, part, eof, lineVars>>

TcpListenReject ==
  /\ pc = "tcpListen" /\ tcpIn # <<>> /\ Head0.kind \in {"short", "big"}
  /\ Fail(TcpErr.Push)
  /\ tcpIn' = Tail(tcpIn)
  /\ UNCHANGED <<txEn, reqs, part, eof, lineVars>>

\* Clean close and a close in mid-frame are the same PayloadTooShort.
TcpListenEof ==
  /\ pc = "tcpListen" /\ tcpIn = <<>> /\ eof
  /\ Fail(TcpErr.PayloadTooShort)
  /\ UNCHANGED <<txEn, tcpVars, lineVars>>

TcpListenError ==
  /\ pc = "tcpListen" /\ "tcpErr" \in Faults
  /\ Fail(TcpErr.Tcp)
  /\ UNCHANGED <<txEn, tcpVars, lineVars>>

ListenFrame == TcpListenOk \/ TcpListenReject \/ TcpListenEof
Listen == ListenFrame \/ TcpListenError

-----------------------------------------------------------------------------
(* ModbusRtu::send: flush, set_high, write_all, flush, set_low. *)

SendFlush ==
  /\ pc = "flush"
  /\ pc' = "write" /\ txEn' = TRUE
  /\ UNCHANGED <<conn, loc, failures, delivered, tcpVars, lineVars>>

\* Mutant: remaining is not advanced, so that write_all starts over once.
SendWriteAgain ==
  /\ pc = "write"
  /\ \E n \in 1..(ReqLen - loc.wrote) :
       LET done == loc.wrote + n = ReqLen IN
       /\ loc' = [loc EXCEPT !.wrote = @ + n]
       /\ pc'  = IF done THEN "drain" ELSE "write"
       /\ dev' = IF done /\ n < ReqLen THEN dev \o <<loc.req, loc.req>>
                 ELSE IF done THEN Append(dev, loc.req) ELSE dev
  /\ UNCHANGED <<conn, txEn, failures, delivered, tcpVars, wire, rx>>

SendWriteLow ==  \* mutant: set_low comes before the second flush
  /\ pc = "write"
  /\ \E n \in 1..(ReqLen - loc.wrote) :
       LET done == loc.wrote + n = ReqLen IN
       /\ loc' = [loc EXCEPT !.wrote = @ + n]
       /\ pc'  = IF done THEN "drain" ELSE "write"
       /\ dev' = IF done THEN Append(dev, loc.req) ELSE dev
       /\ txEn' = ~done
  /\ UNCHANGED <<conn, failures, delivered, tcpVars, wire, rx>>

\* The device can take the request once its last byte is out.
SendWrite ==
  /\ pc = "write"
  /\ \E n \in 1..(ReqLen - loc.wrote) :
       LET done == loc.wrote + n = ReqLen IN
       /\ loc' = [loc EXCEPT !.wrote = @ + n]
       /\ pc'  = IF done THEN "drain" ELSE "write"
       /\ dev' = IF done THEN Append(dev, loc.req) ELSE dev
  /\ UNCHANGED <<conn, txEn, failures, delivered, tcpVars, wire, rx>>

SendDrainPinHigh ==  \* mutant: set_low is forgotten
  /\ pc = "drain"
  /\ pc' = "receive"
  /\ UNCHANGED <<conn, loc, txEn, failures, delivered, tcpVars, lineVars>>

SendDrain ==
  /\ pc = "drain"
  /\ pc' = "receive" /\ txEn' = FALSE
  /\ UNCHANGED <<conn, loc, failures, delivered, tcpVars, lineVars>>

\* The ? of flush and write_all leaves send with the pin as it stands.
SendError ==
  /\ pc \in {"flush", "write", "drain"} /\ "writeErr" \in Faults
  /\ Fail(RtuErr.Serial)
  /\ UNCHANGED <<txEn, tcpVars, lineVars>>

SendFrame == SendFlush \/ SendWrite \/ SendDrain
Send == SendFrame \/ SendError

-----------------------------------------------------------------------------
(* ModbusRtu::receive: the header, then the rest one read_exact at a time. *)

Got == Append(loc.got, Head(rx))

(***************************************************************************)
(* rtu_response_remaining of a header: right when the header is one        *)
(* answer's own and the answer has a layout the function knows, otherwise  *)
(* whatever its bytes make of it.                                          *)
(***************************************************************************)
RemainingLessOne(h) == {RespLen - Hdr - 1}  \* mutant: a CRC byte is forgotten
RemainingPlusOne(h) == {RespLen - Hdr + 1}  \* mutant: one byte too many

Remaining(h) ==
  IF \E r \in 1..Len(reqs) : /\ h = SubSeq(Frame(r), 1, Hdr)
                             /\ reqs[r].kind # "vendor"
  THEN {RespLen - Hdr}
  ELSE 1..MaxNeed

ReadHeader ==
  /\ pc = "receive" /\ rx # <<>> /\ Len(loc.got) < Hdr
  /\ rx' = Tail(rx)
  /\ IF Len(Got) < Hdr
     THEN loc' = [loc EXCEPT !.got = Got]
     ELSE \E n \in Remaining(Got) :
            loc' = [loc EXCEPT !.got = Got, !.need = n, !.attempt = 1]
  /\ UNCHANGED <<pc, conn, txEn, failures, delivered, tcpVars, dev, wire>>

ReadBody ==
  /\ pc = "receive" /\ rx # <<>> /\ loc.need > 1
  /\ rx'  = Tail(rx)
  /\ loc' = [loc EXCEPT !.got = Got, !.need = @ - 1, !.attempt = 1]
  /\ UNCHANGED <<pc, conn, txEn, failures, delivered, tcpVars, dev, wire>>

\* Mutant: check_crc is forgotten, 0 stands for a corrupt answer.
IntactUnchecked(g) == {IF g = Frame(loc.req) THEN loc.req ELSE 0}

\* The answers whose CRC is right: whole, in order, nothing in between.
Intact(g) == {r \in 1..Len(reqs) : g = Frame(r)}

ReadLast ==
  /\ pc = "receive" /\ rx # <<>> /\ loc.need = 1
  /\ rx' = Tail(rx)
  /\ \/ \E r \in Intact(Got) :
          /\ loc' = [loc EXCEPT !.got = Got, !.need = 0, !.attempt = 1, !.resp = r]
          /\ pc' = "reply"
          /\ UNCHANGED <<conn, failures, delivered>>
     \/ Intact(Got) = {} /\ Fail(RtuErr.Crc)
  /\ UNCHANGED <<txEn, tcpVars, dev, wire>>

\* next maps the PayloadTooShort of a serial end-of-file to RtuCrcMismatch.
ReadEof ==
  /\ pc = "receive" /\ "serialEof" \in Faults
  /\ Fail(RtuErr.PayloadTooShort)
  /\ UNCHANGED <<txEn, tcpVars, lineVars>>

ReadRetryForever ==  \* mutant: the attempts are not counted against the limit
  /\ pc = "receive" /\ "readErr" \in Faults
  /\ loc' = [loc EXCEPT !.attempt = @ + 1]
  /\ UNCHANGED <<pc, conn, txEn, failures, delivered, tcpVars, lineVars>>

ReadRetry ==
  /\ pc = "receive" /\ "readErr" \in Faults /\ loc.attempt <= MaxAttempt
  /\ loc' = [loc EXCEPT !.attempt = @ + 1]
  /\ UNCHANGED <<pc, conn, txEn, failures, delivered, tcpVars, lineVars>>

ReadGiveUp ==
  /\ pc = "receive" /\ "readErr" \in Faults /\ loc.attempt > MaxAttempt
  /\ Fail(RtuErr.Serial)
  /\ UNCHANGED <<txEn, tcpVars, lineVars>>

ReadUnit == ReadHeader \/ ReadBody \/ ReadLast
Receive == ReadUnit \/ ReadEof \/ ReadRetry \/ ReadGiveUp

-----------------------------------------------------------------------------
(* rtu_resp_to_tcp with the request's transaction id, then ModbusTcp::send. *)

ReplySend ==
  /\ pc = "reply"
  /\ delivered' = Append(delivered,
       [conn |-> conn, tid |-> loc.tid, req |-> loc.req, seen |-> loc.seen,
        resp |-> loc.resp, dirty |-> loc.dirty])
  /\ pc' = "ready" /\ loc' = Fresh
  /\ UNCHANGED <<conn, txEn, failures, tcpVars, lineVars>>

ReplyError ==
  /\ pc = "reply" /\ "tcpErr" \in Faults
  /\ Fail("TcpIo")
  /\ UNCHANGED <<txEn, tcpVars, lineVars>>

Reply == ReplySend \/ ReplyError

-----------------------------------------------------------------------------
(***************************************************************************)
(* The async next with timeouts.  select polls the I/O future first and    *)
(* the delay only when that is pending: a deadline never beats input that  *)
(* is there.  The losing future is dropped where it stands.                *)
(***************************************************************************)
TcpDeadline ==
  /\ Mode = "async" /\ Timed(TcpTimeout)
  /\ pc = "tcpListen" /\ tcpIn = <<>> /\ ~eof
  /\ Fail("Timeout")
  /\ UNCHANGED <<txEn, tcpVars, lineVars>>

RtuDeadlineOnSend ==  \* mutant: the deadline covers the send only
  /\ Mode = "async" /\ Timed(RtuTimeout)
  /\ pc \in {"flush", "write", "drain"}
  /\ Fail("Timeout")
  /\ UNCHANGED <<txEn, tcpVars, lineVars>>

RtuDeadline ==
  /\ Mode = "async" /\ Timed(RtuTimeout)
  /\ \/ pc \in {"flush", "write", "drain"}
     \/ pc = "receive" /\ rx = <<>>
  /\ Fail("Timeout")
  /\ UNCHANGED <<txEn, tcpVars, lineVars>>

AsyncDeadlines == TcpDeadline \/ RtuDeadline

-----------------------------------------------------------------------------
(***************************************************************************)
(* The sync next with timeouts: a read_ready loop with 1 ms sleeps before  *)
(* the TCP read, and another on the serial port before send_and_receive.   *)
(***************************************************************************)
ReadReady ==
  \/ pc = "tcpPoll" /\ (tcpIn # <<>> \/ part \/ eof) /\ pc' = "tcpListen"
  \/ pc = "rtuPoll" /\ (rx # <<>> \/ "serialEof" \in Faults) /\ pc' = "flush"

PollReadyKeepsCount ==  \* mutant: one elapsed for the two loops
  /\ ReadReady
  /\ loc' = [loc EXCEPT !.slept = 0]
  /\ UNCHANGED <<conn, txEn, failures, delivered, tcpVars, lineVars>>

\* elapsed is a variable of the loop: the other one begins with its own.
PollReady ==
  /\ ReadReady
  /\ loc' = [loc EXCEPT !.elapsed = 0, !.slept = 0]
  /\ UNCHANGED <<conn, txEn, failures, delivered, tcpVars, lineVars>>

\* The budget of the loop at a point of next, and whether it finds nothing.
BudgetAt(p) == IF p = "tcpPoll" THEN TcpTimeout ELSE RtuTimeout
Budget == BudgetAt(pc)
NothingReady == \/ pc = "tcpPoll" /\ tcpIn = <<>> /\ ~part /\ ~eof
                \/ pc = "rtuPoll" /\ rx = <<>>

PollSleep ==
  /\ NothingReady /\ loc.elapsed < Budget
  /\ loc' = [loc EXCEPT !.elapsed = @ + 1, !.slept = @ + 1]
  /\ UNCHANGED <<pc, conn, txEn, failures, delivered, tcpVars, lineVars>>

PollExpire ==
  /\ NothingReady /\ loc.elapsed >= Budget
  /\ Fail("Timeout")
  /\ UNCHANGED <<txEn, tcpVars, lineVars>>

PollError ==
  /\ "pollErr" \in Faults
  /\ \/ pc = "tcpPoll" /\ Fail("TcpIo")
     \/ pc = "rtuPoll" /\ Fail("RtuIo")
  /\ UNCHANGED <<txEn, tcpVars, lineVars>>

Polling == PollReady \/ PollSleep \/ PollExpire
SyncPolls == Polling \/ PollError

-----------------------------------------------------------------------------
(* The environment: TCP client, RTU device and serial line. *)

\* The first bytes of a request arrive, then the rest of them.
ClientBegin ==
  /\ pc # "idle" /\ ~eof /\ ~part /\ Len(reqs) < MaxReq
  /\ part' = TRUE
  /\ UNCHANGED <<pc, conn, loc, txEn, failures, delivered, reqs, tcpIn, eof, lineVars>>

ClientSend ==
  /\ pc # "idle" /\ ~eof /\ part /\ Len(reqs) < MaxReq
  /\ \E t \in Tids, k \in Kinds :
       reqs' = Append(reqs, [conn |-> conn, tid |-> t, kind |-> k])
  /\ tcpIn' = Append(tcpIn, Len(reqs'))
  /\ part' = FALSE
  /\ UNCHANGED <<pc, conn, loc, txEn, failures, delivered, eof, lineVars>>

ClientClose ==
  /\ pc # "idle" /\ ~eof
  /\ eof' = TRUE
  /\ UNCHANGED <<pc, conn, loc, txEn, failures, delivered, reqs, tcpIn, part, lineVars>>

DeviceAnswer ==
  /\ dev # <<>>
  /\ dev' = Tail(dev) /\ wire' = wire \o Frame(Head(dev))
  /\ UNCHANGED <<pc, conn, loc, txEn, failures, delivered, tcpVars, rx>>

DeviceIgnore ==
  /\ dev # <<>> /\ "silent" \in Faults
  /\ dev' = Tail(dev)
  /\ UNCHANGED <<pc, conn, loc, txEn, failures, delivered, tcpVars, wire, rx>>

Arrive ==
  /\ wire # <<>> /\ wire' = Tail(wire)
  /\ \/ rx' = Append(rx, Head(wire))
     \/ "noise" \in Faults /\ rx' = Append(rx, Noise)
     \/ "loss" \in Faults /\ rx' = rx
  /\ UNCHANGED <<pc, conn, loc, txEn, failures, delivered, tcpVars, dev>>

Babble ==
  /\ "babble" \in Faults /\ Len(rx) < MaxRx
  /\ rx' = Append(rx, Noise)
  /\ UNCHANGED <<pc, conn, loc, txEn, failures, delivered, tcpVars, dev, wire>>

Client == ClientBegin \/ ClientSend \/ ClientClose
Line   == DeviceAnswer \/ DeviceIgnore \/ Arrive \/ Babble

-----------------------------------------------------------------------------
Cycle == Listen \/ Send \/ Receive \/ Reply

Next == \/ Accept \/ CallNext \/ IntoStream
        \/ Cycle \/ AsyncDeadlines \/ SyncPolls
        \/ Client \/ Line

Spec == Init /\ [][Next]_vars

(***************************************************************************)
(* Fairness.  The caller polls the future (or its thread runs) and the     *)
(* stream takes the reply, so a step of next that can be taken is taken;   *)
(* DelayNs completes, so a deadline or a sleep ends.  No fault is fair.    *)
(* TimedSpec promises nothing of the serial port: it may never drain, and  *)
(* the device may never answer.  LiveSpec adds a port that drains and a    *)
(* device that answers.                                                    *)
(***************************************************************************)
ProgramFairness ==
  /\ WF_vars(ListenFrame) /\ WF_vars(ReadUnit) /\ WF_vars(ReplySend)
  /\ WF_vars(AsyncDeadlines) /\ WF_vars(Polling)

DeviceFairness == WF_vars(SendFrame) /\ WF_vars(DeviceAnswer) /\ WF_vars(Arrive)

TimedSpec == Spec /\ ProgramFairness
LiveSpec  == TimedSpec /\ DeviceFairness

-----------------------------------------------------------------------------
(* Properties. *)

PCs == {"idle", "ready", "tcpPoll", "tcpListen", "rtuPoll", "flush", "write",
        "drain", "receive", "reply", "failed"}

Request  == [conn : 1..MaxConn, tid : Tids, kind : Kinds]
Delivery == [conn : 1..MaxConn, tid : Tids, req : 1..MaxReq, seen : 0..MaxReq,
             resp : 1..MaxReq, dirty : BOOLEAN]
Failure  == [err : Errors, at : PCs, req : 0..MaxReq, wrote : 0..ReqLen,
             slept : Nat, dirty : BOOLEAN]
Locals   == [req : 0..MaxReq, tid : Tids \cup {0}, seen : 0..MaxReq,
             wrote : 0..ReqLen, got : Seq(Unit), need : 0..MaxNeed,
             attempt : 1..(MaxAttempt + 1), elapsed : Nat, slept : Nat,
             resp : 0..MaxReq, dirty : BOOLEAN]

\* Every variable has its type, and every request number in use is that of
\* a request some client sent.
TypeOK ==
  /\ pc \in PCs /\ conn \in 0..MaxConn /\ loc \in Locals
  /\ txEn \in BOOLEAN /\ delivered \in Seq(Delivery)
  /\ failures \in Seq(Failure)
  /\ reqs \in Seq(Request) /\ Len(reqs) <= MaxReq
  /\ tcpIn \in Seq(1..MaxReq) /\ part \in BOOLEAN /\ eof \in BOOLEAN
  /\ dev \in Seq(1..MaxReq) /\ wire \in Seq(Unit) /\ rx \in Seq(Unit)

(***************************************************************************)
(* Pairing.  Nothing in an RTU answer names the request, so a cycle that   *)
(* begins on a line owing no answer hands its client the answer to that    *)
(* very request, whatever the line corrupts, drops or invents: only a      *)
(* cycle that inherits an unread answer can hand out another one.          *)
(***************************************************************************)
AnswersPaired ==
  \A i \in DOMAIN delivered :
    delivered[i].resp # delivered[i].req => delivered[i].dirty

(***************************************************************************)
(* A cycle that begins on a clean line and completes leaves it clean: the  *)
(* frame length taken from the header stops the read exactly where the     *)
(* answer ends.                                                            *)
(***************************************************************************)
CleanCycle == pc = "reply" /\ ~loc.dirty => ~Owed

(***************************************************************************)
(* Outside an exchange the line owes an answer only once next has returned *)
(* one of the three serial errors: a client that disconnects, sends        *)
(* rubbish or loses its stream never costs the next client anything.       *)
(***************************************************************************)
Errs == {failures[i].err : i \in DOMAIN failures}
SerialErrors == {"RtuIo", "RtuCrcMismatch", "Timeout"}
OnlySerialErrorsDirty ==
  pc \notin {"drain", "receive"} /\ Owed => Errs \cap SerialErrors # {}

(***************************************************************************)
(* A client is answered on its own connection, with its own transaction    *)
(* id, once per request, and in the order it asked: an error ends the      *)
(* connection before a later request could overtake the lost one.          *)
(***************************************************************************)
AnswersInOrder ==
  \A i \in DOMAIN delivered :
    LET d == delivered[i] IN
    /\ d.conn = reqs[d.req].conn /\ d.tid = reqs[d.req].tid
    /\ \A j \in 1..(i - 1) : delivered[j].req < d.req
    /\ \A r \in 1..(d.req - 1) :
         reqs[r].conn = d.conn => \E j \in 1..(i - 1) : delivered[j].req = r

(***************************************************************************)
(* Half duplex.  The bridge has let go of the line before it waits for an  *)
(* answer, even when an earlier send left the pin high; and a cycle that   *)
(* began on a clean line never transmits over an answer.                   *)
(***************************************************************************)
HalfDuplex ==
  /\ pc \in {"receive", "reply"} => ~txEn
  /\ pc \in {"rtuPoll", "flush", "write"} /\ wire # <<>> => loc.dirty

(***************************************************************************)
(* The pin follows send.  It is high from the first byte written until the *)
(* last has left the port; and when it is high outside send, some send was *)
(* cut short between set_high and set_low by an error that next returned   *)
(* as RtuIo or Timeout, and no send has completed since: neither a later   *)
(* call nor a new connection goes on to an answer with the driver on the   *)
(* line.                                                                   *)
(***************************************************************************)
CutSend(i) ==
  /\ failures[i].at \in {"write", "drain"} /\ failures[i].err \in {"RtuIo", "Timeout"}
  /\ \A j \in (i + 1)..Len(failures) : failures[j].at \notin {"receive", "reply"}
  /\ \A k \in DOMAIN delivered : delivered[k].req < failures[i].req

PinFollowsSend ==
  /\ pc \in {"write", "drain"} => txEn
  /\ txEn /\ pc \notin {"write", "drain"} => \E i \in DOMAIN failures : CutSend(i)

(***************************************************************************)
(* On a line that corrupts nothing, and for the function codes the bridge  *)
(* can frame, a CRC error is never the device's doing: the cycle began     *)
(* while an earlier answer was owed.                                       *)
(***************************************************************************)
CrcErrorMeansStale ==
  \A i \in DOMAIN failures :
    failures[i].err = "RtuCrcMismatch" => failures[i].dirty

(***************************************************************************)
(* A polling loop sleeps its own budget and not a millisecond more, and    *)
(* returns Timeout only when it has slept all of it: the time the other    *)
(* loop of the call waited is not counted against it.                      *)
(***************************************************************************)
Polls == {"tcpPoll", "rtuPoll"}
PollsTheirBudget ==
  /\ pc \in Polls => loc.slept <= Budget
  /\ \A i \in DOMAIN failures :
       failures[i].err = "Timeout" /\ failures[i].at \in Polls
         => failures[i].slept = BudgetAt(failures[i].at)

(***************************************************************************)
(* With both deadlines set, a call of next returns, whatever the client    *)
(* sends or does not send and whatever the line, the device and the serial *)
(* port do, if the stream takes the reply: ModbusTcp::send is outside both *)
(* deadlines.                                                              *)
(***************************************************************************)
CycleEnds ==
  pc \notin {"idle", "ready", "failed"} ~> pc \in {"idle", "ready", "failed"}

(***************************************************************************)
(* With no fault and no deadline, every request a call reads is answered.  *)
(***************************************************************************)
RequestAnswered ==
  \A r \in 1..MaxReq :
    loc.req = r ~> \E i \in DOMAIN delivered : delivered[i].req = r

-----------------------------------------------------------------------------
(***************************************************************************)
(* The inductive invariant: what each point of a call knows.               *)
(***************************************************************************)
Exchange == {"rtuPoll", "flush", "write", "drain", "receive", "reply"}
Unsent   == {"tcpPoll", "tcpListen", "rtuPoll", "flush", "write"}

\* Requests are named only after they were sent; the locals that a point of
\* next relies on are set.
ControlOK ==
  /\ pc # "idle" => conn \in 1..MaxConn
  /\ \A i \in 1..Len(tcpIn) : tcpIn[i] \in 1..Len(reqs)
  /\ pc \in Exchange => loc.req \in 1..Len(reqs) /\ loc.tid \in Tids
  /\ pc = "reply" => loc.resp \in 1..Len(reqs)
  /\ pc \in Unsent \cup {"drain"} => loc.got = <<>>
  /\ \A i \in 1..Len(wire) : wire[i].req # 0

\* The real units of s are units of the answer to r.
Own(s, r) == \A i \in 1..Len(s) : s[i].req # 0 => s[i].req = r /\ s[i].ix \in 1..RespLen

\* No real unit occurs twice in s, or both in s and in t.
Once(s)     == \A i, j \in 1..Len(s) : i # j /\ s[i].req # 0 => s[i] # s[j]
Apart(s, t) == \A i \in 1..Len(s), j \in 1..Len(t) : s[i].req # 0 => s[i] # t[j]

\* The units in got, rx and wire are those of the answer to r, each in one
\* of the three; or the device has not begun that answer.
UnitsOf(r, got) ==
  /\ Own(got, r) /\ Own(rx, r) /\ Own(wire, r)
  /\ Once(got) /\ Once(rx) /\ Once(wire)
  /\ Apart(got, rx) /\ Apart(got, wire) /\ Apart(rx, wire)
Awaiting(r, got) ==
  \/ dev = <<>>
  \/ dev = <<r>> /\ Real(got) = {} /\ Real(rx) = {} /\ Real(wire) = {}

(***************************************************************************)
(* In a call that began clean: before the request is out nothing is owed;  *)
(* then nothing but its own answer is; once that is read nothing is left.  *)
(***************************************************************************)
LineOK ==
  ~loc.dirty =>
    /\ pc \in Unsent \cup {"reply"} => ~Owed
    /\ pc = "reply" => loc.resp = loc.req
    /\ pc \in {"drain", "receive"} => UnitsOf(loc.req, loc.got) /\ Awaiting(loc.req, loc.got)

\* Only a serial error leaves an answer for a later call to find.
DirtOK ==
  /\ OnlySerialErrorsDirty
  /\ loc.dirty => Errs \cap SerialErrors # {}

IInv == TypeOK /\ ControlOK /\ LineOK /\ DirtOK /\ AnswersPaired

-----------------------------------------------------------------------------
(***************************************************************************)
(* Refinement.  A call takes its request when listen returns it, forwards  *)
(* it with the last byte write_all hands over, and answers it by writing   *)
(* to the stream; every other error is Gateway's Fail or a loss.           *)
(***************************************************************************)
ReqsOf(s) == {s[i].req : i \in Real(s)}

Stage == CASE pc \in {"rtuPoll", "flush", "write"} -> "taken"
           [] pc \in {"drain", "receive", "reply"} -> "forwarded"
           [] OTHER -> "free"

OwedReqs == {dev[i] : i \in DOMAIN dev} \cup ReqsOf(wire) \cup ReqsOf(rx)
              \cup ReqsOf(loc.got)

Cur     == IF Stage = "free" THEN 0 ELSE loc.req
Waiting == {tcpIn[i] : i \in DOMAIN tcpIn}
Served  == [i \in DOMAIN delivered |->
              [req |-> delivered[i].req, resp |-> delivered[i].resp]]

G == INSTANCE Gateway WITH asked <- Len(reqs), waiting <- Waiting, stage <- Stage,
                           cur <- Cur, owed <- OwedReqs, served <- Served

\* Bridge mode implements Gateway.
GatewaySpec == G!Spec

-----------------------------------------------------------------------------
(* What the documentation says and the code does not do. *)

\* "Transmit bytes over RS-485, driving TX enable around the write": the pin
\* is high at no other time than while send writes.
TxEnOnlyWhileSending == txEn => pc \in {"write", "drain"}

\* "forwards each request to a Modbus RTU device ..., then returns the
\* response to the TCP client": every answer is the request's own.
AnswersOwnRequest ==
  \A i \in DOMAIN delivered : delivered[i].resp = delivered[i].req

\* rtu_timeout is "applied while waiting for the RTU device response": it
\* expires only after the request went out.
TimeoutAwaitsResponse ==
  \A i \in DOMAIN failures :
    failures[i].err = "Timeout" /\ failures[i].req # 0 => failures[i].wrote = ReqLen

\* "Any other value is forwarded ... without modification, so vendor-specific
\* extensions work transparently": a faultless exchange has no CRC error.
NoCrcErrorOnCleanLine == "RtuCrcMismatch" \notin Errs
=============================================================================
