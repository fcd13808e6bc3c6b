------------------------------- MODULE Framing -------------------------------
(***************************************************************************)
(* The three readers that cut frames out of a byte stream: the listen of   *)
(* ModbusTcp, and the listen and the receive of ModbusRtu.  Each reads a   *)
(* fixed header, learns from it how much is left, and pushes the rest into *)
(* a buffer of fixed capacity.                                             *)
(***************************************************************************)
EXTENDS Frame

CONSTANT Inputs  \* [port, sent, legal, arrived]: the frame sent, whether it is
                 \* legal and reaches the reader as it was sent, and the
                 \* bytes that arrive

Ports == {"tcp.listen", "rtu.listen", "rtu.receive"}

ASSUME InputAssumption ==
  Inputs \subseteq [port : Ports, sent : Seq(Byte), legal : BOOLEAN, arrived : Seq(Byte)]

\* What the Modbus specification allows for the functions that FunctionCode
\* names, each PDU with its unit id: reads and single writes are six bytes,
\* multiple writes carry up to 246 bytes of data.
LegalRequest(pdu) ==
  \/ pdu[2] \in 1..6 /\ Len(pdu) = 6
  \/ /\ pdu[2] \in {15, 16} /\ Len(pdu) >= 7
     /\ Len(pdu) = 7 + pdu[7] /\ pdu[7] <= 246

\* Functions without data (07, 0B, 0C, 11), which only TCP framing can carry:
\* ModbusRtu::listen reads six bytes after any header but two.
NoData(pdu) == pdu[2] \in {7, 11, 12, 17} /\ Len(pdu) = 2

LegalAnswer(pdu) ==
  \/ pdu[2] \in 1..4 /\ Len(pdu) >= 3 /\ Len(pdu) = 3 + pdu[3]
  \/ pdu[2] \in WriteEchos /\ Len(pdu) = 6
  \/ pdu[2] \in Exceptions /\ Len(pdu) = 3

LegalFrame(port, f) ==
  CASE port = "tcp.listen" ->
         LET pdu == SubSeq(f, 7, Len(f)) IN
         /\ Len(f) >= 8 /\ Len(f) = 6 + U16(f[5], f[6])
         /\ LegalRequest(pdu) \/ NoData(pdu)
    [] port = "rtu.listen"  -> check_crc(f) = "none" /\ LegalRequest(Body(f))
    [] port = "rtu.receive" -> check_crc(f) = "none" /\ LegalAnswer(Body(f))

\* A legal input is a legal frame, unchanged; it may be cut short, and more
\* may follow it.
ASSUME LegalAssumption ==
  \A i \in Inputs : i.legal =>
    /\ LegalFrame(i.port, i.sent)
    /\ \A k \in DOMAIN i.sent \cap DOMAIN i.arrived : i.arrived[k] = i.sent[k]

VARIABLES
  input,  \* the input read
  in,     \* the bytes that have not been read
  buf,    \* the bytes read
  stage,  \* "header", "fixed" (the five bytes of FC 0F and 10), "rest"
  left,   \* bytes the loop of the last stage has still to read
  out     \* "reading", "none" for Ok, or the error

vars == <<input, in, buf, stage, left, out>>

RTU_BUF == 255
TCP_BUF == 261
Capacity(port) == CASE port = "tcp.listen"  -> TCP_BUF
                    [] port = "rtu.listen"  -> RTU_BUF
                    [] port = "rtu.receive" -> VecCap

\* capacity.rs: the bytes of a frame that carries n values of reg_bytes each.
REG_BYTES_16 == 2
REG_BYTES_32 == 4
rtu_capacity_no_crc(n, reg_bytes) == n * reg_bytes + 7  \* mutant: CRC forgotten
rtu_capacity(n, reg_bytes) == n * reg_bytes + 9
tcp_capacity(n, reg_bytes) == n * reg_bytes + 15

RTU_MAX   == rtu_capacity(123, REG_BYTES_16)
RTU_MAX32 == rtu_capacity(61, REG_BYTES_32)
TCP_MAX   == tcp_capacity(123, REG_BYTES_16)
TCP_MAX32 == tcp_capacity(61, REG_BYTES_32)

HeaderLen(port) == CASE port = "tcp.listen"  -> 6
                     [] port = "rtu.listen"  -> 2
                     [] port = "rtu.receive" -> 3

Take(n) == SubSeq(in, 1, n)
Drop(n) == SubSeq(in, n + 1, Len(in))

Init == /\ input \in Inputs /\ in = input.arrived
        /\ buf = <<>> /\ stage = "header" /\ left = 0 /\ out = "reading"

\* What is read after the header.
AfterHeader(port, h) ==
  CASE port = "tcp.listen"  -> [stage |-> "rest", left |-> U16(h[5], h[6])]
    [] port = "rtu.listen" /\ h[2] \in {15, 16} -> [stage |-> "fixed", left |-> 0]
    [] port = "rtu.listen" /\ h[2] \notin {15, 16} -> [stage |-> "rest", left |-> 6]
    [] port = "rtu.receive" -> [stage |-> "rest", left |-> rtu_response_remaining(h)]

ReadHeader ==
  /\ out = "reading" /\ stage = "header" /\ Len(in) >= HeaderLen(input.port)
  /\ LET h == Take(HeaderLen(input.port))
         a == AfterHeader(input.port, h)
     IN  buf' = h /\ stage' = a.stage /\ left' = a.left
  /\ in' = Drop(HeaderLen(input.port))
  /\ UNCHANGED <<input, out>>

ReadFixedNoCrc ==  \* mutant: the CRC bytes are not counted
  /\ out = "reading" /\ stage = "fixed" /\ Len(in) >= 5
  /\ buf' = buf \o Take(5) /\ in' = Drop(5)
  /\ stage' = "rest" /\ left' = in[5]
  /\ UNCHANGED <<input, out>>

ReadFixed ==
  /\ out = "reading" /\ stage = "fixed" /\ Len(in) >= 5
  /\ buf' = buf \o Take(5) /\ in' = Drop(5)
  /\ stage' = "rest" /\ left' = in[5] + 2
  /\ UNCHANGED <<input, out>>

\* One byte: push fails once the buffer is full, the byte is then lost.
ReadByteUnbounded ==  \* mutant: the buffer's capacity is not checked
  /\ out = "reading" /\ stage = "rest" /\ left > 0 /\ in # <<>>
  /\ in' = Tail(in) /\ buf' = Append(buf, Head(in)) /\ left' = left - 1
  /\ UNCHANGED <<input, stage, out>>

ReadByte ==
  /\ out = "reading" /\ stage = "rest" /\ left > 0 /\ in # <<>>
  /\ in' = Tail(in)
  /\ IF Len(buf) < Capacity(input.port)
     THEN buf' = Append(buf, Head(in)) /\ left' = left - 1 /\ out' = out
     ELSE out' = "Push" /\ UNCHANGED <<buf, left>>
  /\ UNCHANGED <<input, stage>>

\* The stream ends in mid-frame; read_exact has taken what there was.
ReadEof ==
  /\ out = "reading"
  /\ \/ stage = "header" /\ Len(in) < HeaderLen(input.port)
     \/ stage = "fixed" /\ Len(in) < 5
     \/ stage = "rest" /\ left > 0 /\ in = <<>>
  /\ out' = "PayloadTooShort" /\ in' = <<>>
  /\ UNCHANGED <<input, buf, stage, left>>

Finish ==
  /\ out = "reading" /\ stage = "rest" /\ left = 0
  /\ out' = IF input.port = "tcp.listen" THEN "none" ELSE check_crc(buf)
  /\ UNCHANGED <<input, in, buf, stage, left>>

Next == ReadHeader \/ ReadFixed \/ ReadByte \/ ReadEof \/ Finish

Spec == Init /\ [][Next]_vars

-----------------------------------------------------------------------------
(* Properties. *)

\* The readers stay within their buffers.
TypeOK ==
  /\ in \in Seq(Byte) /\ buf \in Seq(Byte)
  /\ Len(buf) <= Capacity(input.port)
  /\ stage \in {"header", "fixed", "rest"} /\ left \in Nat
  /\ out \in {"reading", "none", "Push", "Crc", "PayloadTooShort"}

\* A frame the Modbus specification allows, arriving whole, is read whole: it
\* fits the buffer, and not a byte of what follows it is taken.
LegalFramesRead ==
  input.legal /\ out # "reading" /\ Len(input.arrived) >= Len(input.sent)
  => out = "none" /\ buf = input.sent /\ input.arrived = buf \o in

\* The data bytes of a legal frame: those its byte count announces.
DataBytes(port, f) ==
  CASE port = "tcp.listen" /\ Len(f) >= 13 /\ f[8] \in {15, 16} -> f[13]
    [] port = "rtu.listen" /\ f[2] \in {15, 16} -> f[7]
    [] port = "rtu.receive" /\ f[2] \notin WriteEchos \cup Exceptions -> f[3]
    [] OTHER -> 0

\* "Sized for the worst case": a legal frame whose data fill n registers, of
\* either width, fits a buffer of the size capacity.rs gives for n; what fits
\* the largest sizes it names fits the crate's own buffers.
FitsCapacity ==
  input.legal /\ out = "none" =>
    \A width \in {REG_BYTES_16, REG_BYTES_32} :
      LET n == (DataBytes(input.port, buf) + width - 1) \div width IN
      /\ Len(buf) <= IF input.port = "tcp.listen" THEN tcp_capacity(n, width)
                                                 ELSE rtu_capacity(n, width)
      /\ RTU_MAX <= RTU_BUF /\ RTU_MAX32 <= RTU_BUF
      /\ TCP_MAX <= TCP_BUF /\ TCP_MAX32 <= TCP_BUF

\* Whatever noise does to one byte of an answer or to two neighbouring ones, the
\* reader refuses the frame or returns it as it was sent: Connection's CRC
\* check stands on this.
NoCorruptAnswer ==
  input.port # "tcp.listen" /\ out = "none" => buf = input.sent

\* A request read from the TCP client becomes an RTU frame the device
\* accepts, and wrapping that frame under the client's transaction id gives
\* back what the client sent; a frame read from a server as an answer loses
\* nothing to tcp_resp_to_rtu, which looks at the low length byte alone; the
\* events of both modes report the same fields of the request.
RequestForwarded ==
  out = "none" /\ input.port = "tcp.listen" /\ Len(buf) >= 8 =>
    LET rtu == tcp_to_rtu(buf).val IN
    /\ check_crc(rtu) = "none"
    /\ buf[3] = 0 /\ buf[4] = 0 => rtu_to_tcp(rtu, TidOf(buf)) = Ok(buf)
    /\ tcp_resp_to_rtu(buf, TidOf(buf)) = Ok(rtu)
    /\ parse_tcp_request(buf) = parse_rtu_request(rtu)
=============================================================================
