-------------------------------- MODULE Frame --------------------------------
(***************************************************************************)
(* The pure functions of frame.rs: CRC check, MBAP encoding and decoding,  *)
(* and the two framing helpers, on sequences of bytes.                     *)
(***************************************************************************)
EXTENDS Crc16

U16(hi, lo) == 256 * hi + lo
be_bytes(n) == <<n \div 256, n % 256>>

\* Result::Ok and Result::Err.
Ok(v)  == [err |-> "none", val |-> v]
Err(e) == [err |-> e, val |-> <<>>]

\* extend_from_slice into the heapless::Vec<u8, 512> of RtuResponse and
\* TcpResponse.
VecCap == 512
Collect(s) == IF Len(s) <= VecCap THEN Ok(s) ELSE Err("ConversionSlice")

\* split_at(len - 2).
Body(f)    == SubSeq(f, 1, Len(f) - 2)
Trailer(f) == SubSeq(f, Len(f) - 1, Len(f))

check_crc(f) ==
  IF Len(f) < 4 THEN "PayloadTooShort"
  ELSE IF crc(Body(f)) = Trailer(f) THEN "none" ELSE "Crc"

\* The MBAP header: transaction id, protocol 0, length of the PDU as u16.
Mbap(tid, n) == be_bytes(tid) \o <<0, 0>> \o be_bytes(n % 65536)

rtu_to_tcp_swapped(rtu, tid) ==  \* mutant: the length in little-endian order
  IF Len(rtu) < 4 THEN Err("PayloadTooShort")
  ELSE LET pdu == Body(rtu) IN
       Collect(be_bytes(tid) \o <<0, 0, Len(pdu) % 256, Len(pdu) \div 256>> \o pdu)

rtu_to_tcp(rtu, tid) ==
  IF Len(rtu) < 4 THEN Err("PayloadTooShort")
  ELSE Collect(Mbap(tid, Len(Body(rtu))) \o Body(rtu))

\* The request as an RTU frame; its transaction id is TidOf.
TidOf(tcp) == U16(tcp[1], tcp[2])

tcp_to_rtu(tcp) ==
  IF Len(tcp) < 7 THEN Err("PayloadTooShort")
  ELSE LET pdu == SubSeq(tcp, 7, Len(tcp)) IN Collect(pdu \o crc(pdu))

\* The length is taken from the low byte of the MBAP field alone.
tcp_resp_to_rtu(tcp, expected_tid) ==
  IF Len(tcp) < 7 THEN Err("PayloadTooShort")
  ELSE IF TidOf(tcp) # expected_tid THEN Err("InvalidTransactionId")
  ELSE IF Len(tcp) < 6 + tcp[6] THEN Err("PayloadTooShort")
  ELSE LET pdu == SubSeq(tcp, 7, 6 + tcp[6]) IN Collect(pdu \o crc(pdu))

\* The same body as rtu_to_tcp: no transaction id is compared, so the
\* InvalidTransactionId that Connection::next looks for is never returned.
rtu_resp_to_tcp(rtu, tid) ==
  IF Len(rtu) < 4 THEN Err("PayloadTooShort")
  ELSE Collect(Mbap(tid, Len(Body(rtu))) \o Body(rtu))

Exceptions == 128..255
WriteEchos == {5, 6, 15, 16}

\* Mutant: an exception is taken for a write echo.
remaining_echo(header) ==
  IF header[2] \in WriteEchos \cup Exceptions THEN 5 ELSE header[3] + 2

rtu_response_remaining(header) ==
  IF header[2] \in Exceptions THEN 2
  ELSE IF header[2] \in WriteEchos THEN 5
  ELSE header[3] + 2

\* The (unit_id, fc, start, qty) of an event, or the (0, 0, 0, 0) that next
\* puts in the place of None.
parse_tcp_request(tcp) ==
  IF Len(tcp) < 12 THEN <<0, 0, 0, 0>>
  ELSE <<tcp[7], tcp[8], U16(tcp[9], tcp[10]), U16(tcp[11], tcp[12])>>

parse_rtu_request(rtu) ==
  IF Len(rtu) < 8 THEN <<0, 0, 0, 0>>
  ELSE <<rtu[1], rtu[2], U16(rtu[3], rtu[4]), U16(rtu[5], rtu[6])>>
=============================================================================
