------------------------------ MODULE MCFraming ------------------------------
(***************************************************************************)
(* Framing for TLC.  The inputs are one frame of each layout and of each   *)
(* boundary length, followed or not by the next frame, cut short, and with *)
(* one byte or two neighbouring bytes changed.                             *)
(***************************************************************************)
EXTENDS Framing

Fill(n)    == [i \in 1..n |-> (7 * i) % 256]
Rtu(body)  == body \o crc(body)
Tcp(t, p)  == be_bytes(t) \o <<0, 0>> \o be_bytes(Len(p)) \o p

\* Requests by PDU: reads and single writes, FC 0F and 10 up to the largest
\* byte count (246), FC 11 of two bytes, a PDU of one byte and of none.
Requests == {<<1, 3, 0, 0, 0, 2>>, <<247, 6, 1, 2, 255, 255>>, <<1, 17>>}
            \cup {<<1, 16, 0, 0, 0, n \div 2, n>> \o Fill(n) : n \in {2, 4, 246}}
            \cup {<<1, 15, 0, 0, 0, 8, 1, 85>>}
Answers  == {<<1, 3, n>> \o Fill(n) : n \in {0, 2, 4, 250}}
            \cup {<<1, 6, 1, 2, 255, 255>>, <<1, 16, 0, 0, 0, 2>>, <<1, 131, 2>>, <<1, 144, 4>>}

\* A short frame comes with the same frame behind it, alone, and cut short; a
\* long one with one more byte behind it and cut short by one.
Whole(port, f, legal) ==
  {[port |-> port, sent |-> f, legal |-> legal, arrived |-> a] :
     a \in IF Len(f) < 20 THEN {f, f \o f, SubSeq(f, 1, Len(f) - 1), SubSeq(f, 1, 1)}
                          ELSE {f \o <<1>>, SubSeq(f, 1, Len(f) - 1)}}

TcpInputs == UNION {Whole("tcp.listen", Tcp(258, p), TRUE) : p \in Requests}
             \cup UNION {Whole("tcp.listen", Tcp(t, <<1, 3, 0, 0, 0, 2>>), TRUE) : t \in {0, 65535}}
             \cup UNION {Whole("tcp.listen", Tcp(1, p), FALSE) :
                           p \in {<<>>, <<1>>, Fill(255), Fill(256)}}
RtuInputs == UNION {Whole("rtu.listen", Rtu(p), TRUE) : p \in {q \in Requests : Len(q) >= 6}}
             \cup Whole("rtu.listen", Rtu(<<1, 16, 0, 0, 0, 124, 248>> \o Fill(248)), FALSE)
AnswerInputs == UNION {Whole("rtu.receive", Rtu(p), TRUE) : p \in Answers}

\* One byte changed, with the next answer behind it: every value of every
\* byte of an exception, every value of the header of a read answer.
Noisy(f, is) ==
  UNION {{[port |-> "rtu.receive", sent |-> f, legal |-> FALSE,
           arrived |-> [f EXCEPT ![i] = b] \o f] : b \in Byte \ {f[i]}} : i \in is}
NoisyInputs == Noisy(Rtu(<<1, 131, 2>>), 1..5) \cup Noisy(Rtu(<<1, 3, 2, 18, 52>>), 1..3)

\* Two neighbouring bytes changed, to some values each, in an answer and in a
\* request.
Marks == {0, 1, 2, 4, 15, 16, 64, 127, 128, 255}
Bursts(port, f) ==
  {[port |-> port, sent |-> f, legal |-> FALSE,
    arrived |-> [f EXCEPT ![i] = b, ![i + 1] = c] \o f] :
      i \in 1..(Len(f) - 1), b \in Marks, c \in Marks}
BurstInputs == Bursts("rtu.receive", Rtu(<<1, 3, 2, 18, 52>>))
               \cup Bursts("rtu.listen", Rtu(<<1, 16, 0, 0, 0, 1, 2, 18, 52>>))

MCInputs == TcpInputs \cup RtuInputs \cup AnswerInputs \cup NoisyInputs \cup BurstInputs
=============================================================================
