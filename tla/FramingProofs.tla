--------------------------- MODULE FramingProofs ---------------------------
(***************************************************************************)
(* Theorems about the conversions of Frame and the readers of Framing, for *)
(* every frame and every input.  First the conversions, then what holds of *)
(* the readers whatever arrives, what they make of legal frames, and last  *)
(* what they make of legal frames with an error burst in them.             *)
(***************************************************************************)
EXTENDS Framing, CrcProofs, SequenceTheorems, TLAPS

-----------------------------------------------------------------------------
(* Conversions. *)

\* A 16-bit number read from two big-endian bytes is written as those bytes.
LEMMA U16Range ==
  ASSUME NEW hi \in Byte, NEW lo \in Byte
  PROVE  U16(hi, lo) \in Nat /\ U16(hi, lo) < 65536
  BY DEF U16, Byte

LEMMA BigEndian ==
  ASSUME NEW hi \in Byte, NEW lo \in Byte
  PROVE  be_bytes(U16(hi, lo)) = <<hi, lo>>
  <1>1. U16(hi, lo) \div 256 = hi
    BY DEF U16, Byte
  <1>2. U16(hi, lo) % 256 = lo
    BY DEF U16, Byte
  <1> QED  BY <1>1, <1>2, Zenon DEF be_bytes

\* Two sequences joined.
LEMMA Joined ==
  ASSUME NEW S, NEW s \in Seq(S), NEW t \in Seq(S)
  PROVE  /\ s \o t \in Seq(S) /\ Len(s \o t) = Len(s) + Len(t)
         /\ Len(s) \in Nat /\ Len(t) \in Nat
         /\ \A i \in 1..Len(s \o t) :
              (s \o t)[i] = IF i <= Len(s) THEN s[i] ELSE t[i - Len(s)]
  OBVIOUS

\* A part of a sequence.
LEMMA Part ==
  ASSUME NEW S, NEW s \in Seq(S), NEW m \in 1..(Len(s) + 1), NEW n \in (m - 1)..Len(s)
  PROVE  /\ SubSeq(s, m, n) \in Seq(S) /\ Len(SubSeq(s, m, n)) = n - m + 1
         /\ \A i \in 1..(n - m + 1) : SubSeq(s, m, n)[i] = s[m + i - 1]
  OBVIOUS

\* Sequences of the same length and with the same elements are equal.
LEMMA SameSeq ==
  ASSUME NEW S, NEW s \in Seq(S), NEW t \in Seq(S), Len(s) = Len(t),
         \A i \in 1..Len(s) : s[i] = t[i]
  PROVE  s = t
  OBVIOUS

\* A frame made of a body and two check bytes comes apart again.
LEMMA Trailed ==
  ASSUME NEW s \in Seq(Byte), NEW c \in Seq(Byte), Len(c) = 2
  PROVE  /\ s \o c \in Seq(Byte) /\ Len(s \o c) = Len(s) + 2
         /\ Body(s \o c) = s /\ Trailer(s \o c) = c
  <1> DEFINE f == s \o c
             n == Len(s)
  <1>1. /\ f \in Seq(Byte) /\ Len(f) = n + Len(c) /\ n \in Nat /\ Len(c) \in Nat
        /\ \A i \in 1..Len(f) : f[i] = IF i <= n THEN s[i] ELSE c[i - n]
    BY Joined
  <1>2. Len(f) = n + 2
    BY <1>1
  <1>3. Body(f) = SubSeq(f, 1, n) /\ Trailer(f) = SubSeq(f, n + 1, n + 2)
    BY <1>1, <1>2 DEF Body, Trailer
  <1> HIDE DEF f, n
  <1>4. /\ SubSeq(f, 1, n) \in Seq(Byte) /\ Len(SubSeq(f, 1, n)) = n
        /\ \A i \in 1..n : SubSeq(f, 1, n)[i] = f[i]
    BY <1>1, <1>2, Part
  <1>5. /\ SubSeq(f, n + 1, n + 2) \in Seq(Byte) /\ Len(SubSeq(f, n + 1, n + 2)) = 2
        /\ \A i \in 1..2 : SubSeq(f, n + 1, n + 2)[i] = f[n + i]
    BY <1>1, <1>2, Part
  <1>6. SubSeq(f, 1, n) = s
    <2>1. Len(s) = n
      BY DEF n
    <2>2. \A i \in 1..n : SubSeq(f, 1, n)[i] = s[i]
      BY <1>1, <1>2, <1>4
    <2> QED  BY <1>4, <2>1, <2>2, SameSeq
  <1>7. SubSeq(f, n + 1, n + 2) = c
    <2>1. \A i \in 1..2 : SubSeq(f, n + 1, n + 2)[i] = c[i]
      BY <1>1, <1>2, <1>5
    <2> QED  BY <1>5, <2>1, SameSeq
  <1> QED  BY <1>1, <1>2, <1>3, <1>6, <1>7 DEF f, n

\* The PDU of a TCP frame.
Pdu(tcp) == SubSeq(tcp, 7, Len(tcp))

LEMMA PduBytes ==
  ASSUME NEW tcp \in Seq(Byte), Len(tcp) >= 7
  PROVE  /\ Pdu(tcp) \in Seq(Byte) /\ Len(Pdu(tcp)) = Len(tcp) - 6
         /\ Len(tcp) \in Nat
         /\ \A i \in 1..(Len(tcp) - 6) : Pdu(tcp)[i] = tcp[i + 6]
  BY DEF Pdu

\* tcp_to_rtu appends the CRC to the PDU, for every frame ModbusTcp::listen
\* can return (7..261 bytes) and beyond.
LEMMA ToRtu ==
  ASSUME NEW tcp \in Seq(Byte), Len(tcp) >= 7, Len(tcp) <= 516
  PROVE  /\ tcp_to_rtu(tcp) = Ok(Pdu(tcp) \o crc(Pdu(tcp)))
         /\ Pdu(tcp) \in Seq(Byte) /\ Len(Pdu(tcp)) = Len(tcp) - 6
         /\ crc(Pdu(tcp)) \in Seq(Byte) /\ Len(crc(Pdu(tcp))) = 2
         /\ Len(Pdu(tcp) \o crc(Pdu(tcp))) = Len(tcp) - 4
  <1> DEFINE p == Pdu(tcp)
             c == crc(p)
  <1>a. Len(tcp) >= 7 /\ Len(tcp) <= 516 /\ Len(tcp) \in Nat
    OBVIOUS
  <1>1. p \in Seq(Byte) /\ Len(p) = Len(tcp) - 6
    BY <1>a, PduBytes
  <1>2. c \in Seq(Byte) /\ Len(c) = 2
    BY <1>1, TwoBytes
  <1>3. tcp_to_rtu(tcp) = Collect(p \o c)
    BY <1>a DEF tcp_to_rtu, Pdu
  <1> HIDE DEF p, c
  <1>4. Len(p \o c) = Len(p) + 2
    BY <1>1, <1>2, Trailed
  <1>5. Len(p \o c) = Len(tcp) - 4
    BY <1>1, <1>4, <1>a
  <1>6. Len(p \o c) <= VecCap
    BY <1>5, <1>a DEF VecCap
  <1>7. tcp_to_rtu(tcp) = Ok(p \o c)
    BY <1>3, <1>6 DEF Collect
  <1> QED  BY <1>1, <1>2, <1>5, <1>7, Zenon DEF p, c

\* Every request of at least two PDU bytes that ModbusTcp::listen returns is
\* turned into an RTU frame whose CRC a device accepts.
THEOREM RequestAccepted ==
  ASSUME NEW tcp \in Seq(Byte), Len(tcp) >= 8, Len(tcp) <= 516
  PROVE  check_crc(tcp_to_rtu(tcp).val) = "none"
  <1> DEFINE p == Pdu(tcp)
  <1>1. /\ tcp_to_rtu(tcp).val = p \o crc(p) /\ p \in Seq(Byte)
        /\ Len(p) = Len(tcp) - 6 /\ crc(p) \in Seq(Byte) /\ Len(crc(p)) = 2
    <2>1. Len(tcp) >= 7
      OBVIOUS
    <2>2. tcp_to_rtu(tcp) = Ok(p \o crc(p))
      BY <2>1, ToRtu, Zenon
    <2>3. tcp_to_rtu(tcp).val = p \o crc(p)
      BY <2>2 DEF Ok
    <2> QED  BY <2>1, <2>3, ToRtu, Zenon
  <1> HIDE DEF p
  <1>2. /\ Len(p \o crc(p)) = Len(p) + 2 /\ Body(p \o crc(p)) = p
        /\ Trailer(p \o crc(p)) = crc(p)
    BY <1>1, Trailed
  <1>3. ~(Len(p \o crc(p)) < 4)
    <2>1. Len(p) >= 2 /\ Len(p) \in Nat
      <3>1. Len(tcp) >= 8 /\ Len(tcp) \in Nat
        OBVIOUS
      <3> QED  BY <1>1, <3>1
    <2>2. Len(p \o crc(p)) = Len(p) + 2
      BY <1>2
    <2> QED  BY <2>1, <2>2
  <1> QED  BY <1>1, <1>2, <1>3, Zenon DEF check_crc

\* The MBAP header, byte by byte.
LEMMA Header ==
  ASSUME NEW S, NEW b1 \in S, NEW b2 \in S, NEW z \in S, NEW b5 \in S, NEW b6 \in S
  PROVE  <<b1, b2>> \o <<z, z>> \o <<b5, b6>> = <<b1, b2, z, z, b5, b6>>
  <1> DEFINE a == <<b1, b2>> \o <<z, z>>
             h == a \o <<b5, b6>>
             w == <<b1, b2, z, z, b5, b6>>
  <1>1. /\ a \in Seq(S) /\ Len(a) = 4
        /\ a[1] = b1 /\ a[2] = b2 /\ a[3] = z /\ a[4] = z
    OBVIOUS
  <1> HIDE DEF a
  <1>2. /\ h \in Seq(S) /\ Len(h) = 6
        /\ h[1] = b1 /\ h[2] = b2 /\ h[3] = z /\ h[4] = z /\ h[5] = b5 /\ h[6] = b6
    <2> DEFINE t == <<b5, b6>>
    <2>1. t \in Seq(S) /\ Len(t) = 2 /\ t[1] = b5 /\ t[2] = b6
      OBVIOUS
    <2> HIDE DEF t
    <2>2. a \in Seq(S) /\ t \in Seq(S)
      BY <1>1, <2>1
    <2>3. /\ a \o t \in Seq(S) /\ Len(a \o t) = Len(a) + Len(t)
          /\ \A i \in 1..Len(a \o t) : (a \o t)[i] = IF i <= Len(a) THEN a[i] ELSE t[i - Len(a)]
      BY <2>2, Joined, Zenon
    <2> DEFINE g == a \o t
    <2> HIDE DEF g
    <2>4. /\ g \in Seq(S) /\ Len(g) = Len(a) + Len(t)
          /\ \A i \in 1..Len(g) : g[i] = IF i <= Len(a) THEN a[i] ELSE t[i - Len(a)]
      BY <2>3 DEF g
    <2>5. Len(a) = 4 /\ Len(t) = 2
      BY <1>1, <2>1
    <2>6. Len(g) = 6
      BY <2>4, <2>5
    <2>7. /\ g[1] = a[1] /\ g[2] = a[2] /\ g[3] = a[3] /\ g[4] = a[4]
          /\ g[5] = t[1] /\ g[6] = t[2]
      BY <2>4, <2>5, <2>6
    <2> QED  BY <1>1, <2>1, <2>4, <2>6, <2>7 DEF g, t
  <1>3. w \in Seq(S) /\ Len(w) = 6
    OBVIOUS
  <1>4. w[1] = b1 /\ w[2] = b2 /\ w[3] = z /\ w[4] = z /\ w[5] = b5 /\ w[6] = b6
    OBVIOUS
  <1> HIDE DEF h, w
  <1>5. \A i \in 1..6 : h[i] = w[i]
    BY <1>2, <1>4
  <1>6. h = w
    BY <1>2, <1>3, <1>5, SameSeq
  <1> QED  BY <1>6 DEF h, w, a

LEMMA SixBytes ==
  ASSUME NEW tcp \in Seq(Byte), Len(tcp) >= 6, NEW i \in 1..6
  PROVE  tcp[i] \in Byte
  <1>1. i \in 1..Len(tcp)
    OBVIOUS
  <1> QED  BY <1>1

\* Five parts that make up a TCP frame make up the frame itself.
LEMMA Reassembled ==
  ASSUME NEW tcp \in Seq(Byte), Len(tcp) >= 7, tcp[3] = 0, tcp[4] = 0
  PROVE  <<tcp[1], tcp[2]>> \o <<0, 0>> \o <<tcp[5], tcp[6]>> \o Pdu(tcp) = tcp
  <1> DEFINE a == <<tcp[1], tcp[2]>>
             b == a \o <<0, 0>>
             h == b \o <<tcp[5], tcp[6]>>
             p == Pdu(tcp)
  <1>1. /\ tcp[1] \in Byte /\ tcp[2] \in Byte /\ 0 \in Byte
        /\ tcp[5] \in Byte /\ tcp[6] \in Byte
    <2>1. Len(tcp) >= 6
      OBVIOUS
    <2>2. 0 \in Byte
      BY DEF Byte
    <2> QED  BY <2>1, <2>2, SixBytes
  <1>2. h = <<tcp[1], tcp[2], 0, 0, tcp[5], tcp[6]>>
    BY <1>1, Header
  <1>3. h \in Seq(Byte) /\ Len(h) = 6 /\ \A i \in 1..6 : h[i] = tcp[i]
    BY <1>1, <1>2
  <1> HIDE DEF h, p
  <1>4. /\ p \in Seq(Byte) /\ Len(p) = Len(tcp) - 6 /\ Len(tcp) \in Nat
        /\ \A i \in 1..(Len(tcp) - 6) : p[i] = tcp[i + 6]
    BY PduBytes DEF p
  <1>5. /\ h \o p \in Seq(Byte) /\ Len(h \o p) = Len(h) + Len(p)
        /\ \A i \in 1..Len(h \o p) : (h \o p)[i] = IF i <= Len(h) THEN h[i] ELSE p[i - Len(h)]
    <2>1. h \in Seq(Byte) /\ p \in Seq(Byte)
      BY <1>3, <1>4
    <2> QED  BY <2>1, Joined, Zenon
  <1>6. Len(h \o p) = Len(tcp)
    BY <1>3, <1>4, <1>5
  <1>7. \A i \in 1..Len(h \o p) : (h \o p)[i] = tcp[i]
    <2> SUFFICES ASSUME NEW i \in 1..Len(h \o p) PROVE (h \o p)[i] = tcp[i]
      OBVIOUS
    <2>1. CASE i <= 6
      BY <1>3, <1>5, <2>1
    <2>2. CASE i > 6
      <3>1. (h \o p)[i] = p[i - 6]
        BY <1>3, <1>5, <2>2
      <3>2. i - 6 \in 1..(Len(tcp) - 6)
        BY <1>4, <1>6, <2>2
      <3> QED  BY <1>4, <3>1, <3>2
    <2> QED  BY <2>1, <2>2
  <1>8. h \o p = tcp
    BY <1>5, <1>6, <1>7, SameSeq
  <1> QED  BY <1>8 DEF h, p

\* The length field of the frame says how long it is; the protocol is 0.
WellFormed(tcp) ==
  Len(tcp) = 6 + U16(tcp[5], tcp[6]) /\ tcp[3] = 0 /\ tcp[4] = 0

\* Wrapping the RTU frame of a request under the request's transaction id
\* gives back the request: no byte is lost, added or moved on the way.
THEOREM RequestRoundTrip ==
  ASSUME NEW tcp \in Seq(Byte), Len(tcp) >= 8, Len(tcp) <= 512, WellFormed(tcp)
  PROVE  rtu_to_tcp(tcp_to_rtu(tcp).val, TidOf(tcp)) = Ok(tcp)
  <1> DEFINE p == Pdu(tcp)
             f == p \o crc(p)
  <1>a. Len(tcp) >= 7 /\ Len(tcp) <= 516 /\ Len(tcp) >= 6 /\ Len(tcp) \in Nat
    OBVIOUS
  <1>b. /\ tcp[1] \in Byte /\ tcp[2] \in Byte /\ tcp[5] \in Byte /\ tcp[6] \in Byte
    BY <1>a, SixBytes
  <1>1. /\ tcp_to_rtu(tcp) = Ok(f) /\ p \in Seq(Byte) /\ Len(p) = Len(tcp) - 6
        /\ crc(p) \in Seq(Byte) /\ Len(crc(p)) = 2 /\ Len(f) = Len(tcp) - 4
    BY <1>a, ToRtu, Zenon
  <1>2. tcp_to_rtu(tcp).val = f
    BY <1>1 DEF Ok
  <1> HIDE DEF f
  <1>3. Body(f) = p
    BY <1>1, Trailed DEF f
  <1> DEFINE b1 == tcp[1]
             b2 == tcp[2]
             b5 == tcp[5]
             b6 == tcp[6]
  <1>c. b1 \in Byte /\ b2 \in Byte /\ b5 \in Byte /\ b6 \in Byte
    BY <1>b
  <1>d. TidOf(tcp) = U16(b1, b2)
    BY DEF TidOf
  <1>e. Len(tcp) = 6 + U16(b5, b6)
    BY DEF WellFormed
  <1>f. <<b1, b2>> \o <<0, 0>> \o <<b5, b6>> \o p = tcp
    BY <1>a, Reassembled DEF WellFormed
  <1> HIDE DEF p, b1, b2, b5, b6
  <1> DEFINE u == U16(b5, b6)
             k == Len(p) % 65536
  <1>g. u \in Nat /\ u < 65536
    BY <1>c, U16Range
  <1>h. be_bytes(u) = <<b5, b6>> /\ be_bytes(TidOf(tcp)) = <<b1, b2>>
    BY <1>c, <1>d, BigEndian
  <1>i. Mbap(TidOf(tcp), Len(p)) = be_bytes(TidOf(tcp)) \o <<0, 0>> \o be_bytes(k)
    BY DEF Mbap
  <1> HIDE DEF u
  <1>4. Len(p) = u
    <2> DEFINE m == Len(tcp)
               l == Len(p)
    <2>1. l = m - 6
      BY <1>1
    <2>2. m = 6 + u
      BY <1>e DEF u
    <2> HIDE DEF l, m
    <2>3. l = u
      BY ONLY <1>g, <2>1, <2>2
    <2> QED  BY <2>3 DEF l
  <1>5. k = u
    BY <1>4, <1>g
  <1> HIDE DEF k
  <1>7. Mbap(TidOf(tcp), Len(p)) \o p = tcp
    BY <1>5, <1>h, <1>i, <1>f, Zenon
  <1>8. ~(Len(f) < 4) /\ Len(tcp) <= VecCap
    <2>1. Len(tcp) >= 8
      OBVIOUS
    <2> QED  BY <1>1, <1>a, <2>1 DEF VecCap
  <1>9. rtu_to_tcp(f, TidOf(tcp)) = Collect(tcp)
    BY <1>3, <1>7, <1>8, Zenon DEF rtu_to_tcp
  <1> QED  BY <1>2, <1>8, <1>9, Zenon DEF Collect

\* The two bytes of a 16-bit number.
LEMMA TwoHalves ==
  ASSUME NEW n \in Nat, n < 65536
  PROVE  n \div 256 \in Byte /\ n % 256 \in Byte
  BY DEF Byte

LEMMA BodyBytes ==
  ASSUME NEW S, NEW s \in Seq(S), Len(s) >= 2
  PROVE  Body(s) \in Seq(S) /\ Len(Body(s)) = Len(s) - 2
  <1> DEFINE n == Len(s) - 2
  <1>1. 1 \in 1..(Len(s) + 1) /\ n \in (1 - 1)..Len(s) /\ n \in Nat
    OBVIOUS
  <1>2. Body(s) = SubSeq(s, 1, n)
    BY DEF Body
  <1> HIDE DEF n
  <1>3. SubSeq(s, 1, n) \in Seq(S) /\ Len(SubSeq(s, 1, n)) = n
    BY <1>1, Part
  <1> QED  BY <1>2, <1>3 DEF n

LEMMA MbapBytes ==
  ASSUME NEW tid \in Nat, tid < 65536, NEW n \in Nat
  PROVE  Mbap(tid, n) \in Seq(Byte) /\ Len(Mbap(tid, n)) = 6
  <1> DEFINE k  == n % 65536
             b1 == tid \div 256
             b2 == tid % 256
             b5 == k \div 256
             b6 == k % 256
  <1>1. k \in Nat /\ k < 65536
    OBVIOUS
  <1>2. Mbap(tid, n) = <<b1, b2>> \o <<0, 0>> \o <<b5, b6>>
    BY DEF Mbap, be_bytes
  <1> HIDE DEF k
  <1>3. b1 \in Byte /\ b2 \in Byte
    BY TwoHalves
  <1>4. b5 \in Byte /\ b6 \in Byte
    BY <1>1, TwoHalves
  <1>5. 0 \in Byte
    BY DEF Byte
  <1> HIDE DEF b1, b2, b5, b6
  <1>6. Mbap(tid, n) = <<b1, b2, 0, 0, b5, b6>>
    BY <1>2, <1>3, <1>4, <1>5, Header
  <1> QED  BY <1>3, <1>4, <1>5, <1>6

\* The header announces at most 260 bytes in all.
LEMMA ResponseLength ==
  ASSUME NEW rtu \in Seq(Byte), Len(rtu) >= 3
  PROVE  /\ rtu_response_remaining(rtu) \in Nat
         /\ rtu_response_remaining(rtu) >= 2 /\ rtu_response_remaining(rtu) <= 257
  <1>1. 3 \in 1..Len(rtu)
    OBVIOUS
  <1>2. rtu[3] \in Byte
    BY <1>1
  <1> DEFINE b == rtu[3]
  <1>3. b \in Byte
    BY <1>2
  <1> HIDE DEF b
  <1>4. b + 2 \in Nat /\ b + 2 >= 2 /\ b + 2 <= 257
    BY <1>3 DEF Byte
  <1> QED  BY <1>4 DEF rtu_response_remaining, b

\* A response that receive has read to the length its header announces is
\* always wrapped: the InvalidTransactionId arm of Connection::next, its
\* Warning and the BufferOverflow beside it are dead code in bridge mode.
THEOREM ResponseAlwaysWrapped ==
  ASSUME NEW rtu \in Seq(Byte), Len(rtu) >= 3,
         Len(rtu) = 3 + rtu_response_remaining(rtu), NEW tid \in Nat, tid < 65536
  PROVE  rtu_resp_to_tcp(rtu, tid).err = "none"
  <1> DEFINE b == Body(rtu)
             m == Mbap(tid, Len(b))
             f == m \o b
  <1>1. Len(rtu) >= 5 /\ Len(rtu) <= 260 /\ Len(rtu) \in Nat
    BY ResponseLength
  <1>2. b \in Seq(Byte) /\ Len(b) = Len(rtu) - 2 /\ Len(b) \in Nat
    BY <1>1, BodyBytes
  <1> HIDE DEF b
  <1>3. m \in Seq(Byte) /\ Len(m) = 6
    BY <1>2, MbapBytes
  <1> HIDE DEF m
  <1>4. Len(f) = Len(m) + Len(b)
    <2>1. m \in Seq(Byte) /\ b \in Seq(Byte)
      BY <1>2, <1>3
    <2>2. Len(m \o b) = Len(m) + Len(b)
      BY <2>1, Joined
    <2> QED  BY <2>2
  <1> HIDE DEF f
  <1>5. Len(f) <= VecCap
    BY <1>1, <1>2, <1>3, <1>4 DEF VecCap
  <1>6. rtu_resp_to_tcp(rtu, tid) = Collect(f)
    BY <1>1 DEF rtu_resp_to_tcp, f, m, b
  <1>7. Collect(f) = Ok(f)
    BY <1>5 DEF Collect
  <1> QED  BY <1>6, <1>7 DEF Ok

\* A length field that fits in one byte is that byte.
LEMMA LowByte ==
  ASSUME NEW hi \in Byte, NEW lo \in Byte, NEW n \in Nat, n <= 261, n = 6 + U16(hi, lo)
  PROVE  n = 6 + lo
  BY DEF U16, Byte

\* An answer that ModbusTcp::listen has read under the expected transaction
\* id loses nothing to tcp_resp_to_rtu, which takes its length from the low
\* byte alone: a frame that fits the 261-byte buffer has no high byte.
THEOREM AnswerTakenWhole ==
  ASSUME NEW tcp \in Seq(Byte), Len(tcp) >= 7, Len(tcp) <= TCP_BUF,
         Len(tcp) = 6 + U16(tcp[5], tcp[6])
  PROVE  tcp_resp_to_rtu(tcp, TidOf(tcp)) = tcp_to_rtu(tcp)
  <1>1. Len(tcp) >= 6 /\ Len(tcp) <= 261 /\ Len(tcp) \in Nat
    BY DEF TCP_BUF
  <1>2. tcp[5] \in Byte /\ tcp[6] \in Byte
    BY <1>1, SixBytes
  <1>3. Len(tcp) = 6 + tcp[6]
    BY <1>1, <1>2, LowByte
  <1>4. ~(Len(tcp) < 7) /\ ~(Len(tcp) < 6 + tcp[6])
    BY <1>1, <1>3
  <1> QED  BY <1>3, <1>4, Zenon DEF tcp_resp_to_rtu, tcp_to_rtu

\* Both modes report the same fields of a request: parse_tcp_request of the
\* TCP frame and parse_rtu_request of the RTU frame it becomes agree.
THEOREM SameEvent ==
  ASSUME NEW tcp \in Seq(Byte), Len(tcp) >= 7, Len(tcp) <= 516
  PROVE  parse_tcp_request(tcp) = parse_rtu_request(tcp_to_rtu(tcp).val)
  <1> DEFINE p == Pdu(tcp)
             c == crc(p)
             f == p \o c
  <1>1. /\ tcp_to_rtu(tcp) = Ok(f) /\ p \in Seq(Byte) /\ Len(p) = Len(tcp) - 6
        /\ c \in Seq(Byte) /\ Len(f) = Len(tcp) - 4
    BY ToRtu
  <1>2. tcp_to_rtu(tcp).val = f
    BY <1>1 DEF Ok
  <1>3. Len(tcp) \in Nat /\ \A i \in 1..(Len(tcp) - 6) : p[i] = tcp[i + 6]
    BY PduBytes
  <1> HIDE DEF p, c
  <1>4. \A i \in 1..Len(f) : i <= Len(p) => f[i] = p[i]
    <2>1. p \in Seq(Byte) /\ c \in Seq(Byte)
      BY <1>1
    <2> QED  BY <2>1, Joined
  <1> HIDE DEF f
  <1>5. CASE Len(tcp) < 12
    BY <1>1, <1>2, <1>3, <1>5 DEF parse_tcp_request, parse_rtu_request
  <1>6. CASE ~(Len(tcp) < 12)
    <2>1. /\ f[1] = tcp[7] /\ f[2] = tcp[8] /\ f[3] = tcp[9] /\ f[4] = tcp[10]
          /\ f[5] = tcp[11] /\ f[6] = tcp[12]
      BY <1>1, <1>3, <1>4, <1>6
    <2>2. ~(Len(f) < 8)
      BY <1>1, <1>3, <1>6
    <2> QED  BY <1>2, <1>6, <2>1, <2>2 DEF parse_tcp_request, parse_rtu_request
  <1> QED  BY <1>5, <1>6

-----------------------------------------------------------------------------
(* The readers. *)

(***************************************************************************)
(* The inductive invariant.  The bytes in the buffer and those still to be *)
(* read make up the frame that its length field announces.                 *)
(***************************************************************************)
TcpFrameOK ==
  input.port = "tcp.listen" =>
    /\ stage # "fixed"
    /\ stage = "rest" => Len(buf) >= 6 /\ Len(buf) + left = 6 + U16(buf[5], buf[6])
    /\ out = "none" => stage = "rest" /\ left = 0

ReaderInv ==
  /\ TypeOK
  /\ input.port \in Ports
  /\ stage = "header" => buf = <<>>
  /\ stage = "fixed" => input.port = "rtu.listen" /\ Len(buf) = 2
  /\ TcpFrameOK

LEMMA ReaderInit == Init => ReaderInv
  <1> SUFFICES ASSUME Init PROVE ReaderInv
    OBVIOUS
  <1>1. /\ input.port \in Ports /\ input.arrived \in Seq(Byte)
        /\ in = input.arrived /\ buf = <<>> /\ stage = "header" /\ left = 0 /\ out = "reading"
    BY InputAssumption DEF Init
  <1>2. TypeOK
    <2>1. buf \in Seq(Byte) /\ Len(buf) = 0
      BY <1>1
    <2>2. Len(buf) <= Capacity(input.port)
      BY <1>1, <2>1 DEF Capacity, Ports, TCP_BUF, RTU_BUF, VecCap
    <2> QED  BY <1>1, <2>1, <2>2 DEF TypeOK
  <1>3. TcpFrameOK
    BY <1>1 DEF TcpFrameOK
  <1> QED  BY <1>1, <1>2, <1>3 DEF ReaderInv

\* The header as the first bytes of what is left of the stream.
LEMMA Taken ==
  ASSUME NEW n \in Nat, in \in Seq(Byte), Len(in) >= n
  PROVE  /\ Take(n) \in Seq(Byte) /\ Len(Take(n)) = n
         /\ \A i \in 1..n : Take(n)[i] = in[i]
         /\ Drop(n) \in Seq(Byte)
  <1>1. 1 \in 1..(Len(in) + 1) /\ n \in (1 - 1)..Len(in)
    OBVIOUS
  <1>2. n + 1 \in 1..(Len(in) + 1) /\ Len(in) \in ((n + 1) - 1)..Len(in)
    OBVIOUS
  <1>3. /\ SubSeq(in, 1, n) \in Seq(Byte) /\ Len(SubSeq(in, 1, n)) = n
        /\ \A i \in 1..n : SubSeq(in, 1, n)[i] = in[i]
    BY <1>1, Part
  <1>4. SubSeq(in, n + 1, Len(in)) \in Seq(Byte)
    BY <1>2, Part
  <1> QED  BY <1>3, <1>4 DEF Take, Drop

\* One reader finishes its header.
LEMMA HeaderStep == ASSUME ReaderInv, ReadHeader PROVE ReaderInv'
  <1> DEFINE port == input.port
             n == HeaderLen(port)
             h == Take(n)
             a == AfterHeader(port, h)
  <1>1. /\ port \in Ports /\ in \in Seq(Byte) /\ Len(in) >= n
        /\ buf' = h /\ stage' = a.stage /\ left' = a.left /\ in' = Drop(n)
        /\ input' = input /\ out' = "reading" /\ out = "reading"
    BY DEF ReaderInv, TypeOK, ReadHeader
  <1>2. n \in Nat
    BY <1>1 DEF HeaderLen, Ports
  <1>3. /\ h \in Seq(Byte) /\ Len(h) = n /\ Drop(n) \in Seq(Byte)
    BY <1>1, <1>2, Taken
  <1> HIDE DEF h
  <1>4. CASE port = "tcp.listen"
    <2>1. n = 6 /\ Len(h) = 6
      BY <1>3, <1>4 DEF HeaderLen
    <2>2. a = [stage |-> "rest", left |-> U16(h[5], h[6])]
      BY <1>4 DEF AfterHeader
    <2>a. h \in Seq(Byte) /\ Len(h) >= 6
      BY <1>3, <2>1
    <2>3. h[5] \in Byte /\ h[6] \in Byte
      BY <2>a, SixBytes
    <2>4. U16(h[5], h[6]) \in Nat /\ U16(h[5], h[6]) < 65536
      BY <2>3, U16Range
    <2> DEFINE u == U16(h[5], h[6])
    <2> HIDE DEF u
    <2>5. u \in Nat /\ u < 65536 /\ stage' = "rest" /\ left' = u
      BY <1>1, <2>2, <2>4 DEF u
    <2>6. Capacity(input'.port) = 261
      BY <1>1, <1>4 DEF Capacity, TCP_BUF
    <2>7. TypeOK'
      BY <1>1, <1>3, <2>1, <2>5, <2>6 DEF TypeOK
    <2>8. TcpFrameOK'
      <3>1. Len(buf') >= 6 /\ Len(buf') + left' = 6 + u
        BY <1>1, <2>1, <2>5
      <3>2. u = U16(buf'[5], buf'[6])
        BY <1>1 DEF u
      <3> QED  BY <1>1, <2>5, <3>1, <3>2 DEF TcpFrameOK
    <2> QED  BY <1>1, <2>5, <2>7, <2>8 DEF ReaderInv
  <1>5. CASE port = "rtu.listen"
    <2>1. n = 2 /\ Len(h) = 2
      BY <1>3, <1>5 DEF HeaderLen
    <2>2. \/ stage' = "fixed" /\ left' = 0
          \/ stage' = "rest" /\ left' = 6
      BY <1>1, <1>5 DEF AfterHeader
    <2>a. Capacity(input'.port) = 255
      BY <1>1, <1>5 DEF Capacity, RTU_BUF
    <2>b. /\ buf' \in Seq(Byte) /\ Len(buf') = 2 /\ in' \in Seq(Byte)
          /\ left' \in Nat /\ stage' \in {"fixed", "rest"}
      BY <1>1, <1>3, <2>1, <2>2
    <2>c. Len(buf') <= Capacity(input'.port)
      BY <2>a, <2>b
    <2>3. TypeOK'
      BY <1>1, <2>b, <2>c DEF TypeOK
    <2>4. TcpFrameOK'
      BY <1>1, <1>5 DEF TcpFrameOK
    <2> QED  BY <1>1, <1>5, <2>1, <2>2, <2>3, <2>4 DEF ReaderInv
  <1>6. CASE port = "rtu.receive"
    <2>1. n = 3 /\ Len(h) = 3
      BY <1>3, <1>6 DEF HeaderLen
    <2>2. a = [stage |-> "rest", left |-> rtu_response_remaining(h)]
      BY <1>6 DEF AfterHeader
    <2> DEFINE r == rtu_response_remaining(h)
    <2>a. h \in Seq(Byte) /\ Len(h) >= 3
      BY <1>3, <2>1
    <2>3. r \in Nat
      BY <2>a, ResponseLength
    <2>4. stage' = "rest" /\ left' = r
      BY <1>1, <2>2
    <2> HIDE DEF r
    <2>b. Capacity(input'.port) = 512
      BY <1>1, <1>6 DEF Capacity, VecCap
    <2>c. /\ buf' \in Seq(Byte) /\ Len(buf') = 3 /\ in' \in Seq(Byte)
          /\ left' \in Nat
      BY <1>1, <1>3, <2>1, <2>3, <2>4
    <2>d. Len(buf') <= Capacity(input'.port)
      BY <2>b, <2>c
    <2>5. TypeOK'
      BY <1>1, <2>4, <2>c, <2>d DEF TypeOK
    <2>6. TcpFrameOK'
      BY <1>1, <1>6 DEF TcpFrameOK
    <2> QED  BY <1>1, <2>4, <2>5, <2>6 DEF ReaderInv
  <1> QED  BY <1>1, <1>4, <1>5, <1>6 DEF Ports

\* The five bytes after the header of FC 0F and 10.
LEMMA FixedStep == ASSUME ReaderInv, ReadFixed PROVE ReaderInv'
  <1> DEFINE t == Take(5)
             b == in[5]
  <1>1. /\ in \in Seq(Byte) /\ buf \in Seq(Byte) /\ Len(buf) = 2
        /\ Len(in) >= 5 /\ input.port = "rtu.listen"
        /\ input' = input /\ out' = out /\ out = "reading"
        /\ buf' = buf \o t /\ in' = Drop(5) /\ stage' = "rest" /\ left' = b + 2
    BY DEF ReaderInv, TypeOK, ReadFixed
  <1>2. t \in Seq(Byte) /\ Len(t) = 5 /\ in' \in Seq(Byte)
    BY <1>1, Taken
  <1>3. b \in Byte
    <2>1. 5 \in 1..Len(in)
      BY <1>1
    <2> QED  BY <1>1, <2>1
  <1> HIDE DEF t, b
  <1>4. left' \in Nat
    BY <1>1, <1>3 DEF Byte
  <1>5. buf' \in Seq(Byte) /\ Len(buf') = Len(buf) + Len(t)
    <2>1. buf \in Seq(Byte) /\ t \in Seq(Byte)
      BY <1>1, <1>2
    <2>2. buf \o t \in Seq(Byte) /\ Len(buf \o t) = Len(buf) + Len(t)
      BY <2>1, Joined
    <2> QED  BY <1>1, <2>2
  <1>6. Len(buf') <= Capacity(input'.port)
    <2>1. Capacity(input'.port) = 255
      BY <1>1 DEF Capacity, RTU_BUF
    <2>2. Len(buf') = 7
      BY <1>1, <1>2, <1>5
    <2> QED  BY <2>1, <2>2
  <1>7. TypeOK'
    BY <1>1, <1>2, <1>4, <1>5, <1>6 DEF TypeOK
  <1>8. TcpFrameOK'
    BY <1>1 DEF TcpFrameOK
  <1> QED  BY <1>1, <1>7, <1>8 DEF ReaderInv, Ports

\* One byte of the rest; the length field keeps its place.
LEMMA ByteStep == ASSUME ReaderInv, ReadByte PROVE ReaderInv'
  <1>1. /\ in \in Seq(Byte) /\ in # <<>> /\ buf \in Seq(Byte) /\ left \in Nat /\ left > 0
        /\ Len(buf) <= Capacity(input.port) /\ input.port \in Ports
        /\ in' = Tail(in) /\ stage' = stage /\ stage = "rest" /\ out = "reading"
        /\ input' = input
    BY DEF ReaderInv, TypeOK, ReadByte
  <1>2. in' \in Seq(Byte) /\ Head(in) \in Byte
    BY <1>1
  <1>3. CASE Len(buf) < Capacity(input.port)
    <2>1. buf' = Append(buf, Head(in)) /\ left' = left - 1 /\ out' = out
      BY <1>3 DEF ReadByte
    <2>2. /\ buf' \in Seq(Byte) /\ Len(buf') = Len(buf) + 1
          /\ \A i \in 1..Len(buf) : buf'[i] = buf[i]
          /\ left' \in Nat
      BY <1>1, <1>2, <2>1
    <2>3. Len(buf') <= Capacity(input'.port)
      <3>1. Capacity(input.port) \in Nat
        BY <1>1 DEF Capacity, Ports, TCP_BUF, RTU_BUF, VecCap
      <3> QED  BY <1>1, <1>3, <2>2, <3>1
    <2>4. TypeOK'
      BY <1>1, <1>2, <2>1, <2>2, <2>3 DEF TypeOK
    <2>5. TcpFrameOK'
      <3> SUFFICES ASSUME input.port = "tcp.listen"
                   PROVE  Len(buf') >= 6 /\ Len(buf') + left' = 6 + U16(buf'[5], buf'[6])
        BY <1>1, <2>1 DEF TcpFrameOK
      <3>1. Len(buf) >= 6 /\ Len(buf) + left = 6 + U16(buf[5], buf[6])
        BY <1>1 DEF ReaderInv, TcpFrameOK
      <3>2. buf'[5] = buf[5] /\ buf'[6] = buf[6]
        BY <1>1, <2>2, <3>1
      <3>3. Len(buf') >= 6 /\ Len(buf') + left' = Len(buf) + left
        BY <1>1, <2>1, <2>2, <3>1
      <3> QED  BY <3>1, <3>2, <3>3
    <2> QED  BY <1>1, <2>4, <2>5 DEF ReaderInv
  <1>4. CASE ~(Len(buf) < Capacity(input.port))
    <2>1. out' = "Push" /\ buf' = buf /\ left' = left
      BY <1>4 DEF ReadByte
    <2>2. TypeOK'
      BY <1>1, <1>2, <2>1 DEF TypeOK
    <2>3. TcpFrameOK'
      BY <1>1, <2>1 DEF ReaderInv, TcpFrameOK
    <2> QED  BY <1>1, <2>2, <2>3 DEF ReaderInv
  <1> QED  BY <1>3, <1>4

\* The stream ends, or the frame does.
LEMMA EndStep == ASSUME ReaderInv, ReadEof \/ Finish PROVE ReaderInv'
  <1>1. CASE ReadEof
    <2>1. UNCHANGED <<input, buf, stage, left>> /\ out' = "PayloadTooShort" /\ in' \in Seq(Byte)
      BY <1>1 DEF ReadEof
    <2> QED  BY <2>1 DEF ReaderInv, TypeOK, TcpFrameOK
  <1>2. CASE Finish
    <2>1. /\ UNCHANGED <<input, in, buf, stage, left>> /\ stage = "rest" /\ left = 0
          /\ out' \in {"none", "Crc", "PayloadTooShort"}
      BY <1>2 DEF Finish, check_crc
    <2> QED  BY <2>1 DEF ReaderInv, TypeOK, TcpFrameOK
  <1> QED  BY <1>1, <1>2

LEMMA ReaderStep == ReaderInv /\ [Next]_vars => ReaderInv'
  <1> SUFFICES ASSUME ReaderInv, [Next]_vars PROVE ReaderInv'
    OBVIOUS
  <1>1. CASE UNCHANGED vars
    BY <1>1 DEF vars, ReaderInv, TypeOK, TcpFrameOK
  <1>2. CASE Next
    BY <1>2, HeaderStep, FixedStep, ByteStep, EndStep DEF Next
  <1> QED  BY <1>1, <1>2

\* No reader ever writes past its buffer, whatever bytes arrive.
THEOREM ReadersTyped == Spec => []TypeOK
  <1>1. ReaderInv => TypeOK
    BY DEF ReaderInv
  <1> QED  BY <1>1, ReaderInit, ReaderStep, PTL DEF Spec

\* Whatever request ModbusTcp::listen returns, the device gets a frame with a
\* right CRC that stands for that request and no other; and an answer that
\* listen returns loses nothing on its way to the RTU master.
THEOREM Forwarded == Spec => []RequestForwarded
  <1>1. ReaderInv => RequestForwarded
    <2> SUFFICES ASSUME ReaderInv, out = "none", input.port = "tcp.listen", Len(buf) >= 8
                 PROVE  /\ check_crc(tcp_to_rtu(buf).val) = "none"
                        /\ buf[3] = 0 /\ buf[4] = 0 =>
                             rtu_to_tcp(tcp_to_rtu(buf).val, TidOf(buf)) = Ok(buf)
                        /\ tcp_resp_to_rtu(buf, TidOf(buf)) = Ok(tcp_to_rtu(buf).val)
                        /\ parse_tcp_request(buf) = parse_rtu_request(tcp_to_rtu(buf).val)
      BY DEF RequestForwarded
    <2>1. /\ buf \in Seq(Byte) /\ Len(buf) <= 261
          /\ Len(buf) + left = 6 + U16(buf[5], buf[6]) /\ left = 0
      BY DEF ReaderInv, TypeOK, TcpFrameOK, Capacity, TCP_BUF
    <2>2. /\ Len(buf) \in Nat /\ Len(buf) >= 7 /\ Len(buf) <= 512 /\ Len(buf) <= 516
          /\ Len(buf) <= TCP_BUF
      BY <2>1 DEF TCP_BUF
    <2>3. Len(buf) = 6 + U16(buf[5], buf[6])
      BY <2>1, <2>2
    <2>4. check_crc(tcp_to_rtu(buf).val) = "none"
      BY <2>1, <2>2, RequestAccepted
    <2>5. ASSUME buf[3] = 0, buf[4] = 0
          PROVE  rtu_to_tcp(tcp_to_rtu(buf).val, TidOf(buf)) = Ok(buf)
      <3>1. WellFormed(buf)
        BY <2>3, <2>5 DEF WellFormed
      <3> QED  BY <2>1, <2>2, <3>1, RequestRoundTrip
    <2>6. tcp_resp_to_rtu(buf, TidOf(buf)) = tcp_to_rtu(buf)
      BY <2>1, <2>2, <2>3, AnswerTakenWhole
    <2>7. tcp_to_rtu(buf) = Ok(tcp_to_rtu(buf).val)
      <3>1. tcp_to_rtu(buf) = Ok(Pdu(buf) \o crc(Pdu(buf)))
        BY <2>1, <2>2, ToRtu
      <3> QED  BY <3>1 DEF Ok
    <2>8. parse_tcp_request(buf) = parse_rtu_request(tcp_to_rtu(buf).val)
      BY <2>1, <2>2, SameEvent
    <2> QED  BY <2>4, <2>5, <2>6, <2>7, <2>8, Zenon
  <1> QED  BY <1>1, ReaderInit, ReaderStep, PTL DEF Spec
-----------------------------------------------------------------------------
(* Legal frames. *)

\* The body of a frame keeps its bytes.
LEMMA BodyKept ==
  ASSUME NEW f \in Seq(Byte), check_crc(f) = "none"
  PROVE  /\ Len(f) \in Nat /\ Len(f) >= 4
         /\ Body(f) \in Seq(Byte) /\ Len(Body(f)) = Len(f) - 2
         /\ \A i \in 1..(Len(f) - 2) : Body(f)[i] = f[i]
  <1>0. Len(f) \in Nat /\ Len(f) >= 4
    <2>1. Len(f) \in Nat
      OBVIOUS
    <2>2. ~(Len(f) < 4)
      BY DEF check_crc
    <2> QED  BY <2>1, <2>2
  <1> DEFINE n == Len(f) - 2
  <1>1. 1 \in 1..(Len(f) + 1) /\ n \in (1 - 1)..Len(f) /\ n \in Nat
    BY <1>0
  <1>2. Body(f) = SubSeq(f, 1, n)
    BY DEF Body
  <1> HIDE DEF n
  <1>3. /\ SubSeq(f, 1, n) \in Seq(Byte) /\ Len(SubSeq(f, 1, n)) = n
        /\ \A i \in 1..n : SubSeq(f, 1, n)[i] = f[i]
    BY <1>1, Part
  <1> QED  BY <1>0, <1>2, <1>3 DEF n

LEMMA ByteAt ==
  ASSUME NEW f \in Seq(Byte), NEW i \in Nat, i >= 1, i <= Len(f)
  PROVE  f[i] \in Nat /\ f[i] <= 255
  <1>1. i \in 1..Len(f)
    OBVIOUS
  <1>2. f[i] \in Byte
    BY <1>1
  <1> DEFINE b == f[i]
  <1>3. b \in Byte
    BY <1>2
  <1> HIDE DEF b
  <1>4. b \in Nat /\ b <= 255
    BY <1>3 DEF Byte
  <1> QED  BY <1>4 DEF b

\* The three layouts of an answer.
LEMMA Codes ==
  ASSUME NEW c
  PROVE  /\ c \in 1..4 => c \notin WriteEchos /\ c \notin Exceptions
         /\ c \in WriteEchos => c \notin Exceptions
         /\ c \in 1..6 => c \notin {15, 16}
  BY DEF WriteEchos, Exceptions

\* How long the legal frames of each reader are.
LEMMA TcpSizes ==
  ASSUME NEW f \in Seq(Byte), LegalFrame("tcp.listen", f)
  PROVE  /\ Len(f) \in Nat /\ Len(f) >= 8 /\ Len(f) <= 259
         /\ Len(f) = 6 + U16(f[5], f[6])
         /\ \/ Len(f) <= 12
            \/ f[8] \in {15, 16} /\ Len(f) = 13 + f[13]
  <1> DEFINE p == SubSeq(f, 7, Len(f))
  <1>1. /\ Len(f) >= 8 /\ Len(f) \in Nat /\ Len(f) = 6 + U16(f[5], f[6])
        /\ LegalRequest(p) \/ NoData(p)
    BY DEF LegalFrame
  <1>2. /\ Len(p) = Len(f) - 6 /\ \A i \in 1..(Len(f) - 6) : p[i] = f[i + 6]
    <2>1. p = Pdu(f)
      BY DEF Pdu
    <2>2. Len(f) >= 7
      BY <1>1
    <2> HIDE DEF p
    <2> QED  BY <2>1, <2>2, PduBytes
  <1> HIDE DEF p
  <1>3. CASE Len(p) = 6 \/ Len(p) = 2
    BY <1>1, <1>2, <1>3
  <1>4. CASE p[2] \in {15, 16} /\ Len(p) >= 7 /\ Len(p) = 7 + p[7] /\ p[7] <= 246
    <2>1. 2 \in 1..(Len(f) - 6) /\ 7 \in 1..(Len(f) - 6)
      BY <1>1, <1>2, <1>4
    <2>2. p[2] = f[8] /\ p[7] = f[13]
      BY <1>2, <2>1
    <2>3. f[13] \in Nat
      BY <1>1, <2>1, ByteAt
    <2>4. Len(f) = 13 + f[13] /\ Len(f) <= 259
      BY <1>1, <1>2, <1>4, <2>2, <2>3
    <2> QED  BY <1>1, <1>4, <2>2, <2>4
  <1> QED  BY <1>1, <1>3, <1>4 DEF LegalRequest, NoData

LEMMA RequestSizes ==
  ASSUME NEW f \in Seq(Byte), LegalFrame("rtu.listen", f)
  PROVE  /\ Len(f) \in Nat /\ Len(f) >= 8 /\ Len(f) <= 255 /\ check_crc(f) = "none"
         /\ \/ f[2] \in {15, 16} /\ Len(f) = 9 + f[7]
            \/ f[2] \notin {15, 16} /\ Len(f) = 8
  <1> DEFINE p == Body(f)
  <1>1. check_crc(f) = "none" /\ LegalRequest(p)
    BY DEF LegalFrame
  <1>2. /\ Len(p) = Len(f) - 2 /\ Len(f) \in Nat /\ Len(f) >= 4
        /\ \A i \in 1..(Len(f) - 2) : p[i] = f[i]
    BY <1>1, BodyKept
  <1> HIDE DEF p
  <1>3. p[2] = f[2]
    <2>1. 2 \in 1..(Len(f) - 2)
      BY <1>2
    <2> QED  BY <1>2, <2>1
  <1>4. CASE p[2] \in 1..6 /\ Len(p) = 6
    <2>1. Len(f) = 8
      <3> DEFINE n == Len(f)
                 k == Len(p)
      <3>1. n \in Nat /\ k = n - 2 /\ k = 6
        BY <1>2, <1>4
      <3> HIDE DEF n, k
      <3>2. n = 8
        BY <3>1
      <3> QED  BY <3>2 DEF n
    <2>2. f[2] \notin {15, 16}
      BY <1>3, <1>4, Codes
    <2> QED  BY ONLY <1>1, <2>1, <2>2
  <1>5. CASE p[2] \in {15, 16} /\ Len(p) >= 7 /\ Len(p) = 7 + p[7] /\ p[7] <= 246
    <2>1. 7 \in 1..(Len(f) - 2)
      BY <1>2, <1>5
    <2>2. p[7] = f[7]
      BY <1>2, <2>1
    <2>3. f[7] \in Nat
      BY <1>2, <2>1, ByteAt
    <2>4. Len(f) = 9 + f[7] /\ Len(f) <= 255 /\ Len(f) >= 8
      BY <1>2, <1>5, <2>2, <2>3
    <2> QED  BY <1>1, <1>2, <1>3, <1>5, <2>4
  <1> QED  BY <1>1, <1>4, <1>5 DEF LegalRequest

LEMMA AnswerSizes ==
  ASSUME NEW f \in Seq(Byte), LegalFrame("rtu.receive", f)
  PROVE  /\ Len(f) \in Nat /\ Len(f) >= 5 /\ Len(f) <= 260 /\ check_crc(f) = "none"
         /\ Len(f) = 3 + rtu_response_remaining(f)
         /\ Len(f) <= 8 \/ (f[2] \notin WriteEchos \cup Exceptions /\ Len(f) = 5 + f[3])
  <1> DEFINE p == Body(f)
  <1>1. check_crc(f) = "none" /\ LegalAnswer(p)
    BY DEF LegalFrame
  <1>2. /\ Len(p) = Len(f) - 2 /\ Len(f) \in Nat /\ Len(f) >= 4
        /\ \A i \in 1..(Len(f) - 2) : p[i] = f[i]
    BY <1>1, BodyKept
  <1> HIDE DEF p
  <1>3. p[2] = f[2]
    <2>1. 2 \in 1..(Len(f) - 2)
      BY <1>2
    <2> QED  BY <1>2, <2>1
  <1>4. CASE p[2] \in 1..4 /\ Len(p) >= 3 /\ Len(p) = 3 + p[3]
    <2>1. 3 \in 1..(Len(f) - 2)
      BY <1>2, <1>4
    <2>2. p[3] = f[3]
      BY <1>2, <2>1
    <2>3. f[3] \in Nat /\ f[3] <= 255
      BY <1>2, <2>1, ByteAt
    <2>4. Len(f) = 5 + f[3] /\ Len(f) >= 5 /\ Len(f) <= 260
      BY <1>2, <1>4, <2>2, <2>3
    <2>5. f[2] \notin Exceptions /\ f[2] \notin WriteEchos
      BY <1>3, <1>4, Codes
    <2>6. rtu_response_remaining(f) = f[3] + 2
      BY <2>5 DEF rtu_response_remaining
    <2>7. Len(f) = 3 + rtu_response_remaining(f)
      BY <2>3, <2>4, <2>6
    <2> QED  BY <1>1, <1>2, <2>4, <2>5, <2>7
  <1>5. CASE p[2] \in WriteEchos /\ Len(p) = 6
    <2>1. f[2] \in WriteEchos /\ f[2] \notin Exceptions
      BY <1>3, <1>5, Codes
    <2>2. rtu_response_remaining(f) = 5
      BY <2>1 DEF rtu_response_remaining
    <2>3. Len(f) = 8
      <3> DEFINE n == Len(f)
                 k == Len(p)
      <3>1. n \in Nat /\ k = n - 2 /\ k = 6
        BY <1>2, <1>5
      <3> HIDE DEF n, k
      <3>2. n = 8
        BY <3>1
      <3> QED  BY <3>2 DEF n
    <2> QED  BY ONLY <1>1, <2>2, <2>3
  <1>6. CASE p[2] \in Exceptions /\ Len(p) = 3
    <2>1. rtu_response_remaining(f) = 2
      BY <1>3, <1>6 DEF rtu_response_remaining
    <2>2. Len(f) = 5
      <3> DEFINE n == Len(f)
                 k == Len(p)
      <3>1. n \in Nat /\ k = n - 2 /\ k = 3
        BY <1>2, <1>6
      <3> HIDE DEF n, k
      <3>2. n = 5
        BY <3>1
      <3> QED  BY <3>2 DEF n
    <2> QED  BY ONLY <1>1, <2>1, <2>2
  <1> QED  BY <1>1, <1>4, <1>5, <1>6 DEF LegalAnswer
\* What is read and what is left make up what arrived, byte by byte.
LEMMA BytesOf ==
  ASSUME NEW s \in Seq(Byte), NEW b \in Seq(Byte), NEW r \in Seq(Byte), NEW a, a = b \o r,
         \A k \in 1..Len(s) : k <= Len(a) => a[k] = s[k]
  PROVE  /\ Len(a) = Len(b) + Len(r)
         /\ \A k \in 1..Len(b) : k <= Len(s) => b[k] = s[k]
         /\ \A k \in 1..Len(r) : Len(b) + k <= Len(s) => r[k] = s[Len(b) + k]
  <1>1. /\ Len(a) = Len(b) + Len(r) /\ Len(b) \in Nat /\ Len(r) \in Nat
        /\ \A i \in 1..Len(a) : a[i] = IF i <= Len(b) THEN b[i] ELSE r[i - Len(b)]
    BY Joined
  <1>2. Len(s) \in Nat
    OBVIOUS
  <1>3. ASSUME NEW k \in 1..Len(b), k <= Len(s) PROVE b[k] = s[k]
    <2>1. k \in 1..Len(a) /\ k \in 1..Len(s) /\ k <= Len(a)
      BY <1>1, <1>2, <1>3
    <2> QED  BY <1>1, <1>3, <2>1
  <1>4. ASSUME NEW k \in 1..Len(r), Len(b) + k <= Len(s) PROVE r[k] = s[Len(b) + k]
    <2> DEFINE i == Len(b) + k
    <2>1. i \in 1..Len(a) /\ i \in 1..Len(s) /\ i <= Len(a) /\ ~(i <= Len(b)) /\ i - Len(b) = k
      BY <1>1, <1>2, <1>4
    <2> HIDE DEF i
    <2>2. a[i] = r[k] /\ a[i] = s[i]
      BY <1>1, <2>1
    <2> QED  BY <2>2 DEF i
  <1> QED  BY <1>1, <1>3, <1>4

\* The stream is cut, and nothing is lost between the pieces.
LEMMA CutInTwo ==
  ASSUME NEW n \in Nat, in \in Seq(Byte), Len(in) >= n
  PROVE  Take(n) \o Drop(n) = in
  <1>1. /\ 1 \in 1..(Len(in) + 1) /\ n \in (1 - 1)..Len(in) /\ Len(in) \in n..Len(in)
    OBVIOUS
  <1>2. SubSeq(in, 1, n) \o SubSeq(in, n + 1, Len(in)) = SubSeq(in, 1, Len(in))
    BY <1>1, ConcatAdjacentSubSeq
  <1>3. SubSeq(in, 1, Len(in)) = in
    BY SubSeqFull
  <1> QED  BY <1>2, <1>3 DEF Take, Drop

\* A byte moves from the stream to the buffer.
LEMMA ByteMoved ==
  ASSUME NEW b \in Seq(Byte), NEW r \in Seq(Byte), r # <<>>
  PROVE  Append(b, Head(r)) \o Tail(r) = b \o r
  <1> DEFINE h == <<Head(r)>>
             t == Tail(r)
  <1>1. h \in Seq(Byte) /\ t \in Seq(Byte) /\ Append(b, Head(r)) = b \o h
    OBVIOUS
  <1>2. r = h \o t
    OBVIOUS
  <1> HIDE DEF h, t
  <1>3. (b \o h) \o t = b \o (h \o t)
    BY <1>1, ConcatAssociative
  <1> QED  BY <1>1, <1>2, <1>3 DEF t
(***************************************************************************)
(* The inductive invariant for a legal input: until the stream ends,       *)
(* nothing of it is lost; once the header is read, what is left to read is *)
(* what is left of the frame; and only the end of the stream stops a       *)
(* reader short, never a full buffer or the CRC.                           *)
(***************************************************************************)
Underway == out \in {"reading", "none"}

LegalInv ==
  /\ input \in Inputs
  /\ input.legal =>
       /\ Underway => input.arrived = buf \o in
       /\ Underway /\ stage = "rest" => Len(buf) + left = Len(input.sent)
       /\ Underway /\ stage = "fixed" => input.sent[2] \in {15, 16}
       /\ out = "none" => stage = "rest" /\ left = 0
       /\ Underway \/ (out = "PayloadTooShort" /\ Len(input.arrived) < Len(input.sent))

\* What a legal input says of the frame sent and of what arrives.
LEMMA LegalSent ==
  ASSUME input \in Inputs, input.legal
  PROVE  /\ input.port \in Ports /\ LegalFrame(input.port, input.sent)
         /\ input.sent \in Seq(Byte) /\ input.arrived \in Seq(Byte)
         /\ Len(input.sent) \in Nat /\ Len(input.arrived) \in Nat
         /\ \A k \in 1..Len(input.sent) :
              k <= Len(input.arrived) => input.arrived[k] = input.sent[k]
         /\ Len(input.sent) >= HeaderLen(input.port) + 2
         /\ Len(input.sent) <= Capacity(input.port)
         /\ input.port # "tcp.listen" => check_crc(input.sent) = "none"
  <1> DEFINE s == input.sent
             a == input.arrived
             port == input.port
  <1>1. /\ port \in Ports /\ s \in Seq(Byte) /\ a \in Seq(Byte) /\ LegalFrame(port, s)
        /\ \A k \in DOMAIN s \cap DOMAIN a : a[k] = s[k]
    BY InputAssumption, LegalAssumption
  <1> HIDE DEF s, a, port
  <1>2. Len(s) \in Nat /\ Len(a) \in Nat /\ DOMAIN s = 1..Len(s) /\ DOMAIN a = 1..Len(a)
    BY <1>1
  <1>3. \A k \in 1..Len(s) : k <= Len(a) => a[k] = s[k]
    BY <1>1, <1>2
  <1>4. /\ Len(s) >= HeaderLen(port) + 2 /\ Len(s) <= Capacity(port)
        /\ port # "tcp.listen" => check_crc(s) = "none"
    <2> DEFINE n == Len(s)
    <2>1. CASE port = "tcp.listen"
      <3>1. n \in Nat /\ n >= 8 /\ n <= 259
        BY <1>1, <2>1, TcpSizes
      <3> HIDE DEF n
      <3>2. HeaderLen(port) = 6 /\ Capacity(port) = 261
        BY <2>1 DEF HeaderLen, Capacity, TCP_BUF
      <3>3. n >= HeaderLen(port) + 2 /\ n <= Capacity(port)
        BY <3>1, <3>2
      <3> QED  BY <2>1, <3>3 DEF n
    <2>2. CASE port = "rtu.listen"
      <3>1. n \in Nat /\ n >= 8 /\ n <= 255 /\ check_crc(s) = "none"
        BY <1>1, <2>2, RequestSizes
      <3> HIDE DEF n
      <3>2. HeaderLen(port) = 2 /\ Capacity(port) = 255
        BY <2>2 DEF HeaderLen, Capacity, RTU_BUF
      <3>3. n >= HeaderLen(port) + 2 /\ n <= Capacity(port)
        BY <3>1, <3>2
      <3> QED  BY <3>1, <3>3 DEF n
    <2>3. CASE port = "rtu.receive"
      <3>1. n \in Nat /\ n >= 5 /\ n <= 260 /\ check_crc(s) = "none"
        BY <1>1, <2>3, AnswerSizes
      <3> HIDE DEF n
      <3>2. HeaderLen(port) = 3 /\ Capacity(port) = 512
        BY <2>3 DEF HeaderLen, Capacity, VecCap
      <3>3. n >= HeaderLen(port) + 2 /\ n <= Capacity(port)
        BY <3>1, <3>2
      <3> QED  BY <3>1, <3>3 DEF n
    <2> QED  BY <1>1, <2>1, <2>2, <2>3 DEF Ports
  <1> QED  BY <1>1, <1>2, <1>3, <1>4 DEF s, a, port

LEMMA LegalInit == Init => LegalInv
  <1> SUFFICES ASSUME Init PROVE LegalInv
    OBVIOUS
  <1>1. /\ input \in Inputs /\ in = input.arrived /\ buf = <<>>
        /\ stage = "header" /\ out = "reading"
    BY DEF Init
  <1>2. input.arrived \in Seq(Byte)
    BY <1>1, InputAssumption
  <1>3. input.arrived = buf \o in
    BY <1>1, <1>2, ConcatEmptySeq
  <1> QED  BY <1>1, <1>3 DEF LegalInv, Underway

\* The header announces the rest of a legal frame.
LEMMA LegalHeader ==
  ASSUME ReaderInv, LegalInv, ReadHeader, input.legal
  PROVE  LegalInv'
  <1> DEFINE s == input.sent
             port == input.port
             n == HeaderLen(port)
             h == Take(n)
             r == Drop(n)
             b == AfterHeader(port, h)
  <1>1. /\ port \in Ports /\ in \in Seq(Byte) /\ Len(in) >= n /\ stage = "header" /\ buf = <<>>
        /\ buf' = h /\ stage' = b.stage /\ left' = b.left /\ in' = r
        /\ input' = input /\ out' = "reading" /\ out = "reading"
    BY DEF ReaderInv, TypeOK, ReadHeader
  <1>2. n \in Nat
    BY <1>1 DEF HeaderLen, Ports
  <1>3. h \in Seq(Byte) /\ Len(h) = n /\ r \in Seq(Byte)
    BY <1>1, <1>2, Taken
  <1>4. input.arrived = in
    BY <1>1, ConcatEmptySeq DEF LegalInv, Underway
  <1>5. input.arrived = h \o r
    BY <1>1, <1>2, <1>4, CutInTwo
  <1>6. /\ LegalFrame(port, s) /\ s \in Seq(Byte) /\ Len(s) \in Nat /\ Len(s) >= n + 2
        /\ \A k \in 1..Len(s) : k <= Len(input.arrived) => input.arrived[k] = s[k]
    BY LegalSent DEF LegalInv
  <1> HIDE DEF h, r, s
  <1>7. \A k \in 1..Len(h) : k <= Len(s) => h[k] = s[k]
    BY <1>3, <1>5, <1>6, BytesOf
  <1>8. \A k \in 1..n : h[k] = s[k]
    BY <1>2, <1>3, <1>6, <1>7
  <1>9. /\ stage' = "rest" => Len(buf') + left' = Len(s)
        /\ stage' = "fixed" => s[2] \in {15, 16}
    <2>1. CASE port = "tcp.listen"
      <3>1. n = 6
        BY <2>1 DEF HeaderLen
      <3>2. h[5] = s[5] /\ h[6] = s[6]
        BY <1>8, <3>1
      <3>3. Len(s) = 6 + U16(s[5], s[6])
        BY <1>6, <2>1, TcpSizes
      <3>4. stage' = "rest" /\ left' = U16(s[5], s[6])
        BY <1>1, <2>1, <3>2 DEF AfterHeader
      <3>5. Len(buf') = 6
        BY <1>1, <1>3, <3>1
      <3> QED  BY <3>3, <3>4, <3>5
    <2>2. CASE port = "rtu.listen"
      <3>1. n = 2
        BY <2>2 DEF HeaderLen
      <3>2. h[2] = s[2]
        BY <1>8, <3>1
      <3>3. \/ s[2] \in {15, 16} /\ stage' = "fixed"
            \/ s[2] \notin {15, 16} /\ stage' = "rest" /\ left' = 6
        BY <1>1, <2>2, <3>2 DEF AfterHeader
      <3>4. s[2] \notin {15, 16} => Len(s) = 8
        BY <1>6, <2>2, RequestSizes
      <3>5. Len(buf') = 2
        BY <1>1, <1>3, <3>1
      <3>6. ASSUME s[2] \notin {15, 16} PROVE Len(buf') + left' = Len(s)
        <4> DEFINE m == Len(s)
                   k == Len(buf')
        <4>1. m = 8 /\ k = 2 /\ left' = 6
          BY <3>3, <3>4, <3>5, <3>6
        <4> HIDE DEF m, k
        <4>2. k + left' = m
          BY <4>1
        <4> QED  BY <4>2 DEF m, k
      <3> QED  BY <3>3, <3>6
    <2>3. CASE port = "rtu.receive"
      <3>1. n = 3
        BY <2>3 DEF HeaderLen
      <3>2. h[2] = s[2] /\ h[3] = s[3]
        BY <1>8, <3>1
      <3>3. Len(s) = 3 + rtu_response_remaining(s)
        BY <1>6, <2>3, AnswerSizes
      <3>4. rtu_response_remaining(h) = rtu_response_remaining(s)
        BY <3>2 DEF rtu_response_remaining
      <3>5. stage' = "rest" /\ left' = rtu_response_remaining(s)
        BY <1>1, <2>3, <3>4 DEF AfterHeader
      <3>6. Len(buf') = 3
        BY <1>1, <1>3, <3>1
      <3> QED  BY <3>3, <3>5, <3>6
    <2> QED  BY <1>1, <2>1, <2>2, <2>3 DEF Ports
  <1>10. input'.arrived = buf' \o in'
    BY <1>1, <1>5
  <1> QED  BY <1>1, <1>9, <1>10 DEF LegalInv, Underway, s
\* The byte count of a legal multiple write.
LEMMA LegalFixed ==
  ASSUME ReaderInv, LegalInv, ReadFixed, input.legal
  PROVE  LegalInv'
  <1> DEFINE s == input.sent
             t == Take(5)
             r == Drop(5)
             b == in[5]
  <1>1. /\ in \in Seq(Byte) /\ buf \in Seq(Byte) /\ Len(buf) = 2
        /\ Len(in) >= 5 /\ input.port = "rtu.listen" /\ s[2] \in {15, 16}
        /\ input' = input /\ out' = out /\ out = "reading" /\ stage' = "rest"
        /\ buf' = buf \o t /\ in' = r /\ left' = b + 2 /\ input.arrived = buf \o in
    BY DEF ReaderInv, TypeOK, ReadFixed, LegalInv, Underway
  <1>2. t \in Seq(Byte) /\ Len(t) = 5 /\ r \in Seq(Byte) /\ t \o r = in
    BY <1>1, Taken, CutInTwo
  <1>3. /\ LegalFrame("rtu.listen", s) /\ s \in Seq(Byte) /\ Len(s) \in Nat
        /\ \A k \in 1..Len(s) : k <= Len(input.arrived) => input.arrived[k] = s[k]
    BY <1>1, LegalSent DEF LegalInv
  <1> HIDE DEF s, t, r
  <1>4. Len(s) = 9 + s[7] /\ s[7] \in Nat
    <2>1. Len(s) >= 8 /\ Len(s) = 9 + s[7]
      BY <1>1, <1>3, RequestSizes
    <2>2. s[7] \in Nat
      BY <1>3, <2>1, ByteAt
    <2> QED  BY <2>1, <2>2
  <1>5. b = s[7]
    <2> DEFINE a == input.arrived
    <2>1. /\ s \in Seq(Byte) /\ buf \in Seq(Byte) /\ in \in Seq(Byte) /\ a = buf \o in
          /\ \A k \in 1..Len(s) : k <= Len(a) => a[k] = s[k]
      BY <1>1, <1>3
    <2> HIDE DEF a
    <2>2. \A k \in 1..Len(in) : Len(buf) + k <= Len(s) => in[k] = s[Len(buf) + k]
      BY <2>1, BytesOf
    <2>3. 5 \in 1..Len(in) /\ Len(buf) + 5 = 7 /\ Len(buf) + 5 <= Len(s)
      BY <1>1, <1>4
    <2>4. in[5] = s[Len(buf) + 5]
      BY <2>2, <2>3
    <2> QED  BY <2>3, <2>4
  <1> HIDE DEF b
  <1>6. input'.arrived = buf' \o in'
    <2>1. buf \in Seq(Byte) /\ t \in Seq(Byte) /\ r \in Seq(Byte)
      BY <1>1, <1>2
    <2>2. (buf \o t) \o r = buf \o (t \o r)
      BY <2>1, ConcatAssociative
    <2> QED  BY <1>1, <1>2, <2>2
  <1>7. Len(buf') + left' = Len(s)
    <2>1. buf \in Seq(Byte) /\ t \in Seq(Byte)
      BY <1>1, <1>2
    <2>2. Len(buf \o t) = Len(buf) + Len(t)
      BY <2>1, Joined
    <2>3. Len(buf') = Len(buf) + Len(t)
      BY <1>1, <2>2
    <2>4. Len(buf') = 7
      BY <1>1, <1>2, <2>3
    <2>5. left' = s[7] + 2
      BY <1>1, <1>5
    <2> QED  BY <1>4, <2>4, <2>5
  <1> QED  BY <1>1, <1>6, <1>7 DEF LegalInv, Underway, s

\* A legal frame fits the buffer: no byte of it is refused.
LEMMA LegalByte ==
  ASSUME ReaderInv, LegalInv, ReadByte, input.legal
  PROVE  LegalInv'
  <1>1. /\ in \in Seq(Byte) /\ in # <<>> /\ buf \in Seq(Byte) /\ left \in Nat /\ left > 0
        /\ in' = Tail(in) /\ stage' = stage /\ stage = "rest" /\ out = "reading"
        /\ input' = input /\ Len(buf) + left = Len(input.sent) /\ input.arrived = buf \o in
    BY DEF ReaderInv, TypeOK, ReadByte, LegalInv, Underway
  <1>2. Len(input.sent) \in Nat /\ Len(input.sent) <= Capacity(input.port) /\ input.port \in Ports
    BY LegalSent DEF LegalInv
  <1>3. Capacity(input.port) \in Nat
    BY <1>2 DEF Capacity, Ports, TCP_BUF, RTU_BUF, VecCap
  <1>4. Len(buf) < Capacity(input.port)
    BY <1>1, <1>2, <1>3
  <1>5. buf' = Append(buf, Head(in)) /\ left' = left - 1 /\ out' = out
    BY <1>4 DEF ReadByte
  <1>6. Len(buf') = Len(buf) + 1
    BY <1>1, <1>5
  <1>7. Len(buf') + left' = Len(input.sent)
    <2> DEFINE n == Len(buf)
               m == Len(buf')
               k == Len(input.sent)
    <2>1. /\ n \in Nat /\ left \in Nat /\ left' = left - 1 /\ m = n + 1 /\ n + left = k
      BY <1>1, <1>5, <1>6
    <2> HIDE DEF n, m, k
    <2>2. m + left' = k
      BY <2>1
    <2> QED  BY <2>2 DEF m, k
  <1>8. input'.arrived = buf' \o in'
    BY <1>1, <1>5, ByteMoved
  <1> QED  BY <1>1, <1>5, <1>7, <1>8 DEF LegalInv, Underway

\* The stream ends in mid-frame only if the frame did not arrive whole.
LEMMA LegalEof ==
  ASSUME ReaderInv, LegalInv, ReadEof, input.legal
  PROVE  LegalInv'
  <1> DEFINE s == input.sent
             port == input.port
  <1>1. /\ UNCHANGED <<input, buf, stage, left>> /\ out' = "PayloadTooShort" /\ out = "reading"
        /\ in \in Seq(Byte) /\ buf \in Seq(Byte) /\ left \in Nat
        /\ input.arrived = buf \o in
    BY DEF ReadEof, ReaderInv, TypeOK, LegalInv, Underway
  <1>2. /\ Len(s) \in Nat /\ Len(s) >= HeaderLen(port) + 2 /\ port \in Ports
        /\ LegalFrame(port, s) /\ s \in Seq(Byte)
    BY LegalSent DEF LegalInv
  <1>3. HeaderLen(port) \in Nat
    BY <1>2 DEF HeaderLen, Ports
  <1>4. Len(input.arrived) = Len(buf) + Len(in) /\ Len(buf) \in Nat /\ Len(in) \in Nat
    BY <1>1, Joined
  <1> HIDE DEF s
  <1>5. CASE stage = "header" /\ Len(in) < HeaderLen(port)
    <2>1. Len(buf) = 0
      BY <1>5 DEF ReaderInv
    <2>2. Len(input.arrived) < Len(s)
      BY <1>2, <1>3, <1>4, <1>5, <2>1
    <2> QED  BY <1>1, <2>2 DEF LegalInv, Underway, s
  <1>6. CASE stage = "fixed" /\ Len(in) < 5
    <2>1. Len(buf) = 2 /\ port = "rtu.listen"
      BY <1>6 DEF ReaderInv
    <2>2. Len(s) >= 8
      BY <1>2, <2>1, RequestSizes
    <2>3. Len(input.arrived) < Len(s)
      BY <1>2, <1>4, <1>6, <2>1, <2>2
    <2> QED  BY <1>1, <2>3 DEF LegalInv, Underway, s
  <1>7. CASE stage = "rest" /\ left > 0 /\ in = <<>>
    <2>1. Len(buf) + left = Len(s)
      BY <1>1, <1>7 DEF LegalInv, Underway, s
    <2>2. Len(in) = 0
      BY <1>7
    <2>3. Len(input.arrived) < Len(s)
      BY <1>1, <1>2, <1>4, <1>7, <2>1, <2>2
    <2> QED  BY <1>1, <2>3 DEF LegalInv, Underway, s
  <1> QED  BY <1>5, <1>6, <1>7 DEF ReadEof

\* A reader that has nothing left to read holds the frame that was sent.
LEMMA WholeFrame ==
  ASSUME ReaderInv, LegalInv, input.legal, Underway, stage = "rest", left = 0
  PROVE  buf = input.sent
  <1> DEFINE s == input.sent
  <1>1. /\ in \in Seq(Byte) /\ buf \in Seq(Byte) /\ Len(buf) \in Nat
        /\ input.arrived = buf \o in /\ Len(buf) + left = Len(s)
    BY DEF ReaderInv, TypeOK, LegalInv
  <1>2. /\ s \in Seq(Byte) /\ Len(s) \in Nat
        /\ \A k \in 1..Len(s) : k <= Len(input.arrived) => input.arrived[k] = s[k]
    BY LegalSent DEF LegalInv
  <1> HIDE DEF s
  <1>3. Len(buf) = Len(s)
    BY <1>1, <1>2
  <1>4. \A k \in 1..Len(buf) : k <= Len(s) => buf[k] = s[k]
    BY <1>1, <1>2, BytesOf
  <1>5. \A k \in 1..Len(buf) : buf[k] = s[k]
    BY <1>1, <1>3, <1>4
  <1>6. buf = s
    BY <1>1, <1>2, <1>3, <1>5, SameSeq
  <1> QED  BY <1>6 DEF s

\* The CRC of a legal frame is right.
LEMMA LegalFinish ==
  ASSUME ReaderInv, LegalInv, Finish, input.legal
  PROVE  LegalInv'
  <1>1. /\ UNCHANGED <<input, in, buf, stage, left>> /\ out = "reading"
        /\ stage = "rest" /\ left = 0
        /\ out' = IF input.port = "tcp.listen" THEN "none" ELSE check_crc(buf)
    BY DEF Finish
  <1>2. buf = input.sent
    BY <1>1, WholeFrame DEF Underway
  <1>3. input.port # "tcp.listen" => check_crc(input.sent) = "none"
    BY LegalSent DEF LegalInv
  <1>4. out' = "none"
    BY <1>1, <1>2, <1>3
  <1> QED  BY <1>1, <1>4 DEF LegalInv, Underway

LEMMA LegalStep == ReaderInv /\ LegalInv /\ [Next]_vars => LegalInv'
  <1> SUFFICES ASSUME ReaderInv, LegalInv, [Next]_vars PROVE LegalInv'
    OBVIOUS
  <1>1. input' = input
    BY DEF Next, vars, ReadHeader, ReadFixed, ReadByte, ReadEof, Finish
  <1>2. CASE ~input.legal
    BY <1>1, <1>2 DEF LegalInv
  <1>3. CASE input.legal /\ UNCHANGED vars
    BY <1>3 DEF LegalInv, Underway, vars
  <1>4. CASE input.legal /\ Next
    BY <1>4, LegalHeader, LegalFixed, LegalByte, LegalEof, LegalFinish DEF Next
  <1> QED  BY <1>2, <1>3, <1>4

\* Every frame that the Modbus specification allows for the functions the
\* crate names is read whole by ModbusTcp::listen, ModbusRtu::listen and
\* ModbusRtu::receive if it arrives whole: it is neither refused nor cut, and
\* not a byte of what follows it is taken.
THEOREM LegalRead == Spec => []LegalFramesRead
  <1>1. ReaderInv /\ LegalInv => LegalFramesRead
    <2> SUFFICES ASSUME ReaderInv, LegalInv, input.legal, out # "reading",
                        Len(input.arrived) >= Len(input.sent)
                 PROVE  out = "none" /\ buf = input.sent /\ input.arrived = buf \o in
      BY DEF LegalFramesRead
    <2>1. Len(input.sent) \in Nat /\ Len(input.arrived) \in Nat
      BY LegalSent DEF LegalInv
    <2>2. ~(Len(input.arrived) < Len(input.sent))
      BY <2>1
    <2>3. Underway /\ out = "none" /\ stage = "rest" /\ left = 0 /\ input.arrived = buf \o in
      BY <2>2 DEF LegalInv, Underway
    <2> QED  BY <2>3, WholeFrame
  <1> QED  BY <1>1, ReaderInit, ReaderStep, LegalInit, LegalStep, PTL DEF Spec
\* Whole registers hold the data bytes.
LEMMA RoundUp ==
  ASSUME NEW d \in Nat, NEW w \in {2, 4}
  PROVE  ((d + w - 1) \div w) * w \in Nat /\ ((d + w - 1) \div w) * w >= d
  <1>1. CASE w = 2
    BY <1>1
  <1>2. CASE w = 4
    BY <1>2
  <1> QED  BY <1>1, <1>2

\* A legal frame is its data and at most so much around it as capacity.rs says.
LEMMA DataFits ==
  ASSUME NEW port \in Ports, NEW f \in Seq(Byte), LegalFrame(port, f)
  PROVE  /\ Len(f) \in Nat /\ DataBytes(port, f) \in Nat
         /\ Len(f) <= DataBytes(port, f) + (IF port = "tcp.listen" THEN 15 ELSE 9)
  <1> DEFINE n == Len(f)
             d == DataBytes(port, f)
  <1>1. CASE port = "tcp.listen"
    <2>1. n \in Nat /\ (n <= 12 \/ (f[8] \in {15, 16} /\ n = 13 + f[13] /\ n >= 13))
      BY <1>1, TcpSizes
    <2>2. CASE n <= 12
      <3>1. d = 0
        BY <1>1, <2>1, <2>2 DEF DataBytes
      <3> HIDE DEF n, d
      <3>2. n \in Nat /\ d \in Nat /\ n <= d + 15
        BY <2>1, <2>2, <3>1
      <3> QED  BY <1>1, <3>2 DEF n, d
    <2>3. CASE f[8] \in {15, 16} /\ n = 13 + f[13] /\ n >= 13
      <3>1. d = f[13]
        BY <1>1, <2>3 DEF DataBytes
      <3>2. f[13] \in Nat
        BY <2>1, <2>3, ByteAt
      <3> HIDE DEF n, d
      <3>3. n \in Nat /\ d \in Nat /\ n <= d + 15
        BY <2>1, <2>3, <3>1, <3>2
      <3> QED  BY <1>1, <3>3 DEF n, d
    <2> QED  BY <2>1, <2>2, <2>3
  <1>2. CASE port = "rtu.listen"
    <2>1. /\ n \in Nat /\ n >= 8
          /\ (f[2] \in {15, 16} /\ n = 9 + f[7]) \/ (f[2] \notin {15, 16} /\ n = 8)
      BY <1>2, RequestSizes
    <2>2. f[7] \in Nat
      BY <2>1, ByteAt
    <2>3. \/ n = 9 + f[7] /\ d = f[7]
          \/ n = 8 /\ d = 0
      BY <1>2, <2>1 DEF DataBytes
    <2> HIDE DEF n, d
    <2>4. n \in Nat /\ d \in Nat /\ n <= d + 9
      BY <2>1, <2>2, <2>3
    <2> QED  BY <1>2, <2>4 DEF n, d
  <1>3. CASE port = "rtu.receive"
    <2>1. /\ n \in Nat /\ n >= 5
          /\ n <= 8 \/ (f[2] \notin WriteEchos \cup Exceptions /\ n = 5 + f[3])
      BY <1>3, AnswerSizes
    <2>2. f[3] \in Nat
      BY <2>1, ByteAt
    <2>3. d = IF f[2] \notin WriteEchos \cup Exceptions THEN f[3] ELSE 0
      BY <1>3 DEF DataBytes
    <2> HIDE DEF n, d
    <2>4. n \in Nat /\ d \in Nat /\ n <= d + 9
      BY <2>1, <2>2, <2>3
    <2> QED  BY <1>3, <2>4 DEF n, d
  <1> QED  BY <1>1, <1>2, <1>3 DEF Ports

\* The sizes of capacity.rs are enough: a legal frame that a reader returns,
\* with data that fill n registers of either width, fits rtu_capacity(n) or
\* tcp_capacity(n), and the largest sizes named fit the crate's own buffers.
THEOREM Fits == Spec => []FitsCapacity
  <1>1. ReaderInv /\ LegalInv => FitsCapacity
    <2> SUFFICES ASSUME ReaderInv, LegalInv, input.legal, out = "none",
                        NEW width \in {REG_BYTES_16, REG_BYTES_32}
                 PROVE  LET n == (DataBytes(input.port, buf) + width - 1) \div width IN
                        /\ Len(buf) <= IF input.port = "tcp.listen" THEN tcp_capacity(n, width)
                                                                   ELSE rtu_capacity(n, width)
                        /\ RTU_MAX <= RTU_BUF /\ RTU_MAX32 <= RTU_BUF
                        /\ TCP_MAX <= TCP_BUF /\ TCP_MAX32 <= TCP_BUF
      BY DEF FitsCapacity
    <2> DEFINE d == DataBytes(input.port, buf)
               l == Len(buf)
               n == (d + width - 1) \div width
    <2>1. buf = input.sent
      BY WholeFrame DEF LegalInv, Underway
    <2>2. l \in Nat /\ d \in Nat /\ l <= d + (IF input.port = "tcp.listen" THEN 15 ELSE 9)
      <3>1. input.port \in Ports /\ input.sent \in Seq(Byte) /\ LegalFrame(input.port, input.sent)
        BY LegalSent DEF LegalInv
      <3> HIDE DEF l, d
      <3> QED  BY <2>1, <3>1, DataFits DEF l, d
    <2> HIDE DEF l, d
    <2>3. width \in {2, 4}
      BY DEF REG_BYTES_16, REG_BYTES_32
    <2> DEFINE k == n * width
    <2>4. k \in Nat /\ k >= d
      BY <2>2, <2>3, RoundUp
    <2> HIDE DEF k
    <2>5. l <= k + (IF input.port = "tcp.listen" THEN 15 ELSE 9)
      BY <2>2, <2>4
    <2> HIDE DEF n
    <2>6. l <= IF input.port = "tcp.listen" THEN tcp_capacity(n, width) ELSE rtu_capacity(n, width)
      BY <2>5 DEF k, tcp_capacity, rtu_capacity
    <2>7. /\ RTU_MAX <= RTU_BUF /\ RTU_MAX32 <= RTU_BUF
          /\ TCP_MAX <= TCP_BUF /\ TCP_MAX32 <= TCP_BUF
      BY DEF RTU_MAX, RTU_MAX32, TCP_MAX, TCP_MAX32, RTU_BUF, TCP_BUF, rtu_capacity,
             tcp_capacity, REG_BYTES_16, REG_BYTES_32
    <2> QED  BY <2>6, <2>7 DEF l, n, d
  <1> QED  BY <1>1, ReaderInit, ReaderStep, LegalInit, LegalStep, PTL DEF Spec
-----------------------------------------------------------------------------
(* Corrupted frames. *)

\* s is the body of f, of m bytes, and its CRC stands behind it.
Parts(f, s, m) ==
  /\ m \in Nat /\ m >= 2 /\ Len(f) = m + 2 /\ s \in Seq(Byte) /\ Len(s) = m
  /\ \A i \in 1..m : s[i] = f[i]
  /\ crc(s)[1] = f[m + 1] /\ crc(s)[2] = f[m + 2]

\* The first n bytes of f and g are the same, but for the kth and the next.
Near(f, g, n, k) == \A i \in 1..n : i # k /\ i # k + 1 => f[i] = g[i]

\* A frame with a right CRC, taken apart.
LEMMA FrameParts ==
  ASSUME NEW f \in Seq(Byte), check_crc(f) = "none", NEW m, m = Len(f) - 2
  PROVE  Parts(f, Body(f), m)
  <1>1. Len(f) \in Nat /\ Len(f) >= 4
    BY BodyKept
  <1>2. m \in Nat /\ m >= 2 /\ Len(f) = m + 2
    BY <1>1
  <1>3. /\ Body(f) \in Seq(Byte) /\ Len(Body(f)) = m
        /\ \A i \in 1..m : Body(f)[i] = f[i]
    BY BodyKept
  <1>4. crc(Body(f)) = SubSeq(f, m + 1, m + 2)
    BY <1>1, <1>2 DEF check_crc, Trailer
  <1>5. \A i \in 1..2 : SubSeq(f, m + 1, m + 2)[i] = f[m + i]
    <2>1. m + 1 \in 1..(Len(f) + 1) /\ m + 2 \in ((m + 1) - 1)..Len(f)
      BY <1>2
    <2>2. \A i \in 1..((m + 2) - (m + 1) + 1) : SubSeq(f, m + 1, m + 2)[i] = f[(m + 1) + i - 1]
      BY <2>1, Part
    <2>3. ASSUME NEW i \in 1..2 PROVE SubSeq(f, m + 1, m + 2)[i] = f[m + i]
      <3>1. i \in 1..((m + 2) - (m + 1) + 1) /\ (m + 1) + i - 1 = m + i
        BY <1>2
      <3> QED  BY <2>2, <3>1
    <2> QED  BY <2>3
  <1>6. crc(Body(f))[1] = f[m + 1] /\ crc(Body(f))[2] = f[m + 2]
    BY <1>4, <1>5
  <1> QED  BY <1>2, <1>3, <1>6 DEF Parts

\* The burst is within the body, or at its edge, or behind it.
LEMMA BurstParts ==
  ASSUME NEW m, NEW f, NEW s, Parts(f, s, m), NEW g, NEW t, Parts(g, t, m),
         NEW k \in Nat, Near(f, g, m + 2, k)
  PROVE  s = t
  <1>a. m \in Nat /\ m >= 2 /\ s \in Seq(Byte) /\ t \in Seq(Byte)
    BY DEF Parts
  <1>b. Len(s) = m /\ Len(t) = m /\ \A i \in 1..m : s[i] = f[i] /\ t[i] = g[i]
    BY DEF Parts
  <1>c. /\ crc(s)[1] = f[m + 1] /\ crc(s)[2] = f[m + 2]
        /\ crc(t)[1] = g[m + 1] /\ crc(t)[2] = g[m + 2]
    BY DEF Parts
  <1>d. \A i \in 1..(m + 2) : i # k /\ i # k + 1 => f[i] = g[i]
    BY DEF Near
  <1>0. crc(s) \in Seq(Byte) /\ Len(crc(s)) = 2 /\ crc(t) \in Seq(Byte) /\ Len(crc(t)) = 2
    BY <1>a, TwoBytes
  <1>1. \A i \in 1..m : i # k /\ i # k + 1 => s[i] = t[i]
    BY <1>a, <1>b, <1>d
  <1>2. CASE k < m
    <2>1. f[m + 1] = g[m + 1] /\ f[m + 2] = g[m + 2]
      BY <1>a, <1>d, <1>2
    <2>2. crc(s) = crc(t)
      <3> DEFINE c == crc(s)
                 d == crc(t)
      <3>1. c \in Seq(Byte) /\ d \in Seq(Byte) /\ Len(c) = 2 /\ Len(d) = 2
            /\ c[1] = d[1] /\ c[2] = d[2]
        BY <1>0, <1>c, <2>1
      <3> HIDE DEF c, d
      <3>2. c = d
        BY <3>1
      <3> QED  BY <3>2 DEF c, d
    <2> DEFINE l == IF k = 0 THEN 1 ELSE k
    <2>3. l \in Nat /\ 1 <= l /\ l < Len(s)
      BY <1>a, <1>b, <1>2
    <2>4. \A i \in 1..Len(s) : i # l /\ i # l + 1 => s[i] = t[i]
      BY <1>1, <1>b
    <2>5. Len(s) = Len(t)
      BY <1>b
    <2> HIDE DEF l
    <2>6. s[l] = t[l] /\ s[l + 1] = t[l + 1]
      BY <1>a, <2>2, <2>3, <2>4, <2>5, BodyBurst
    <2>7. \A i \in 1..Len(s) : s[i] = t[i]
      BY <2>4, <2>6
    <2> QED  BY <1>a, <2>5, <2>7, SameSeq
  <1>3. CASE k = m
    <2>1. crc(s)[2] = crc(t)[2]
      BY <1>a, <1>c, <1>d, <1>3
    <2>2. \A i \in 1..Len(s) : i # Len(s) => s[i] = t[i]
      BY <1>1, <1>a, <1>b, <1>3
    <2>3. Len(s) = Len(t) /\ 1 <= Len(s)
      BY <1>a, <1>b
    <2>4. s[Len(s)] = t[Len(s)]
      BY <1>a, <2>1, <2>2, <2>3, EdgeBurst
    <2>5. \A i \in 1..Len(s) : s[i] = t[i]
      BY <2>2, <2>4
    <2> QED  BY <1>a, <2>3, <2>5, SameSeq
  <1>4. CASE k > m
    <2>1. \A i \in 1..Len(s) : s[i] = t[i]
      BY <1>1, <1>a, <1>b, <1>4
    <2> QED  BY <1>a, <1>b, <2>1, SameSeq
  <1> QED  BY <1>a, <1>2, <1>3, <1>4

\* check_crc tells apart any two frames of the same length that differ in two
\* neighbouring bytes at most, wherever they are and however long the frames:
\* an error burst of up to 16 bits, in whole bytes, is never missed.
THEOREM BurstDetected ==
  ASSUME NEW f \in Seq(Byte), NEW g \in Seq(Byte), Len(f) = Len(g),
         check_crc(f) = "none", check_crc(g) = "none",
         NEW k \in Nat, Near(f, g, Len(f), k)
  PROVE  f = g
  <1> DEFINE m == Len(f) - 2
             s == Body(f)
             t == Body(g)
  <1>1. m = Len(f) - 2 /\ m = Len(g) - 2
    OBVIOUS
  <1> HIDE DEF m
  <1>2. Parts(f, s, m)
    BY <1>1, FrameParts
  <1>3. Parts(g, t, m)
    BY <1>1, FrameParts
  <1> HIDE DEF s, t
  <1>4. Len(f) = m + 2 /\ m \in Nat
    BY <1>2 DEF Parts
  <1>5. s = t
    <2>1. Near(f, g, m + 2, k)
      BY <1>4
    <2> QED  BY <1>2, <1>3, <2>1, BurstParts
  <1>6. ASSUME NEW i \in 1..Len(f) PROVE f[i] = g[i]
    <2>1. i \in 1..m \/ i = m + 1 \/ i = m + 2
      BY <1>4
    <2>2. /\ \A j \in 1..m : s[j] = f[j]
          /\ crc(s)[1] = f[m + 1] /\ crc(s)[2] = f[m + 2]
      BY <1>2 DEF Parts
    <2>3. /\ \A j \in 1..m : t[j] = g[j]
          /\ crc(t)[1] = g[m + 1] /\ crc(t)[2] = g[m + 2]
      BY <1>3 DEF Parts
    <2> QED  BY ONLY <1>5, <2>1, <2>2, <2>3, Zenon
  <1> QED  BY <1>6, SameSeq

\* The length of the frame that a reader of RTU frames is in, from the bytes it
\* looks at, and whether f holds those bytes.
Announced(port, f) ==
  IF port = "rtu.receive" THEN 3 + rtu_response_remaining(f)
  ELSE IF f[2] \in {15, 16} THEN 9 + f[7] ELSE 8

Known(port, f) ==
  IF port = "rtu.receive" THEN Len(f) >= 3
  ELSE Len(f) >= 2 /\ (f[2] \in {15, 16} => Len(f) >= 7)

\* More bytes announce nothing else.
LEMMA AnnouncedKept ==
  ASSUME NEW port, NEW f \in Seq(Byte), Known(port, f), NEW g, \A i \in 1..Len(f) : g[i] = f[i],
         NEW m \in Nat, Len(g) = m, m >= Len(f)
  PROVE  Announced(port, g) = Announced(port, f) /\ Known(port, g)
  <1> DEFINE n == Len(f)
  <1>1. n \in Nat /\ m >= n /\ \A i \in 1..n : g[i] = f[i]
    OBVIOUS
  <1>2. /\ port = "rtu.receive" => n >= 3
        /\ port # "rtu.receive" /\ f[2] \in {15, 16} => n >= 7
        /\ port # "rtu.receive" /\ f[2] \notin {15, 16} => n >= 2
    BY DEF Known
  <1> HIDE DEF n
  <1>3. n >= 2 /\ (n >= 3 => 3 \in 1..n) /\ (n >= 7 => 7 \in 1..n) /\ 2 \in 1..n
    BY <1>1, <1>2
  <1>4. g[2] = f[2] /\ (n >= 3 => g[3] = f[3]) /\ (n >= 7 => g[7] = f[7])
    BY <1>1, <1>3
  <1>5. Announced(port, g) = Announced(port, f)
    BY <1>2, <1>4 DEF Announced, rtu_response_remaining
  <1>6. Known(port, g)
    BY <1>1, <1>2, <1>4 DEF Known
  <1> QED  BY <1>5, <1>6

(***************************************************************************)
(* The inductive invariant of the readers of RTU frames, whatever arrives: *)
(* until the stream ends nothing of it is lost, what is left to read is    *)
(* what the bytes read announce, and only a frame with a right CRC is      *)
(* returned.                                                               *)
(***************************************************************************)
ReceivedInv ==
  /\ input \in Inputs
  /\ input.port # "tcp.listen" =>
       /\ Underway => input.arrived = buf \o in
       /\ Underway /\ stage = "rest" =>
            Known(input.port, buf) /\ Len(buf) + left = Announced(input.port, buf)
       /\ Underway /\ stage = "fixed" => buf[2] \in {15, 16}
       /\ out = "none" => stage = "rest" /\ left = 0 /\ check_crc(buf) = "none"

LEMMA ReceivedInit == Init => ReceivedInv
  <1> SUFFICES ASSUME Init PROVE ReceivedInv
    OBVIOUS
  <1>1. /\ input \in Inputs /\ in = input.arrived /\ buf = <<>>
        /\ stage = "header" /\ out = "reading"
    BY DEF Init
  <1>2. input.arrived \in Seq(Byte)
    BY <1>1, InputAssumption
  <1>3. input.arrived = buf \o in
    BY <1>1, <1>2, ConcatEmptySeq
  <1> QED  BY <1>1, <1>3 DEF ReceivedInv, Underway

\* The header announces the rest, or the byte count that will.
LEMMA ReceivedHeader ==
  ASSUME ReaderInv, ReceivedInv, ReadHeader, input.port # "tcp.listen"
  PROVE  ReceivedInv'
  <1> DEFINE port == input.port
             n == HeaderLen(port)
             h == Take(n)
             r == Drop(n)
             b == AfterHeader(port, h)
  <1>1. /\ port \in Ports /\ in \in Seq(Byte) /\ Len(in) >= n /\ stage = "header" /\ buf = <<>>
        /\ buf' = h /\ stage' = b.stage /\ left' = b.left /\ in' = r
        /\ input' = input /\ out' = "reading" /\ out = "reading" /\ input \in Inputs
    BY DEF ReaderInv, TypeOK, ReadHeader, ReceivedInv
  <1>2. n \in Nat
    BY <1>1 DEF HeaderLen, Ports
  <1>3. h \in Seq(Byte) /\ Len(h) = n
    BY <1>1, <1>2, Taken
  <1>4. input.arrived = in
    BY <1>1, ConcatEmptySeq DEF ReceivedInv, Underway
  <1>5. input'.arrived = buf' \o in'
    BY <1>1, <1>2, <1>4, CutInTwo
  <1> HIDE DEF h, r
  <1>6. /\ stage' = "rest" => Known(port, buf') /\ Len(buf') + left' = Announced(port, buf')
        /\ stage' = "fixed" => buf'[2] \in {15, 16}
    <2>1. CASE port = "rtu.listen"
      <3>1. n = 2
        BY <2>1 DEF HeaderLen
      <3>2. \/ h[2] \in {15, 16} /\ stage' = "fixed"
            \/ h[2] \notin {15, 16} /\ stage' = "rest" /\ left' = 6
        BY <1>1, <2>1 DEF AfterHeader
      <3>3. Len(buf') = 2
        BY <1>1, <1>3, <3>1
      <3>4. CASE h[2] \in {15, 16} /\ stage' = "fixed"
        BY <1>1, <3>4
      <3>5. CASE h[2] \notin {15, 16} /\ stage' = "rest" /\ left' = 6
        <4>1. Announced(port, buf') = 8
          BY <1>1, <2>1, <3>5 DEF Announced
        <4>2. Known(port, buf')
          BY <1>1, <2>1, <3>3, <3>5 DEF Known
        <4> DEFINE k == Len(buf')
                   a == Announced(port, buf')
        <4>3. k = 2 /\ left' = 6 /\ a = 8
          BY <3>3, <3>5, <4>1
        <4> HIDE DEF k, a
        <4>4. k + left' = a
          BY <4>3
        <4> QED  BY <3>5, <4>2, <4>4 DEF k, a
      <3> QED  BY <3>2, <3>4, <3>5
    <2>2. CASE port = "rtu.receive"
      <3>1. n = 3
        BY <2>2 DEF HeaderLen
      <3>2. stage' = "rest" /\ left' = rtu_response_remaining(h)
        BY <1>1, <2>2 DEF AfterHeader
      <3>3. Len(buf') = 3
        BY <1>1, <1>3, <3>1
      <3>4. Announced(port, buf') = 3 + rtu_response_remaining(h)
        BY <1>1, <2>2 DEF Announced
      <3>5. Known(port, buf')
        BY <2>2, <3>3 DEF Known
      <3> QED  BY <3>2, <3>3, <3>4, <3>5
    <2> QED  BY <1>1, <2>1, <2>2 DEF Ports
  <1> QED  BY <1>1, <1>5, <1>6 DEF ReceivedInv

\* The byte count of a multiple write announces the rest.
LEMMA ReceivedFixed ==
  ASSUME ReaderInv, ReceivedInv, ReadFixed
  PROVE  ReceivedInv'
  <1> DEFINE t == Take(5)
             r == Drop(5)
             b == in[5]
  <1>1. /\ in \in Seq(Byte) /\ buf \in Seq(Byte) /\ Len(buf) = 2
        /\ Len(in) >= 5 /\ input.port = "rtu.listen" /\ buf[2] \in {15, 16}
        /\ input' = input /\ out' = out /\ out = "reading" /\ stage' = "rest"
        /\ buf' = buf \o t /\ in' = r /\ left' = b + 2 /\ input.arrived = buf \o in
        /\ input \in Inputs
    BY DEF ReaderInv, TypeOK, ReadFixed, ReceivedInv, Underway
  <1>2. /\ t \in Seq(Byte) /\ Len(t) = 5 /\ r \in Seq(Byte) /\ t \o r = in
        /\ \A i \in 1..5 : t[i] = in[i]
    BY <1>1, Taken, CutInTwo
  <1>3. b \in Nat
    BY <1>1, ByteAt
  <1>4. t[5] = b
    BY <1>2
  <1> HIDE DEF t, r, b
  <1>5. input'.arrived = buf' \o in'
    <2>1. buf \in Seq(Byte) /\ t \in Seq(Byte) /\ r \in Seq(Byte)
      BY <1>1, <1>2
    <2>2. (buf \o t) \o r = buf \o (t \o r)
      BY <2>1, ConcatAssociative
    <2> QED  BY <1>1, <1>2, <2>2
  <1>6. Len(buf') = 7 /\ buf'[2] \in {15, 16} /\ buf'[7] = b
    <2> DEFINE f == buf \o t
    <2>1. /\ Len(f) = Len(buf) + Len(t)
          /\ \A i \in 1..Len(f) : f[i] = IF i <= Len(buf) THEN buf[i] ELSE t[i - Len(buf)]
      <3>1. buf \in Seq(Byte) /\ t \in Seq(Byte)
        BY <1>1, <1>2
      <3> QED  BY <3>1, Joined
    <2> HIDE DEF f
    <2>2. Len(f) = 7
      BY <1>1, <1>2, <2>1
    <2>3. f[2] = buf[2] /\ f[7] = t[5]
      <3> DEFINE n == Len(f)
                 m == Len(buf)
      <3>1. n = 7 /\ m = 2 /\ \A i \in 1..n : f[i] = IF i <= m THEN buf[i] ELSE t[i - m]
        BY <1>1, <2>1, <2>2
      <3> HIDE DEF n, m
      <3>2. 2 \in 1..n /\ 2 <= m /\ 7 \in 1..n /\ ~(7 <= m) /\ 7 - m = 5
        BY <3>1
      <3> QED  BY <3>1, <3>2
    <2>4. buf' = f
      BY <1>1 DEF f
    <2> QED  BY <1>1, <1>4, <2>2, <2>3, <2>4
  <1>7. Known(input.port, buf') /\ Len(buf') + left' = Announced(input.port, buf')
    <2>1. Known(input.port, buf')
      BY <1>1, <1>6 DEF Known
    <2>2. Announced(input.port, buf') = 9 + b
      BY <1>1, <1>6 DEF Announced
    <2>3. Len(buf') + left' = 7 + (b + 2)
      BY <1>1, <1>6
    <2> QED  BY <1>3, <2>1, <2>2, <2>3
  <1> QED  BY <1>1, <1>5, <1>7 DEF ReceivedInv

\* One byte fewer is left.
LEMMA ReceivedByte ==
  ASSUME ReaderInv, ReceivedInv, ReadByte, input.port # "tcp.listen"
  PROVE  ReceivedInv'
  <1>1. /\ in \in Seq(Byte) /\ in # <<>> /\ buf \in Seq(Byte) /\ left \in Nat /\ left > 0
        /\ in' = Tail(in) /\ stage' = stage /\ stage = "rest" /\ out = "reading"
        /\ input' = input /\ input \in Inputs /\ input.arrived = buf \o in
        /\ Known(input.port, buf) /\ Len(buf) + left = Announced(input.port, buf)
    BY DEF ReaderInv, TypeOK, ReadByte, ReceivedInv, Underway
  <1>2. CASE Len(buf) < Capacity(input.port)
    <2>1. buf' = Append(buf, Head(in)) /\ left' = left - 1 /\ out' = out
      BY <1>2 DEF ReadByte
    <2>2. Head(in) \in Byte
      BY <1>1
    <2>3. /\ Len(buf) \in Nat /\ Len(buf') = Len(buf) + 1
          /\ \A i \in 1..Len(buf) : buf'[i] = buf[i]
      BY <1>1, <2>1, <2>2
    <2>4. Announced(input.port, buf') = Announced(input.port, buf) /\ Known(input.port, buf')
      <3>1. Len(buf') \in Nat /\ Len(buf') >= Len(buf)
        BY <2>3
      <3> QED  BY <1>1, <2>3, <3>1, AnnouncedKept
    <2>5. Len(buf') + left' = Len(buf) + left
      BY <1>1, <2>1, <2>3
    <2>6. input'.arrived = buf' \o in'
      BY <1>1, <2>1, ByteMoved
    <2> QED  BY <1>1, <2>1, <2>4, <2>5, <2>6 DEF ReceivedInv, Underway
  <1>3. CASE ~(Len(buf) < Capacity(input.port))
    <2>1. out' = "Push"
      BY <1>3 DEF ReadByte
    <2> QED  BY <1>1, <2>1 DEF ReceivedInv, Underway
  <1> QED  BY <1>2, <1>3

LEMMA ReceivedStep == ReaderInv /\ ReceivedInv /\ [Next]_vars => ReceivedInv'
  <1> SUFFICES ASSUME ReaderInv, ReceivedInv, [Next]_vars PROVE ReceivedInv'
    OBVIOUS
  <1>1. input' = input
    BY DEF Next, vars, ReadHeader, ReadFixed, ReadByte, ReadEof, Finish
  <1>2. CASE input.port = "tcp.listen"
    BY <1>1, <1>2 DEF ReceivedInv
  <1>3. CASE UNCHANGED vars
    BY <1>3 DEF ReceivedInv, Underway, vars
  <1>4. CASE input.port # "tcp.listen" /\ ReadEof
    <2>1. input' = input /\ out' = "PayloadTooShort"
      BY <1>4 DEF ReadEof
    <2> QED  BY <2>1 DEF ReceivedInv, Underway
  <1>5. CASE input.port # "tcp.listen" /\ Finish
    <2>1. /\ UNCHANGED <<input, in, buf, stage, left>> /\ out = "reading"
          /\ stage = "rest" /\ left = 0 /\ out' = check_crc(buf)
      BY <1>5 DEF Finish
    <2> QED  BY <2>1 DEF ReceivedInv, Underway
  <1>6. CASE input.port # "tcp.listen" /\ (ReadHeader \/ ReadFixed \/ ReadByte)
    BY <1>6, ReceivedHeader, ReceivedFixed, ReceivedByte
  <1> QED  BY <1>2, <1>3, <1>4, <1>5, <1>6 DEF Next

\* A frame with a right CRC, as long as it announces, reaches the reader but
\* for two neighbouring bytes at most, and they do not change the length that
\* is announced; it may be cut short, and more may follow it.
Burst(i) ==
  /\ check_crc(i.sent) = "none" /\ Len(i.sent) = Announced(i.port, i.sent)
  /\ Known(i.port, i.arrived) => Announced(i.port, i.arrived) = Announced(i.port, i.sent)
  /\ \E k \in DOMAIN i.sent : \A n \in DOMAIN i.sent \cap DOMAIN i.arrived :
       n # k /\ n # k + 1 => i.sent[n] = i.arrived[n]

\* A reader that returns a frame has read the length that was announced.
LEMMA ReturnedLength ==
  ASSUME ReaderInv, ReceivedInv, input.port # "tcp.listen", out = "none"
  PROVE  /\ Known(input.port, input.arrived)
         /\ Len(buf) = Announced(input.port, input.arrived)
         /\ check_crc(buf) = "none" /\ buf \in Seq(Byte)
         /\ Len(input.arrived) \in Nat /\ Len(input.arrived) >= Len(buf)
         /\ \A n \in 1..Len(buf) : input.arrived[n] = buf[n]
  <1>1. /\ in \in Seq(Byte) /\ buf \in Seq(Byte) /\ Len(buf) \in Nat /\ Len(in) \in Nat
        /\ input.arrived = buf \o in /\ check_crc(buf) = "none" /\ left = 0
        /\ Known(input.port, buf) /\ Len(buf) + left = Announced(input.port, buf)
    BY DEF ReaderInv, TypeOK, ReceivedInv, Underway
  <1> DEFINE a == input.arrived
  <1>2. a = buf \o in
    BY <1>1
  <1> HIDE DEF a
  <1>3. Len(a) = Len(buf) + Len(in) /\ \A n \in 1..Len(buf) : a[n] = buf[n]
    BY <1>1, <1>2
  <1>4. Len(a) \in Nat /\ Len(a) >= Len(buf)
    BY <1>1, <1>3
  <1>5. Announced(input.port, a) = Announced(input.port, buf) /\ Known(input.port, a)
    BY <1>1, <1>3, <1>4, AnnouncedKept
  <1>6. Len(buf) = Announced(input.port, buf)
    BY <1>1
  <1> QED  BY <1>1, <1>3, <1>4, <1>5, <1>6 DEF a

\* Neither listen nor receive of ModbusRtu returns a frame in which a burst
\* has changed one or two neighbouring bytes, the check bytes included, unless
\* the burst changes the length that the frame announces.
THEOREM BurstRefused == Spec => [](Burst(input) => NoCorruptAnswer)
  <1>1. ReaderInv /\ ReceivedInv => (Burst(input) => NoCorruptAnswer)
    <2> SUFFICES ASSUME ReaderInv, ReceivedInv, Burst(input),
                        input.port # "tcp.listen", out = "none"
                 PROVE  buf = input.sent
      BY DEF NoCorruptAnswer
    <2> DEFINE s == input.sent
               a == input.arrived
    <2>1. s \in Seq(Byte) /\ a \in Seq(Byte)
      BY InputAssumption DEF ReceivedInv
    <2>2. PICK k \in DOMAIN s : \A n \in DOMAIN s \cap DOMAIN a : n # k /\ n # k + 1 => s[n] = a[n]
      BY DEF Burst
    <2>3. /\ Known(input.port, a) /\ Len(buf) = Announced(input.port, a)
          /\ check_crc(buf) = "none" /\ buf \in Seq(Byte)
          /\ Len(a) \in Nat /\ Len(a) >= Len(buf) /\ \A n \in 1..Len(buf) : a[n] = buf[n]
      BY ReturnedLength
    <2>4. check_crc(s) = "none" /\ Len(s) = Len(buf)
      BY <2>3 DEF Burst
    <2> HIDE DEF s, a
    <2>k. k \in Nat
      BY <2>1, <2>2
    <2>5. Near(s, buf, Len(s), k)
      <3>1. ASSUME NEW n \in 1..Len(s), n # k, n # k + 1 PROVE s[n] = buf[n]
        <4>1. n \in DOMAIN s /\ n \in DOMAIN a /\ n \in 1..Len(buf)
          BY <2>1, <2>3, <2>4
        <4> QED  BY <2>2, <2>3, <3>1, <4>1
      <3> QED  BY <3>1 DEF Near
    <2>6. s = buf
      BY <2>1, <2>3, <2>4, <2>5, <2>k, BurstDetected
    <2> QED  BY <2>6 DEF s
  <1> QED  BY <1>1, ReaderInit, ReaderStep, ReceivedInit, ReceivedStep, PTL DEF Spec
=============================================================================
