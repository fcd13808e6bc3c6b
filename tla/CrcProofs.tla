------------------------------ MODULE CrcProofs ------------------------------
(***************************************************************************)
(* What the CRC of frame::crc is good for: it is two bytes, and it tells   *)
(* apart two bodies of any length that differ in two neighbouring bytes at *)
(* most.  First one turn of the inner loop, then the inner loop, then the  *)
(* register after one byte, after a run of bytes and after all of them.    *)
(* Inductions look for the least number at which something goes wrong.     *)
(***************************************************************************)
EXTENDS Crc16, WellFoundedInduction, TLAPS

-----------------------------------------------------------------------------
(* One turn of the inner loop. *)

\* Without a bit shifted out, shift halves the register, which then has a clear
\* top bit.
LEMMA ShiftEven ==
  ASSUME NEW c \in Int, 0 <= c, c <= 65535, c % 2 = 0
  PROVE  /\ shift(c) = c \div 2
         /\ shift(c) \in Int /\ 0 <= shift(c) /\ shift(c) <= 32767
  BY DEF shift

\* Flipping bit 13 or bit 0 leaves the top bit of a register set.
LEMMA FlipMid ==
  ASSUME NEW n \in Int, 32768 <= n, n <= 65535
  PROVE  /\ flip(n, 8192) \in Int /\ 32768 <= flip(n, 8192) /\ flip(n, 8192) <= 65535
         /\ flip(n, 1) \in Int /\ 32768 <= flip(n, 1) /\ flip(n, 1) <= 65535
  BY DEF flip

\* The top bit of half a register is clear: flipping it sets it.
LEMMA FlipTop ==
  ASSUME NEW c \in Int, 0 <= c, c <= 65535
  PROVE  flip(c \div 2, 32768) = c \div 2 + 32768
  BY DEF flip

\* With a bit shifted out, shift sets the top bit and flips bits 13 and 0.
LEMMA ShiftOdd ==
  ASSUME NEW c \in Int, 0 <= c, c <= 65535, c % 2 = 1
  PROVE  /\ shift(c) = flip(flip(c \div 2 + 32768, 8192), 1)
         /\ shift(c) \in Int /\ 32768 <= shift(c) /\ shift(c) <= 65535
  <1>1. shift(c) = flip(flip(c \div 2 + 32768, 8192), 1)
    BY FlipTop DEF shift
  <1>2. c \div 2 + 32768 \in Int /\ 32768 <= c \div 2 + 32768 /\ c \div 2 + 32768 <= 65535
    OBVIOUS
  <1> QED  BY <1>1, <1>2, FlipMid

\* The top bit of the shifted register tells which bit was shifted out.
LEMMA SameParity ==
  ASSUME NEW a \in Int, 0 <= a, a <= 65535, NEW b \in Int, 0 <= b, b <= 65535, 
         shift(a) \div 32768 = shift(b) \div 32768
  PROVE  a % 2 = b % 2
  <1>1. (a % 2 = 0 \/ a % 2 = 1) /\ (b % 2 = 0 \/ b % 2 = 1)
    OBVIOUS
  <1>2. a % 2 = 0 => shift(a) \div 32768 = 0
    BY ShiftEven
  <1>3. b % 2 = 0 => shift(b) \div 32768 = 0
    BY ShiftEven
  <1>4. a % 2 = 1 => shift(a) \div 32768 = 1
    BY ShiftOdd
  <1>5. b % 2 = 1 => shift(b) \div 32768 = 1
    BY ShiftOdd
  <1> QED  BY <1>1, <1>2, <1>3, <1>4, <1>5

\* Halving after a flip is flipping the bit below after halving.
LEMMA FlipHalf ==
  ASSUME NEW n \in Int
  PROVE  /\ flip(n, 1) \div 2 = n \div 2
         /\ flip(n, 2) \div 2 = flip(n \div 2, 1)
         /\ flip(n, 4) \div 2 = flip(n \div 2, 2)
         /\ flip(n, 8) \div 2 = flip(n \div 2, 4)
         /\ flip(n, 16) \div 2 = flip(n \div 2, 8)
         /\ flip(n, 32) \div 2 = flip(n \div 2, 16)
         /\ flip(n, 64) \div 2 = flip(n \div 2, 32)
         /\ flip(n, 128) \div 2 = flip(n \div 2, 64)
         /\ flip(n, 256) \div 2 = flip(n \div 2, 128)
         /\ flip(n, 512) \div 2 = flip(n \div 2, 256)
         /\ flip(n, 1024) \div 2 = flip(n \div 2, 512)
         /\ flip(n, 2048) \div 2 = flip(n \div 2, 1024)
         /\ flip(n, 4096) \div 2 = flip(n \div 2, 2048)
         /\ flip(n, 8192) \div 2 = flip(n \div 2, 4096)
  <1>0. flip(n, 1) \div 2 = n \div 2
    BY DEF flip
  <1>1. flip(n, 2) \div 2 = flip(n \div 2, 1)
    BY DEF flip
  <1>2. flip(n, 4) \div 2 = flip(n \div 2, 2)
    BY DEF flip
  <1>3. flip(n, 8) \div 2 = flip(n \div 2, 4)
    BY DEF flip
  <1>4. flip(n, 16) \div 2 = flip(n \div 2, 8)
    BY DEF flip
  <1>5. flip(n, 32) \div 2 = flip(n \div 2, 16)
    BY DEF flip
  <1>6. flip(n, 64) \div 2 = flip(n \div 2, 32)
    BY DEF flip
  <1>7. flip(n, 128) \div 2 = flip(n \div 2, 64)
    BY DEF flip
  <1>8. flip(n, 256) \div 2 = flip(n \div 2, 128)
    BY DEF flip
  <1>9. flip(n, 512) \div 2 = flip(n \div 2, 256)
    BY DEF flip
  <1>10. flip(n, 1024) \div 2 = flip(n \div 2, 512)
    BY DEF flip
  <1>11. flip(n, 2048) \div 2 = flip(n \div 2, 1024)
    BY DEF flip
  <1>12. flip(n, 4096) \div 2 = flip(n \div 2, 2048)
    BY DEF flip
  <1>13. flip(n, 8192) \div 2 = flip(n \div 2, 4096)
    BY DEF flip
  <1> QED  BY <1>0, <1>1, <1>2, <1>3, <1>4, <1>5, <1>6, <1>7, <1>8, <1>9, <1>10, <1>11, <1>12, <1>13

\* A flip can be undone.
LEMMA FlipInjective ==
  ASSUME NEW m \in Int, NEW n \in Int
  PROVE  /\ flip(m, 1) = flip(n, 1) => m = n
         /\ flip(m, 2) = flip(n, 2) => m = n
         /\ flip(m, 4) = flip(n, 4) => m = n
         /\ flip(m, 8) = flip(n, 8) => m = n
         /\ flip(m, 16) = flip(n, 16) => m = n
         /\ flip(m, 32) = flip(n, 32) => m = n
         /\ flip(m, 8192) = flip(n, 8192) => m = n
  <1>1. flip(m, 1) = flip(n, 1) => m = n
    BY DEF flip
  <1>2. flip(m, 2) = flip(n, 2) => m = n
    BY DEF flip
  <1>3. flip(m, 4) = flip(n, 4) => m = n
    BY DEF flip
  <1>4. flip(m, 8) = flip(n, 8) => m = n
    BY DEF flip
  <1>5. flip(m, 16) = flip(n, 16) => m = n
    BY DEF flip
  <1>6. flip(m, 32) = flip(n, 32) => m = n
    BY DEF flip
  <1>7. flip(m, 8192) = flip(n, 8192) => m = n
    BY DEF flip
  <1> QED  BY <1>1, <1>2, <1>3, <1>4, <1>5, <1>6, <1>7

\* The high bits of a register shifted with a bit shifted out: the high bits of
\* the register before, with the bits of 0xA001 that reach them flipped.
Quotients(c) ==
  /\ shift(c) \div 2 = flip(c \div 4 + 16384, 4096)
  /\ shift(c) \div 4 = flip(c \div 8 + 8192, 2048)
  /\ shift(c) \div 8 = flip(c \div 16 + 4096, 1024)
  /\ shift(c) \div 16 = flip(c \div 32 + 2048, 512)
  /\ shift(c) \div 32 = flip(c \div 64 + 1024, 256)
  /\ shift(c) \div 64 = flip(c \div 128 + 512, 128)
  /\ shift(c) \div 128 = flip(c \div 256 + 256, 64)
  /\ shift(c) \div 256 = flip(c \div 512 + 128, 32)
  /\ shift(c) \div 512 = flip(c \div 1024 + 64, 16)
  /\ shift(c) \div 1024 = flip(c \div 2048 + 32, 8)
  /\ shift(c) \div 2048 = flip(c \div 4096 + 16, 4)
  /\ shift(c) \div 4096 = flip(c \div 8192 + 8, 2)
  /\ shift(c) \div 8192 = flip(c \div 16384 + 4, 1)
  /\ shift(c) \div 16384 = c \div 32768 + 2
  /\ shift(c) \div 32768 = 1

LEMMA QuotientOdd ==
  ASSUME NEW c \in Int, 0 <= c, c <= 65535, c % 2 = 1
  PROVE  Quotients(c)
  <1> DEFINE s == shift(c)
             h == c \div 2
  <1>0. /\ s \in Int /\ h \in Int /\ s = flip(flip(h + 32768, 8192), 1)
        /\ flip(h + 32768, 8192) \in Int
    BY ShiftOdd, FlipMid
  <1>1. s \div 2 = flip(c \div 4 + 16384, 4096)
    <2>1. s \div 2 = flip(h + 32768, 8192) \div 2
      BY <1>0, FlipHalf
    <2>2. flip(h + 32768, 8192) \div 2 = flip((h + 32768) \div 2, 4096)
      BY <1>0, FlipHalf
    <2>3. (h + 32768) \div 2 = c \div 4 + 16384
      OBVIOUS
    <2> QED  BY <2>1, <2>2, <2>3
  <1> HIDE DEF s
  <1>2. s \div 4 = flip(c \div 8 + 8192, 2048)
    <2>1. s \div 4 = (s \div 2) \div 2
      BY <1>0
    <2>2. flip(c \div 4 + 16384, 4096) \div 2 = flip((c \div 4 + 16384) \div 2, 2048)
      BY FlipHalf
    <2>3. (c \div 4 + 16384) \div 2 = c \div 8 + 8192
      OBVIOUS
    <2> QED  BY <1>1, <2>1, <2>2, <2>3
  <1>3. s \div 8 = flip(c \div 16 + 4096, 1024)
    <2>1. s \div 8 = (s \div 4) \div 2
      BY <1>0
    <2>2. flip(c \div 8 + 8192, 2048) \div 2 = flip((c \div 8 + 8192) \div 2, 1024)
      BY FlipHalf
    <2>3. (c \div 8 + 8192) \div 2 = c \div 16 + 4096
      OBVIOUS
    <2> QED  BY <1>2, <2>1, <2>2, <2>3
  <1>4. s \div 16 = flip(c \div 32 + 2048, 512)
    <2>1. s \div 16 = (s \div 8) \div 2
      BY <1>0
    <2>2. flip(c \div 16 + 4096, 1024) \div 2 = flip((c \div 16 + 4096) \div 2, 512)
      BY FlipHalf
    <2>3. (c \div 16 + 4096) \div 2 = c \div 32 + 2048
      OBVIOUS
    <2> QED  BY <1>3, <2>1, <2>2, <2>3
  <1>5. s \div 32 = flip(c \div 64 + 1024, 256)
    <2>1. s \div 32 = (s \div 16) \div 2
      BY <1>0
    <2>2. flip(c \div 32 + 2048, 512) \div 2 = flip((c \div 32 + 2048) \div 2, 256)
      BY FlipHalf
    <2>3. (c \div 32 + 2048) \div 2 = c \div 64 + 1024
      OBVIOUS
    <2> QED  BY <1>4, <2>1, <2>2, <2>3
  <1>6. s \div 64 = flip(c \div 128 + 512, 128)
    <2>1. s \div 64 = (s \div 32) \div 2
      BY <1>0
    <2>2. flip(c \div 64 + 1024, 256) \div 2 = flip((c \div 64 + 1024) \div 2, 128)
      BY FlipHalf
    <2>3. (c \div 64 + 1024) \div 2 = c \div 128 + 512
      OBVIOUS
    <2> QED  BY <1>5, <2>1, <2>2, <2>3
  <1>7. s \div 128 = flip(c \div 256 + 256, 64)
    <2>1. s \div 128 = (s \div 64) \div 2
      BY <1>0
    <2>2. flip(c \div 128 + 512, 128) \div 2 = flip((c \div 128 + 512) \div 2, 64)
      BY FlipHalf
    <2>3. (c \div 128 + 512) \div 2 = c \div 256 + 256
      OBVIOUS
    <2> QED  BY <1>6, <2>1, <2>2, <2>3
  <1>8. s \div 256 = flip(c \div 512 + 128, 32)
    <2>1. s \div 256 = (s \div 128) \div 2
      BY <1>0
    <2>2. flip(c \div 256 + 256, 64) \div 2 = flip((c \div 256 + 256) \div 2, 32)
      BY FlipHalf
    <2>3. (c \div 256 + 256) \div 2 = c \div 512 + 128
      OBVIOUS
    <2> QED  BY <1>7, <2>1, <2>2, <2>3
  <1>9. s \div 512 = flip(c \div 1024 + 64, 16)
    <2>1. s \div 512 = (s \div 256) \div 2
      BY <1>0
    <2>2. flip(c \div 512 + 128, 32) \div 2 = flip((c \div 512 + 128) \div 2, 16)
      BY FlipHalf
    <2>3. (c \div 512 + 128) \div 2 = c \div 1024 + 64
      OBVIOUS
    <2> QED  BY <1>8, <2>1, <2>2, <2>3
  <1>10. s \div 1024 = flip(c \div 2048 + 32, 8)
    <2>1. s \div 1024 = (s \div 512) \div 2
      BY <1>0
    <2>2. flip(c \div 1024 + 64, 16) \div 2 = flip((c \div 1024 + 64) \div 2, 8)
      BY FlipHalf
    <2>3. (c \div 1024 + 64) \div 2 = c \div 2048 + 32
      OBVIOUS
    <2> QED  BY <1>9, <2>1, <2>2, <2>3
  <1>11. s \div 2048 = flip(c \div 4096 + 16, 4)
    <2>1. s \div 2048 = (s \div 1024) \div 2
      BY <1>0
    <2>2. flip(c \div 2048 + 32, 8) \div 2 = flip((c \div 2048 + 32) \div 2, 4)
      BY FlipHalf
    <2>3. (c \div 2048 + 32) \div 2 = c \div 4096 + 16
      OBVIOUS
    <2> QED  BY <1>10, <2>1, <2>2, <2>3
  <1>12. s \div 4096 = flip(c \div 8192 + 8, 2)
    <2>1. s \div 4096 = (s \div 2048) \div 2
      BY <1>0
    <2>2. flip(c \div 4096 + 16, 4) \div 2 = flip((c \div 4096 + 16) \div 2, 2)
      BY FlipHalf
    <2>3. (c \div 4096 + 16) \div 2 = c \div 8192 + 8
      OBVIOUS
    <2> QED  BY <1>11, <2>1, <2>2, <2>3
  <1>13. s \div 8192 = flip(c \div 16384 + 4, 1)
    <2>1. s \div 8192 = (s \div 4096) \div 2
      BY <1>0
    <2>2. flip(c \div 8192 + 8, 2) \div 2 = flip((c \div 8192 + 8) \div 2, 1)
      BY FlipHalf
    <2>3. (c \div 8192 + 8) \div 2 = c \div 16384 + 4
      OBVIOUS
    <2> QED  BY <1>12, <2>1, <2>2, <2>3
  <1>14. s \div 16384 = c \div 32768 + 2
    <2>1. s \div 16384 = (s \div 8192) \div 2
      BY <1>0
    <2>2. flip(c \div 16384 + 4, 1) \div 2 = (c \div 16384 + 4) \div 2
      BY FlipHalf
    <2>3. (c \div 16384 + 4) \div 2 = c \div 32768 + 2
      OBVIOUS
    <2> QED  BY <1>13, <2>1, <2>2, <2>3
  <1>15. s \div 32768 = 1
    BY <1>0, <1>14
  <1> QED  BY <1>1, <1>2, <1>3, <1>4, <1>5, <1>6, <1>7, <1>8, <1>9,
              <1>10, <1>11, <1>12, <1>13, <1>14, <1>15 DEF s, Quotients

\* Registers whose high bits agree once shifted agreed, before, in the bit
\* shifted out and in one high bit less.
LEMMA Down ==
  ASSUME NEW a \in Int, 0 <= a, a <= 65535, NEW b \in Int, 0 <= b, b <= 65535
  PROVE  /\ shift(a) \div 256 = shift(b) \div 256 => a % 2 = b % 2 /\ a \div 512 = b \div 512
         /\ shift(a) \div 512 = shift(b) \div 512 => a % 2 = b % 2 /\ a \div 1024 = b \div 1024
         /\ shift(a) \div 1024 = shift(b) \div 1024 => a % 2 = b % 2 /\ a \div 2048 = b \div 2048
         /\ shift(a) \div 2048 = shift(b) \div 2048 => a % 2 = b % 2 /\ a \div 4096 = b \div 4096
         /\ shift(a) \div 4096 = shift(b) \div 4096 => a % 2 = b % 2 /\ a \div 8192 = b \div 8192
         /\ shift(a) \div 8192 = shift(b) \div 8192 => a % 2 = b % 2 /\ a \div 16384 = b \div 16384
         /\ shift(a) \div 16384 = shift(b) \div 16384 => a % 2 = b % 2 /\ a \div 32768 = b \div 32768
         /\ shift(a) \div 32768 = shift(b) \div 32768 => a % 2 = b % 2
  <1>0. /\ shift(a) \in Int /\ shift(b) \in Int
        /\ a % 2 = 0 \/ a % 2 = 1
        /\ a % 2 = 0 => shift(a) = a \div 2
        /\ b % 2 = 0 => shift(b) = b \div 2
    BY ShiftOdd, ShiftEven
  <1>a. a % 2 = b % 2 /\ a % 2 = 1 => Quotients(a) /\ Quotients(b)
    BY QuotientOdd
  <1>1. shift(a) \div 256 = shift(b) \div 256 => a % 2 = b % 2 /\ a \div 512 = b \div 512
    <2> SUFFICES ASSUME shift(a) \div 256 = shift(b) \div 256
                 PROVE  a % 2 = b % 2 /\ a \div 512 = b \div 512
      OBVIOUS
    <2>1. shift(a) \div 32768 = shift(b) \div 32768
      BY <1>0
    <2>2. a % 2 = b % 2
      BY <2>1, SameParity
    <2>3. CASE a % 2 = 0
      BY <1>0, <2>2, <2>3
    <2>4. CASE a % 2 = 1
      <3>1. flip(a \div 512 + 128, 32) = flip(b \div 512 + 128, 32)
        BY <1>a, <2>2, <2>4 DEF Quotients
      <3>2. a \div 512 + 128 = b \div 512 + 128
        BY <3>1, FlipInjective
      <3> QED  BY <2>2, <3>2
    <2> QED  BY <1>0, <2>3, <2>4
  <1>2. shift(a) \div 512 = shift(b) \div 512 => a % 2 = b % 2 /\ a \div 1024 = b \div 1024
    <2> SUFFICES ASSUME shift(a) \div 512 = shift(b) \div 512
                 PROVE  a % 2 = b % 2 /\ a \div 1024 = b \div 1024
      OBVIOUS
    <2>1. shift(a) \div 32768 = shift(b) \div 32768
      BY <1>0
    <2>2. a % 2 = b % 2
      BY <2>1, SameParity
    <2>3. CASE a % 2 = 0
      BY <1>0, <2>2, <2>3
    <2>4. CASE a % 2 = 1
      <3>1. flip(a \div 1024 + 64, 16) = flip(b \div 1024 + 64, 16)
        BY <1>a, <2>2, <2>4 DEF Quotients
      <3>2. a \div 1024 + 64 = b \div 1024 + 64
        BY <3>1, FlipInjective
      <3> QED  BY <2>2, <3>2
    <2> QED  BY <1>0, <2>3, <2>4
  <1>3. shift(a) \div 1024 = shift(b) \div 1024 => a % 2 = b % 2 /\ a \div 2048 = b \div 2048
    <2> SUFFICES ASSUME shift(a) \div 1024 = shift(b) \div 1024
                 PROVE  a % 2 = b % 2 /\ a \div 2048 = b \div 2048
      OBVIOUS
    <2>1. shift(a) \div 32768 = shift(b) \div 32768
      BY <1>0
    <2>2. a % 2 = b % 2
      BY <2>1, SameParity
    <2>3. CASE a % 2 = 0
      BY <1>0, <2>2, <2>3
    <2>4. CASE a % 2 = 1
      <3>1. flip(a \div 2048 + 32, 8) = flip(b \div 2048 + 32, 8)
        BY <1>a, <2>2, <2>4 DEF Quotients
      <3>2. a \div 2048 + 32 = b \div 2048 + 32
        BY <3>1, FlipInjective
      <3> QED  BY <2>2, <3>2
    <2> QED  BY <1>0, <2>3, <2>4
  <1>4. shift(a) \div 2048 = shift(b) \div 2048 => a % 2 = b % 2 /\ a \div 4096 = b \div 4096
    <2> SUFFICES ASSUME shift(a) \div 2048 = shift(b) \div 2048
                 PROVE  a % 2 = b % 2 /\ a \div 4096 = b \div 4096
      OBVIOUS
    <2>1. shift(a) \div 32768 = shift(b) \div 32768
      BY <1>0
    <2>2. a % 2 = b % 2
      BY <2>1, SameParity
    <2>3. CASE a % 2 = 0
      BY <1>0, <2>2, <2>3
    <2>4. CASE a % 2 = 1
      <3>1. flip(a \div 4096 + 16, 4) = flip(b \div 4096 + 16, 4)
        BY <1>a, <2>2, <2>4 DEF Quotients
      <3>2. a \div 4096 + 16 = b \div 4096 + 16
        BY <3>1, FlipInjective
      <3> QED  BY <2>2, <3>2
    <2> QED  BY <1>0, <2>3, <2>4
  <1>5. shift(a) \div 4096 = shift(b) \div 4096 => a % 2 = b % 2 /\ a \div 8192 = b \div 8192
    <2> SUFFICES ASSUME shift(a) \div 4096 = shift(b) \div 4096
                 PROVE  a % 2 = b % 2 /\ a \div 8192 = b \div 8192
      OBVIOUS
    <2>1. shift(a) \div 32768 = shift(b) \div 32768
      BY <1>0
    <2>2. a % 2 = b % 2
      BY <2>1, SameParity
    <2>3. CASE a % 2 = 0
      BY <1>0, <2>2, <2>3
    <2>4. CASE a % 2 = 1
      <3>1. flip(a \div 8192 + 8, 2) = flip(b \div 8192 + 8, 2)
        BY <1>a, <2>2, <2>4 DEF Quotients
      <3>2. a \div 8192 + 8 = b \div 8192 + 8
        BY <3>1, FlipInjective
      <3> QED  BY <2>2, <3>2
    <2> QED  BY <1>0, <2>3, <2>4
  <1>6. shift(a) \div 8192 = shift(b) \div 8192 => a % 2 = b % 2 /\ a \div 16384 = b \div 16384
    <2> SUFFICES ASSUME shift(a) \div 8192 = shift(b) \div 8192
                 PROVE  a % 2 = b % 2 /\ a \div 16384 = b \div 16384
      OBVIOUS
    <2>1. shift(a) \div 32768 = shift(b) \div 32768
      BY <1>0
    <2>2. a % 2 = b % 2
      BY <2>1, SameParity
    <2>3. CASE a % 2 = 0
      BY <1>0, <2>2, <2>3
    <2>4. CASE a % 2 = 1
      <3>1. flip(a \div 16384 + 4, 1) = flip(b \div 16384 + 4, 1)
        BY <1>a, <2>2, <2>4 DEF Quotients
      <3>2. a \div 16384 + 4 = b \div 16384 + 4
        BY <3>1, FlipInjective
      <3> QED  BY <2>2, <3>2
    <2> QED  BY <1>0, <2>3, <2>4
  <1>7. shift(a) \div 16384 = shift(b) \div 16384 => a % 2 = b % 2 /\ a \div 32768 = b \div 32768
    <2> SUFFICES ASSUME shift(a) \div 16384 = shift(b) \div 16384
                 PROVE  a % 2 = b % 2 /\ a \div 32768 = b \div 32768
      OBVIOUS
    <2>1. shift(a) \div 32768 = shift(b) \div 32768
      BY <1>0
    <2>2. a % 2 = b % 2
      BY <2>1, SameParity
    <2>3. CASE a % 2 = 0
      BY <1>0, <2>2, <2>3
    <2>4. CASE a % 2 = 1
      <3>1. shift(a) \div 16384 = a \div 32768 + 2 /\ shift(b) \div 16384 = b \div 32768 + 2
        BY <1>a, <2>2, <2>4 DEF Quotients
      <3>2. a \div 32768 \in Int /\ b \div 32768 \in Int
        OBVIOUS
      <3>3. a \div 32768 + 2 = b \div 32768 + 2
        BY <3>1
      <3>4. a \div 32768 = b \div 32768
        <4> DEFINE x == a \div 32768
                   y == b \div 32768
        <4> HIDE DEF x, y
        <4>1. x \in Int /\ y \in Int /\ x + 2 = y + 2
          BY <3>2, <3>3 DEF x, y
        <4>2. x = y
          BY ONLY <4>1
        <4> QED  BY <4>2 DEF x, y
      <3> QED  BY ONLY <2>2, <3>4
    <2> QED  BY <1>0, <2>3, <2>4
  <1>8. shift(a) \div 32768 = shift(b) \div 32768 => a % 2 = b % 2
    BY SameParity
  <1> QED  BY <1>1, <1>2, <1>3, <1>4, <1>5, <1>6, <1>7, <1>8

\* Registers that agree in the bit shifted out and in their high bits agree,
\* once shifted, in one high bit more.
LEMMA Up ==
  ASSUME NEW a \in Int, 0 <= a, a <= 65535, NEW b \in Int, 0 <= b, b <= 65535, a % 2 = b % 2
  PROVE  /\ a \div 2 = b \div 2 => shift(a) = shift(b)
         /\ a \div 4 = b \div 4 => shift(a) \div 2 = shift(b) \div 2
         /\ a \div 8 = b \div 8 => shift(a) \div 4 = shift(b) \div 4
         /\ a \div 16 = b \div 16 => shift(a) \div 8 = shift(b) \div 8
         /\ a \div 32 = b \div 32 => shift(a) \div 16 = shift(b) \div 16
         /\ a \div 64 = b \div 64 => shift(a) \div 32 = shift(b) \div 32
         /\ a \div 128 = b \div 128 => shift(a) \div 64 = shift(b) \div 64
         /\ a \div 256 = b \div 256 => shift(a) \div 128 = shift(b) \div 128
  <1>0. /\ a % 2 = 0 \/ a % 2 = 1
        /\ a % 2 = 0 => shift(a) = a \div 2 /\ shift(b) = b \div 2
    BY ShiftEven
  <1>1. CASE a % 2 = 0
    BY <1>0, <1>1
  <1>2. CASE a % 2 = 1
    <2>0. Quotients(a) /\ Quotients(b)
      BY <1>2, QuotientOdd
    <2>1. a \div 2 = b \div 2 => shift(a) = shift(b)
      <3> SUFFICES ASSUME a \div 2 = b \div 2 PROVE shift(a) = shift(b)
        OBVIOUS
      <3> DEFINE m == a \div 2 + 32768
                 n == b \div 2 + 32768
      <3>1. m = n
        OBVIOUS
      <3>2. shift(a) = flip(flip(m, 8192), 1)
        BY <1>2, ShiftOdd
      <3>3. shift(b) = flip(flip(n, 8192), 1)
        BY <1>2, ShiftOdd
      <3> HIDE DEF m, n
      <3> QED  BY ONLY <3>1, <3>2, <3>3
    <2>2. a \div 4 = b \div 4 => shift(a) \div 2 = shift(b) \div 2
      <3> SUFFICES ASSUME a \div 4 = b \div 4 PROVE shift(a) \div 2 = shift(b) \div 2
        OBVIOUS
      <3> DEFINE m == a \div 4 + 16384
                 n == b \div 4 + 16384
      <3>1. m = n
        OBVIOUS
      <3>2. shift(a) \div 2 = flip(m, 4096)
        BY <2>0 DEF Quotients
      <3>3. shift(b) \div 2 = flip(n, 4096)
        BY <2>0 DEF Quotients
      <3> HIDE DEF m, n
      <3> QED  BY ONLY <3>1, <3>2, <3>3
    <2>3. a \div 8 = b \div 8 => shift(a) \div 4 = shift(b) \div 4
      <3> SUFFICES ASSUME a \div 8 = b \div 8 PROVE shift(a) \div 4 = shift(b) \div 4
        OBVIOUS
      <3> DEFINE m == a \div 8 + 8192
                 n == b \div 8 + 8192
      <3>1. m = n
        OBVIOUS
      <3>2. shift(a) \div 4 = flip(m, 2048)
        BY <2>0 DEF Quotients
      <3>3. shift(b) \div 4 = flip(n, 2048)
        BY <2>0 DEF Quotients
      <3> HIDE DEF m, n
      <3> QED  BY ONLY <3>1, <3>2, <3>3
    <2>4. a \div 16 = b \div 16 => shift(a) \div 8 = shift(b) \div 8
      <3> SUFFICES ASSUME a \div 16 = b \div 16 PROVE shift(a) \div 8 = shift(b) \div 8
        OBVIOUS
      <3> DEFINE m == a \div 16 + 4096
                 n == b \div 16 + 4096
      <3>1. m = n
        OBVIOUS
      <3>2. shift(a) \div 8 = flip(m, 1024)
        BY <2>0 DEF Quotients
      <3>3. shift(b) \div 8 = flip(n, 1024)
        BY <2>0 DEF Quotients
      <3> HIDE DEF m, n
      <3> QED  BY ONLY <3>1, <3>2, <3>3
    <2>5. a \div 32 = b \div 32 => shift(a) \div 16 = shift(b) \div 16
      <3> SUFFICES ASSUME a \div 32 = b \div 32 PROVE shift(a) \div 16 = shift(b) \div 16
        OBVIOUS
      <3> DEFINE m == a \div 32 + 2048
                 n == b \div 32 + 2048
      <3>1. m = n
        OBVIOUS
      <3>2. shift(a) \div 16 = flip(m, 512)
        BY <2>0 DEF Quotients
      <3>3. shift(b) \div 16 = flip(n, 512)
        BY <2>0 DEF Quotients
      <3> HIDE DEF m, n
      <3> QED  BY ONLY <3>1, <3>2, <3>3
    <2>6. a \div 64 = b \div 64 => shift(a) \div 32 = shift(b) \div 32
      <3> SUFFICES ASSUME a \div 64 = b \div 64 PROVE shift(a) \div 32 = shift(b) \div 32
        OBVIOUS
      <3> DEFINE m == a \div 64 + 1024
                 n == b \div 64 + 1024
      <3>1. m = n
        OBVIOUS
      <3>2. shift(a) \div 32 = flip(m, 256)
        BY <2>0 DEF Quotients
      <3>3. shift(b) \div 32 = flip(n, 256)
        BY <2>0 DEF Quotients
      <3> HIDE DEF m, n
      <3> QED  BY ONLY <3>1, <3>2, <3>3
    <2>7. a \div 128 = b \div 128 => shift(a) \div 64 = shift(b) \div 64
      <3> SUFFICES ASSUME a \div 128 = b \div 128 PROVE shift(a) \div 64 = shift(b) \div 64
        OBVIOUS
      <3> DEFINE m == a \div 128 + 512
                 n == b \div 128 + 512
      <3>1. m = n
        OBVIOUS
      <3>2. shift(a) \div 64 = flip(m, 128)
        BY <2>0 DEF Quotients
      <3>3. shift(b) \div 64 = flip(n, 128)
        BY <2>0 DEF Quotients
      <3> HIDE DEF m, n
      <3> QED  BY ONLY <3>1, <3>2, <3>3
    <2>8. a \div 256 = b \div 256 => shift(a) \div 128 = shift(b) \div 128
      <3> SUFFICES ASSUME a \div 256 = b \div 256 PROVE shift(a) \div 128 = shift(b) \div 128
        OBVIOUS
      <3> DEFINE m == a \div 256 + 256
                 n == b \div 256 + 256
      <3>1. m = n
        OBVIOUS
      <3>2. shift(a) \div 128 = flip(m, 64)
        BY <2>0 DEF Quotients
      <3>3. shift(b) \div 128 = flip(n, 64)
        BY <2>0 DEF Quotients
      <3> HIDE DEF m, n
      <3> QED  BY ONLY <3>1, <3>2, <3>3
    <2> QED  BY <2>1, <2>2, <2>3, <2>4, <2>5, <2>6, <2>7, <2>8
  <1> QED  BY <1>0, <1>1, <1>2

\* One turn of the inner loop can be undone.
LEMMA ShiftInjective ==
  ASSUME NEW a \in Int, 0 <= a, a <= 65535, NEW b \in Int, 0 <= b, b <= 65535, shift(a) = shift(b)
  PROVE  a = b
  <1>1. a % 2 = b % 2
    BY SameParity
  <1>2. CASE a % 2 = 0
    <2>1. a \div 2 = b \div 2
      BY <1>1, <1>2, ShiftEven
    <2> QED  BY <1>1, <2>1
  <1>3. CASE a % 2 = 1
    <2> DEFINE m == flip(a \div 2 + 32768, 8192)
               n == flip(b \div 2 + 32768, 8192)
    <2>1. m \in Int /\ n \in Int /\ flip(m, 1) = flip(n, 1)
      BY <1>1, <1>3, ShiftOdd, FlipMid
    <2>2. m = n
      <3> HIDE DEF m, n
      <3> QED  BY <2>1, FlipInjective
    <2>3. a \div 2 + 32768 = b \div 2 + 32768
      BY <2>2, FlipInjective
    <2> QED  BY <1>1, <2>3
  <1> QED  BY <1>2, <1>3

\* a and b agree in the bits above the lowest ones that p counts off; their
\* lowest bits agree.
Agree(p, a, b) == a \div p = b \div p
Alike(a, b)    == a % 2 = b % 2

\* Membership in a range, for an upper bound that the provers do not unfold.
LEMMA RangeBounds ==
  ASSUME NEW n \in Int, NEW c \in 0..n
  PROVE  c \in Int /\ 0 <= c /\ c <= n
  OBVIOUS

LEMMA InRange ==
  ASSUME NEW n \in Int, NEW c \in Int, 0 <= c, c <= n
  PROVE  c \in 0..n
  OBVIOUS

\* A register as an integer and its bounds.
LEMMA WordRange ==
  ASSUME NEW c \in Word
  PROVE  c \in Int /\ 0 <= c /\ c <= 65535
  <1> DEFINE top == 65535
  <1>0. Word = 0..top
    BY DEF Word, Zenon
  <1>1. top \in Int
    OBVIOUS
  <1> HIDE DEF top
  <1>2. c \in Int /\ 0 <= c /\ c <= top
    BY <1>0, <1>1, RangeBounds
  <1> QED  BY <1>2 DEF top

LEMMA InWord ==
  ASSUME NEW c \in Int, 0 <= c, c <= 65535
  PROVE  c \in Word
  <1> DEFINE top == 65535
  <1>0. Word = 0..top
    BY DEF Word, Zenon
  <1>1. top \in Int /\ c <= top
    OBVIOUS
  <1> HIDE DEF top
  <1>2. c \in 0..top
    BY <1>1, InRange
  <1> QED  BY <1>0, <1>2

\* The facts above for registers as members of Word.
LEMMA ShiftWord ==
  ASSUME NEW c \in Word
  PROVE  shift(c) \in Word
  <1>1. c \in Int /\ 0 <= c /\ c <= 65535
    BY WordRange
  <1>2. c % 2 = 0 \/ c % 2 = 1
    BY <1>1
  <1>3. shift(c) \in Int /\ 0 <= shift(c) /\ shift(c) <= 65535
    BY <1>1, <1>2, ShiftEven, ShiftOdd
  <1> QED  BY <1>3, InWord

LEMMA ShiftOneOne ==
  ASSUME NEW a \in Word, NEW b \in Word, shift(a) = shift(b)
  PROVE  a = b
  BY WordRange, ShiftInjective

LEMMA HighBits ==
  ASSUME NEW a \in Word, NEW b \in Word
  PROVE  /\ Agree(256, shift(a), shift(b)) => Alike(a, b) /\ Agree(512, a, b)
         /\ Agree(512, shift(a), shift(b)) => Alike(a, b) /\ Agree(1024, a, b)
         /\ Agree(1024, shift(a), shift(b)) => Alike(a, b) /\ Agree(2048, a, b)
         /\ Agree(2048, shift(a), shift(b)) => Alike(a, b) /\ Agree(4096, a, b)
         /\ Agree(4096, shift(a), shift(b)) => Alike(a, b) /\ Agree(8192, a, b)
         /\ Agree(8192, shift(a), shift(b)) => Alike(a, b) /\ Agree(16384, a, b)
         /\ Agree(16384, shift(a), shift(b)) => Alike(a, b) /\ Agree(32768, a, b)
         /\ Agree(32768, shift(a), shift(b)) => Alike(a, b)
  <1>1. a \in Int /\ 0 <= a /\ a <= 65535 /\ b \in Int /\ 0 <= b /\ b <= 65535
    BY WordRange
  <1> QED  BY <1>1, Down DEF Agree, Alike

LEMMA LowBits ==
  ASSUME NEW a \in Word, NEW b \in Word, Alike(a, b)
  PROVE  /\ Agree(4, a, b) => Agree(2, shift(a), shift(b))
         /\ Agree(8, a, b) => Agree(4, shift(a), shift(b))
         /\ Agree(16, a, b) => Agree(8, shift(a), shift(b))
         /\ Agree(32, a, b) => Agree(16, shift(a), shift(b))
         /\ Agree(64, a, b) => Agree(32, shift(a), shift(b))
         /\ Agree(128, a, b) => Agree(64, shift(a), shift(b))
         /\ Agree(256, a, b) => Agree(128, shift(a), shift(b))
         /\ Agree(2, a, b) => shift(a) = shift(b)
  <1>1. a \in Int /\ 0 <= a /\ a <= 65535 /\ b \in Int /\ 0 <= b /\ b <= 65535
    BY WordRange
  <1> QED  BY <1>1, Up DEF Agree, Alike

\* The inner loop can be undone; and of two registers with the same high byte,
\* the high byte it leaves tells them apart.
LEMMA Shift8 ==
  ASSUME NEW a \in Word, NEW b \in Word
  PROVE  /\ shift8[a] \in Word
         /\ shift8[a] = shift8[b] => a = b
         /\ Agree(256, a, b) /\ Agree(256, shift8[a], shift8[b]) => a = b
  <1> DEFINE a1 == shift(a)
             a2 == shift(a1)
             a3 == shift(a2)
             a4 == shift(a3)
             a5 == shift(a4)
             a6 == shift(a5)
             a7 == shift(a6)
             a8 == shift(a7)
             b1 == shift(b)
             b2 == shift(b1)
             b3 == shift(b2)
             b4 == shift(b3)
             b5 == shift(b4)
             b6 == shift(b5)
             b7 == shift(b6)
             b8 == shift(b7)
  <1>0. shift8[a] = a8 /\ shift8[b] = b8
    BY DEF shift8
  <1>1. a1 \in Word /\ b1 \in Word /\ a1 = shift(a) /\ b1 = shift(b)
    BY ShiftWord
  <1> HIDE DEF a1, b1
  <1>2. a2 \in Word /\ b2 \in Word /\ a2 = shift(a1) /\ b2 = shift(b1)
    BY <1>1, ShiftWord
  <1> HIDE DEF a2, b2
  <1>3. a3 \in Word /\ b3 \in Word /\ a3 = shift(a2) /\ b3 = shift(b2)
    BY <1>2, ShiftWord
  <1> HIDE DEF a3, b3
  <1>4. a4 \in Word /\ b4 \in Word /\ a4 = shift(a3) /\ b4 = shift(b3)
    BY <1>3, ShiftWord
  <1> HIDE DEF a4, b4
  <1>5. a5 \in Word /\ b5 \in Word /\ a5 = shift(a4) /\ b5 = shift(b4)
    BY <1>4, ShiftWord
  <1> HIDE DEF a5, b5
  <1>6. a6 \in Word /\ b6 \in Word /\ a6 = shift(a5) /\ b6 = shift(b5)
    BY <1>5, ShiftWord
  <1> HIDE DEF a6, b6
  <1>7. a7 \in Word /\ b7 \in Word /\ a7 = shift(a6) /\ b7 = shift(b6)
    BY <1>6, ShiftWord
  <1> HIDE DEF a7, b7
  <1>8. a8 \in Word /\ b8 \in Word /\ a8 = shift(a7) /\ b8 = shift(b7)
    BY <1>7, ShiftWord
  <1> HIDE DEF a8, b8
  <1>9. ASSUME a8 = b8 PROVE a = b
    <2>1. a7 = b7
      BY <1>7, <1>8, <1>9, ShiftOneOne
    <2>2. a6 = b6
      BY <1>6, <1>7, <2>1, ShiftOneOne
    <2>3. a5 = b5
      BY <1>5, <1>6, <2>2, ShiftOneOne
    <2>4. a4 = b4
      BY <1>4, <1>5, <2>3, ShiftOneOne
    <2>5. a3 = b3
      BY <1>3, <1>4, <2>4, ShiftOneOne
    <2>6. a2 = b2
      BY <1>2, <1>3, <2>5, ShiftOneOne
    <2>7. a1 = b1
      BY <1>1, <1>2, <2>6, ShiftOneOne
    <2>8. a = b
      BY <1>1, <2>7, ShiftOneOne
    <2> QED  BY <2>8
  <1>10. ASSUME Agree(256, a, b), Agree(256, a8, b8)
         PROVE  a = b
    <2>1. Alike(a7, b7) /\ Agree(512, a7, b7)
      BY <1>7, <1>8, <1>10, HighBits
    <2>2. Alike(a6, b6) /\ Agree(1024, a6, b6)
      BY <1>6, <1>7, <2>1, HighBits
    <2>3. Alike(a5, b5) /\ Agree(2048, a5, b5)
      BY <1>5, <1>6, <2>2, HighBits
    <2>4. Alike(a4, b4) /\ Agree(4096, a4, b4)
      BY <1>4, <1>5, <2>3, HighBits
    <2>5. Alike(a3, b3) /\ Agree(8192, a3, b3)
      BY <1>3, <1>4, <2>4, HighBits
    <2>6. Alike(a2, b2) /\ Agree(16384, a2, b2)
      BY <1>2, <1>3, <2>5, HighBits
    <2>7. Alike(a1, b1) /\ Agree(32768, a1, b1)
      BY <1>1, <1>2, <2>6, HighBits
    <2>8. Alike(a, b)
      BY <1>1, <2>7, HighBits
    <2>9. Agree(128, a1, b1)
      BY <1>1, <1>10, <2>8, LowBits
    <2>10. Agree(64, a2, b2)
      BY <1>1, <1>2, <2>9, <2>7, LowBits
    <2>11. Agree(32, a3, b3)
      BY <1>2, <1>3, <2>10, <2>6, LowBits
    <2>12. Agree(16, a4, b4)
      BY <1>3, <1>4, <2>11, <2>5, LowBits
    <2>13. Agree(8, a5, b5)
      BY <1>4, <1>5, <2>12, <2>4, LowBits
    <2>14. Agree(4, a6, b6)
      BY <1>5, <1>6, <2>13, <2>3, LowBits
    <2>15. Agree(2, a7, b7)
      BY <1>6, <1>7, <2>14, <2>2, LowBits
    <2>16. a8 = b8
      BY <1>7, <1>8, <2>15, <2>1, LowBits
    <2> QED  BY <1>9, <2>16
  <1> QED  BY <1>0, <1>8, <1>9, <1>10

\* A number is its last bit and the bits above it; a byte is its eight bits.
LEMMA LastBit ==
  ASSUME NEW n \in Int, NEW k \in Int, n % 2 = k % 2, n \div 2 = k \div 2
  PROVE  n = k
  <1>1. n = 2 * (n \div 2) + (n % 2) /\ k = 2 * (k \div 2) + (k % 2)
    OBVIOUS
  <1> QED  BY <1>1

LEMMA ByteBits ==
  ASSUME NEW n \in Int, 0 <= n, n <= 255, NEW k \in Int, 0 <= k, k <= 255,
         n % 2 = k % 2, (n \div 2) % 2 = (k \div 2) % 2,
         (n \div 4) % 2 = (k \div 4) % 2, (n \div 8) % 2 = (k \div 8) % 2,
         (n \div 16) % 2 = (k \div 16) % 2, (n \div 32) % 2 = (k \div 32) % 2,
         (n \div 64) % 2 = (k \div 64) % 2, (n \div 128) % 2 = (k \div 128) % 2
  PROVE  n = k
  <1>1. n \div 128 = k \div 128
    <2>1. n \div 128 \in {0, 1} /\ k \div 128 \in {0, 1}
      OBVIOUS
    <2> QED  BY <2>1
  <1>2. n \div 64 = k \div 64
    <2>1. (n \div 64) \div 2 = n \div 128 /\ (k \div 64) \div 2 = k \div 128
      OBVIOUS
    <2>2. n \div 64 \in Int /\ k \div 64 \in Int
      OBVIOUS
    <2> QED  BY <1>1, <2>1, <2>2, LastBit
  <1>3. n \div 32 = k \div 32
    <2>1. (n \div 32) \div 2 = n \div 64 /\ (k \div 32) \div 2 = k \div 64
      OBVIOUS
    <2>2. n \div 32 \in Int /\ k \div 32 \in Int
      OBVIOUS
    <2> QED  BY <1>2, <2>1, <2>2, LastBit
  <1>4. n \div 16 = k \div 16
    <2>1. (n \div 16) \div 2 = n \div 32 /\ (k \div 16) \div 2 = k \div 32
      OBVIOUS
    <2>2. n \div 16 \in Int /\ k \div 16 \in Int
      OBVIOUS
    <2> QED  BY <1>3, <2>1, <2>2, LastBit
  <1>5. n \div 8 = k \div 8
    <2>1. (n \div 8) \div 2 = n \div 16 /\ (k \div 8) \div 2 = k \div 16
      OBVIOUS
    <2>2. n \div 8 \in Int /\ k \div 8 \in Int
      OBVIOUS
    <2> QED  BY <1>4, <2>1, <2>2, LastBit
  <1>6. n \div 4 = k \div 4
    <2>1. (n \div 4) \div 2 = n \div 8 /\ (k \div 4) \div 2 = k \div 8
      OBVIOUS
    <2>2. n \div 4 \in Int /\ k \div 4 \in Int
      OBVIOUS
    <2> QED  BY <1>5, <2>1, <2>2, LastBit
  <1>7. n \div 2 = k \div 2
    <2>1. (n \div 2) \div 2 = n \div 4 /\ (k \div 2) \div 2 = k \div 4
      OBVIOUS
    <2>2. n \div 2 \in Int /\ k \div 2 \in Int
      OBVIOUS
    <2> QED  BY <1>6, <2>1, <2>2, LastBit
  <1> QED  BY <1>7, LastBit

\* The exclusive or of two numbers is a byte, and symmetric; for a given
\* operand, different bytes give different results.
LEMMA XorRange ==
  ASSUME NEW m \in Int, NEW n \in Int
  PROVE  xor(m, n) \in Int /\ 0 <= xor(m, n) /\ xor(m, n) <= 255
  BY DEF bit, xor

LEMMA XorSymmetric ==
  ASSUME NEW m \in Int, NEW n \in Int
  PROVE  xor(m, n) = xor(n, m)
  BY DEF bit, xor

LEMMA XorOneOne ==
  ASSUME NEW m \in Int, NEW n \in Int, 0 <= n, n <= 255, NEW k \in Int, 0 <= k, k <= 255,
         xor(m, n) = xor(m, k)
  PROVE  n = k
  <1>1. n % 2 = k % 2
    BY DEF bit, xor
  <1>2. (n \div 2) % 2 = (k \div 2) % 2
    BY DEF bit, xor
  <1>3. (n \div 4) % 2 = (k \div 4) % 2
    BY DEF bit, xor
  <1>4. (n \div 8) % 2 = (k \div 8) % 2
    BY DEF bit, xor
  <1>5. (n \div 16) % 2 = (k \div 16) % 2
    BY DEF bit, xor
  <1>6. (n \div 32) % 2 = (k \div 32) % 2
    BY DEF bit, xor
  <1>7. (n \div 64) % 2 = (k \div 64) % 2
    BY DEF bit, xor
  <1>8. (n \div 128) % 2 = (k \div 128) % 2
    BY DEF bit, xor
  <1> QED  BY <1>1, <1>2, <1>3, <1>4, <1>5, <1>6, <1>7, <1>8, ByteBits

\* A register is its high and its low byte.
LEMMA Halves ==
  ASSUME NEW c \in Word
  PROVE  /\ c \div 256 \in Int /\ 0 <= c \div 256 /\ c \div 256 <= 255
         /\ c % 256 \in Int /\ 0 <= c % 256 /\ c % 256 <= 255
         /\ c = 256 * (c \div 256) + (c % 256)
  <1>1. c \in Int /\ 0 <= c /\ c <= 65535
    BY WordRange
  <1> QED  BY <1>1

LEMMA Compose ==
  ASSUME NEW h \in Int, 0 <= h, h <= 255, NEW x \in Int, 0 <= x, x <= 255
  PROVE  256 * h + x \in Word /\ (256 * h + x) \div 256 = h /\ (256 * h + x) % 256 = x
  <1>1. 256 * h + x \in Int /\ 0 <= 256 * h + x /\ 256 * h + x <= 65535
    OBVIOUS
  <1> QED  BY <1>1, InWord

\* What enters the inner loop: the byte reaches the low byte of the register
\* alone.
LEMMA Entry ==
  ASSUME NEW c \in Word, NEW b \in Byte
  PROVE  LET u == 256 * (c \div 256) + xor(c % 256, b) IN
         /\ u \in Word /\ u \div 256 = c \div 256 /\ u % 256 = xor(c % 256, b)
         /\ feed(c, b) = shift8[u]
  <1> DEFINE h == c \div 256
             l == c % 256
             x == xor(l, b)
  <1>1. /\ h \in Int /\ 0 <= h /\ h <= 255 /\ l \in Int
    BY Halves
  <1>2. b \in Int
    BY DEF Byte
  <1> HIDE DEF h, l
  <1>3. x \in Int /\ 0 <= x /\ x <= 255
    BY <1>1, <1>2, XorRange
  <1> HIDE DEF x
  <1>4. 256 * h + x \in Word /\ (256 * h + x) \div 256 = h /\ (256 * h + x) % 256 = x
    BY ONLY <1>1, <1>3, Compose
  <1> QED  BY <1>4 DEF feed, h, l, x

\* A byte fed to a register makes a register.
LEMMA FeedWord ==
  ASSUME NEW c \in Word, NEW b \in Byte
  PROVE  feed(c, b) \in Word
  BY Entry, Shift8

\* Feeding a given byte can be undone.
LEMMA FeedRegister ==
  ASSUME NEW c \in Word, NEW d \in Word, NEW b \in Byte, feed(c, b) = feed(d, b)
  PROVE  c = d
  <1> DEFINE u == 256 * (c \div 256) + xor(c % 256, b)
             v == 256 * (d \div 256) + xor(d % 256, b)
  <1>1. /\ u \in Word /\ u \div 256 = c \div 256 /\ u % 256 = xor(c % 256, b)
        /\ feed(c, b) = shift8[u]
        /\ v \in Word /\ v \div 256 = d \div 256 /\ v % 256 = xor(d % 256, b)
        /\ feed(d, b) = shift8[v]
    BY Entry
  <1> HIDE DEF u, v
  <1>2. u = v
    BY <1>1, Shift8
  <1>3. c \div 256 = d \div 256 /\ xor(c % 256, b) = xor(d % 256, b)
    BY <1>1, <1>2
  <1>4. c % 256 = d % 256
    <2> DEFINE m == c % 256
               n == d % 256
    <2>1. /\ m \in Int /\ 0 <= m /\ m <= 255 /\ n \in Int /\ 0 <= n /\ n <= 255
          /\ xor(m, b) = xor(n, b)
      BY <1>3, Halves
    <2>2. b \in Int
      BY DEF Byte
    <2> HIDE DEF m, n
    <2>3. xor(b, m) = xor(b, n)
      BY <2>1, <2>2, XorSymmetric
    <2>4. m = n
      BY <2>1, <2>2, <2>3, XorOneOne
    <2> QED  BY <2>4 DEF m, n
  <1>5. /\ c = 256 * (c \div 256) + (c % 256)
        /\ d = 256 * (d \div 256) + (d % 256)
    BY Halves
  <1> QED  BY <1>3, <1>4, <1>5

\* Of the bytes fed to a given register, the high byte of the result tells
\* which it was.
LEMMA FeedByte ==
  ASSUME NEW c \in Word, NEW a \in Byte, NEW b \in Byte,
         feed(c, a) \div 256 = feed(c, b) \div 256
  PROVE  a = b
  <1> DEFINE u == 256 * (c \div 256) + xor(c % 256, a)
             v == 256 * (c \div 256) + xor(c % 256, b)
  <1>1. /\ u \in Word /\ u \div 256 = c \div 256 /\ u % 256 = xor(c % 256, a)
        /\ feed(c, a) = shift8[u]
        /\ v \in Word /\ v \div 256 = c \div 256 /\ v % 256 = xor(c % 256, b)
        /\ feed(c, b) = shift8[v]
    BY Entry
  <1> HIDE DEF u, v
  <1>2. Agree(256, u, v) /\ Agree(256, shift8[u], shift8[v])
    BY <1>1 DEF Agree
  <1>3. u = v
    BY <1>1, <1>2, Shift8
  <1>4. xor(c % 256, a) = xor(c % 256, b)
    BY <1>1, <1>3
  <1>5. c % 256 \in Int
    BY Halves
  <1>6. a \in Int /\ 0 <= a /\ a <= 255 /\ b \in Int /\ 0 <= b /\ b <= 255
    BY DEF Byte
  <1> QED  BY <1>4, <1>5, <1>6, XorOneOne

-----------------------------------------------------------------------------
(* Runs of bytes. *)

\* A set of natural numbers has a least element: the inductions below look
\* for the first step that goes wrong.
LEMMA Least ==
  ASSUME NEW T \in SUBSET Nat, T # {}
  PROVE  \E m \in T : \A k \in T : m <= k
  <1> DEFINE R == OpToRel(<, Nat)
  <1>1. IsWellFoundedOn(R, Nat)
    BY NatLessThanWellFounded
  <1>2. \A x, y \in Nat : x < y => <<x, y>> \in R
    BY DEF OpToRel
  <1> HIDE DEF R
  <1>3. PICK m \in T : \A k \in T : ~(<<k, m>> \in R)
    BY <1>1, WFMin
  <1>4. \A k \in T : ~(k < m)
    BY <1>2, <1>3
  <1> QED  BY <1>3, <1>4

\* The register after each byte of s from the (i + 1)th up to the nth.
Run(r, s, i, n) ==
  /\ r \in [i..n -> Word]
  /\ \A k \in (i + 1)..n : r[k] = feed(r[k - 1], s[k])

LEMMA RunExists ==
  ASSUME NEW s \in Seq(Byte), NEW c \in Word, NEW i \in Nat, i <= Len(s)
  PROVE  \E r : Run(r, s, i, Len(s)) /\ r[i] = c
  <1> DEFINE N == Len(s)
             T == {n \in i..N : \A r : Run(r, s, i, n) => r[i] # c}
  <1>1. N \in Nat /\ i <= N /\ \A k \in 1..N : s[k] \in Byte
    OBVIOUS
  <1> HIDE DEF N
  <1>2. SUFFICES ASSUME T # {} PROVE FALSE
    BY <1>1 DEF N
  <1>3. PICK m \in T : \A k \in T : m <= k
    <2>1. T \in SUBSET Nat
      BY <1>1
    <2> QED  BY <1>2, <2>1, Least
  <1>4. m \in Nat /\ i <= m /\ m <= N /\ \A r : Run(r, s, i, m) => r[i] # c
    BY <1>1, <1>3
  <1>5. CASE m = i
    <2> DEFINE r == [k \in i..m |-> c]
    <2>1. Run(r, s, i, m)
      BY <1>4, <1>5 DEF Run
    <2>2. r[i] = c
      BY <1>4
    <2> QED  BY <1>4, <2>1, <2>2
  <1>6. CASE m # i
    <2>1. m - 1 \in i..N /\ m - 1 \notin T
      BY <1>1, <1>3, <1>4, <1>6
    <2>2. PICK r : Run(r, s, i, m - 1) /\ r[i] = c
      BY <2>1
    <2> HIDE DEF T
    <2> DEFINE q == [k \in i..m |-> IF k = m THEN feed(r[m - 1], s[m]) ELSE r[k]]
    <2>3. \A k \in i..(m - 1) : r[k] \in Word
      BY <2>2 DEF Run
    <2>4. feed(r[m - 1], s[m]) \in Word
      <3>1. m - 1 \in i..(m - 1) /\ m \in 1..N
        BY <1>4, <1>6
      <3> QED  BY <1>1, <2>3, <3>1, FeedWord
    <2>5. q \in [i..m -> Word]
      BY <1>4, <2>3, <2>4
    <2>6. ASSUME NEW k \in (i + 1)..m PROVE q[k] = feed(q[k - 1], s[k])
      <3>1. k \in i..m /\ k - 1 \in i..m /\ k - 1 # m /\ q[k - 1] = r[k - 1]
        BY <1>4, <2>6
      <3>2. CASE k = m
        BY <3>1, <3>2
      <3>3. CASE k # m
        <4>1. k \in (i + 1)..(m - 1)
          BY <1>4, <2>6, <3>3
        <4>2. r[k] = feed(r[k - 1], s[k])
          BY <2>2, <4>1 DEF Run
        <4> QED  BY <3>1, <3>3, <4>2
      <3> QED  BY <3>2, <3>3
    <2>7. q[i] = c
      BY <1>4, <1>6, <2>2
    <2> HIDE DEF q
    <2>8. Run(q, s, i, m)
      BY <2>5, <2>6 DEF Run
    <2> QED  BY <1>4, <2>7, <2>8
  <1> QED  BY <1>5, <1>6

\* Two runs over the same bytes: equal registers stay equal, and registers
\* that differ stay different.
LEMMA RunsTogether ==
  ASSUME NEW s \in Seq(Byte), NEW t \in Seq(Byte), NEW n \in Nat, n <= Len(s), n <= Len(t),
         NEW i \in Nat, NEW j \in Nat, NEW m \in Nat, i <= m, j <= m,
         NEW r, NEW q, Run(r, s, i, n), Run(q, t, j, n),
         \A k \in (m + 1)..n : s[k] = t[k]
  PROVE  \A k \in m..n : r[k] = q[k] <=> r[m] = q[m]
  <1> DEFINE T == {k \in m..n : ~(r[k] = q[k] <=> r[m] = q[m])}
  <1>1. SUFFICES ASSUME T # {} PROVE FALSE
    OBVIOUS
  <1>2. PICK k \in T : \A l \in T : k <= l
    <2>1. T \in SUBSET Nat
      OBVIOUS
    <2> QED  BY <1>1, <2>1, Least
  <1>3. k \in Nat /\ m < k /\ k <= n /\ ~(r[k] = q[k] <=> r[m] = q[m])
    BY <1>2
  <1>4. r[k - 1] = q[k - 1] <=> r[m] = q[m]
    <2>1. k - 1 \in m..n /\ ~(k <= k - 1)
      BY <1>3
    <2>2. k - 1 \notin T
      BY <1>2, <2>1
    <2> QED  BY <2>1, <2>2
  <1> HIDE DEF T
  <1>5. /\ k \in (i + 1)..n /\ k \in (j + 1)..n /\ k \in (m + 1)..n
        /\ k - 1 \in i..n /\ k - 1 \in j..n /\ k \in 1..Len(s)
    BY <1>3
  <1>6. /\ r[k] = feed(r[k - 1], s[k]) /\ q[k] = feed(q[k - 1], t[k]) /\ s[k] = t[k]
        /\ r[k - 1] \in Word /\ q[k - 1] \in Word /\ s[k] \in Byte
    BY <1>5 DEF Run
  <1>7. r[k] = q[k] <=> r[k - 1] = q[k - 1]
    BY <1>6, FeedRegister
  <1> QED  BY <1>3, <1>4, <1>7

-----------------------------------------------------------------------------
(* The outer loop. *)

\* The middle of the bytes still to be fed.
LEMMA Halfway ==
  ASSUME NEW i \in Nat, NEW j \in Nat, i + 1 < j
  PROVE  /\ (i + j) \div 2 \in Nat /\ i < (i + j) \div 2 /\ (i + j) \div 2 < j
  OBVIOUS

\* How many bytes of s can have been fed.
Index(s) == 0..Len(s)

\* One unfolding of the outer loop.
Turn(f, s, x) ==
  IF x[3] <= x[2] THEN x[1]
  ELSE IF x[3] = x[2] + 1 THEN feed(x[1], s[x[3]])
  ELSE f[<<f[<<x[1], x[2], (x[2] + x[3]) \div 2>>], (x[2] + x[3]) \div 2, x[3]>>]

\* f is the function that the outer loop defines.
Loop(f, s) == f = [x \in Word \X Index(s) \X Index(s) |-> Turn(f, s, x)]

\* What the loop is to compute: the end of a run.
Ends(f, s) ==
  \A c \in Word : \A i, j \in Index(s) : \A r :
    i <= j /\ Run(r, s, i, j) /\ r[i] = c => f[<<c, i, j>>] = r[j]

\* A run in two parts.
LEMMA RunPart ==
  ASSUME NEW s \in Seq(Byte), NEW r, NEW i \in Nat, NEW j \in Nat, Run(r, s, i, j),
         NEW h \in Nat, i <= h, h <= j
  PROVE  /\ r[h] \in Word
         /\ Run([k \in i..h |-> r[k]], s, i, h)
         /\ Run([k \in h..j |-> r[k]], s, h, j)
  <1>1. \A k \in i..j : r[k] \in Word
    BY DEF Run
  <1>2. \A k \in (i + 1)..j : r[k] = feed(r[k - 1], s[k])
    BY DEF Run
  <1>3. Run([k \in i..h |-> r[k]], s, i, h)
    <2> DEFINE q == [k \in i..h |-> r[k]]
    <2>1. q \in [i..h -> Word]
      BY <1>1
    <2>2. ASSUME NEW k \in (i + 1)..h PROVE q[k] = feed(q[k - 1], s[k])
      <3>1. k \in i..h /\ k - 1 \in i..h /\ k \in (i + 1)..j
        OBVIOUS
      <3> QED  BY <1>2, <3>1
    <2> HIDE DEF q
    <2>3. Run(q, s, i, h)
      BY <2>1, <2>2 DEF Run
    <2> QED  BY <2>3 DEF q
  <1>4. Run([k \in h..j |-> r[k]], s, h, j)
    <2> DEFINE q == [k \in h..j |-> r[k]]
    <2>1. q \in [h..j -> Word]
      BY <1>1
    <2>2. ASSUME NEW k \in (h + 1)..j PROVE q[k] = feed(q[k - 1], s[k])
      <3>1. k \in h..j /\ k - 1 \in h..j /\ k \in (i + 1)..j
        OBVIOUS
      <3> QED  BY <1>2, <3>1
    <2> HIDE DEF q
    <2>3. Run(q, s, h, j)
      BY <2>1, <2>2 DEF Run
    <2> QED  BY <2>3 DEF q
  <1> QED  BY <1>1, <1>3, <1>4

\* One unfolding, case by case.
LEMMA LoopTurn ==
  ASSUME NEW f, NEW s \in Seq(Byte), Loop(f, s), NEW c \in Word, NEW i \in Index(s), NEW j \in Index(s)
  PROVE  /\ j <= i => f[<<c, i, j>>] = c
         /\ (~(j <= i) /\ j = i + 1) => f[<<c, i, j>>] = feed(c, s[j])
         /\ (~(j <= i) /\ j # i + 1) =>
              f[<<c, i, j>>] = f[<<f[<<c, i, (i + j) \div 2>>], (i + j) \div 2, j>>]
  <1> DEFINE x == <<c, i, j>>
  <1>1. x \in Word \X Index(s) \X Index(s) /\ x[1] = c /\ x[2] = i /\ x[3] = j
    OBVIOUS
  <1>2. f[x] = Turn(f, s, x)
    BY <1>1 DEF Loop
  <1> QED  BY <1>1, <1>2 DEF Turn

\* The loop ends where the run ends: by induction on the number of bytes.
LEMMA LoopEnds ==
  ASSUME NEW s \in Seq(Byte), NEW f, Loop(f, s)
  PROVE  Ends(f, s)
  <1> DEFINE Good(c, i, j) == \A r : Run(r, s, i, j) /\ r[i] = c => f[<<c, i, j>>] = r[j]
             T == {d \in Nat : \E c \in Word : \E i, j \in Index(s) : j = i + d /\ ~Good(c, i, j)}
  <1>1. Len(s) \in Nat /\ \A i \in Index(s) : i \in Nat /\ i <= Len(s)
    BY DEF Index
  <1>2. CASE T = {}
    <2>1. ASSUME NEW c \in Word, NEW i \in Index(s), NEW j \in Index(s), i <= j PROVE Good(c, i, j)
      <3>1. j - i \in Nat /\ j = i + (j - i)
        BY <1>1, <2>1
      <3> QED  BY <1>2, <3>1
    <2> QED  BY <2>1 DEF Ends
  <1>3. CASE T # {}
    <2>1. PICK d \in T : \A k \in T : d <= k
      <3>1. T \in SUBSET Nat
        OBVIOUS
      <3> QED  BY <1>3, <3>1, Least
    <2>2. d \in Nat
      BY <2>1
    <2>3. PICK c \in Word, i \in Index(s), j \in Index(s) : j = i + d /\ ~Good(c, i, j)
      BY <2>1
    <2>4. \A e \in Nat : e < d => e \notin T
      <3>1. \A k \in T : ~(k < d)
        <4>1. \A k \in T : k \in Nat
          OBVIOUS
        <4> HIDE DEF T
        <4> QED  BY <2>1, <2>2, <4>1
      <3> HIDE DEF T
      <3> QED  BY <3>1
    <2>5. ASSUME NEW b \in Word, NEW k \in Index(s), NEW l \in Index(s), k <= l, l - k < d
          PROVE  Good(b, k, l)
      <3>1. l - k \in Nat /\ l = k + (l - k)
        BY <1>1, <2>5
      <3>2. l - k \notin T
        BY <2>4, <2>5, <3>1
      <3> HIDE DEF Good
      <3> QED  BY <3>1, <3>2
    <2> HIDE DEF T
    <2>6. PICK r : Run(r, s, i, j) /\ r[i] = c /\ f[<<c, i, j>>] # r[j]
      BY <2>3
    <2> HIDE DEF Good
    <2>7. i \in Nat /\ j \in Nat /\ i <= j /\ j <= Len(s)
      BY <1>1, <2>2, <2>3
    <2>12. /\ j <= i => f[<<c, i, j>>] = c
           /\ (~(j <= i) /\ j = i + 1) => f[<<c, i, j>>] = feed(c, s[j])
           /\ (~(j <= i) /\ j # i + 1) =>
                f[<<c, i, j>>] = f[<<f[<<c, i, (i + j) \div 2>>], (i + j) \div 2, j>>]
      BY LoopTurn
    <2>8. CASE d = 0
      <3>1. j = i /\ j <= i
        BY <2>3, <2>7, <2>8
      <3>2. f[<<c, i, j>>] = c
        BY <3>1, <2>12
      <3> QED  BY <2>6, <3>1, <3>2
    <2>9. CASE d = 1
      <3>1. j = i + 1 /\ ~(j <= i) /\ j \in (i + 1)..j /\ j - 1 = i
        BY <2>3, <2>7, <2>9
      <3>2. r[j] = feed(r[j - 1], s[j])
        BY <2>6, <3>1 DEF Run
      <3>3. f[<<c, i, j>>] = feed(c, s[j])
        BY <3>1, <2>12
      <3> QED  BY <2>6, <3>1, <3>2, <3>3
    <2>10. CASE d # 0 /\ d # 1
      <3> DEFINE h == (i + j) \div 2
                 p == [k \in i..h |-> r[k]]
                 q == [k \in h..j |-> r[k]]
      <3>1. i + 1 < j
        BY <2>2, <2>3, <2>7, <2>10
      <3>2. h \in Nat /\ i < h /\ h < j
        BY <2>7, <3>1, Halfway
      <3>3. f[<<c, i, j>>] = f[<<f[<<c, i, h>>], h, j>>]
        <4>1. ~(j <= i) /\ j # i + 1
          BY <2>7, <3>1
        <4> QED  BY <4>1, <2>12
      <3> HIDE DEF h
      <3>4. h \in Index(s) /\ i <= h /\ h <= j /\ h - i < d /\ j - h < d
        BY <2>2, <2>3, <2>7, <3>2, <1>1 DEF Index
      <3>5. r[h] \in Word /\ Run(p, s, i, h) /\ Run(q, s, h, j)
        BY <2>6, <2>7, <3>2, <3>4, RunPart
      <3>6. p[i] = c /\ p[h] = r[h] /\ q[h] = r[h] /\ q[j] = r[j]
        BY <2>6, <2>7, <3>2
      <3> HIDE DEF p, q
      <3>7. f[<<c, i, h>>] = r[h]
        <4>1. Good(c, i, h)
          BY <2>5, <3>4
        <4> QED  BY <3>5, <3>6, <4>1 DEF Good
      <3>8. f[<<r[h], h, j>>] = r[j]
        <4>1. Good(r[h], h, j)
          BY <2>5, <3>4, <3>5
        <4> QED  BY <3>5, <3>6, <4>1 DEF Good
      <3> QED  BY <2>6, <3>3, <3>7, <3>8
    <2> QED  BY <2>8, <2>9, <2>10
  <1> QED  BY <1>2, <1>3

\* The run over the bytes of s after the ith that starts with the register c.
Path(s, c, i) == CHOOSE r : Run(r, s, i, Len(s)) /\ r[i] = c

\* It is one, and taking it up halfway makes no difference.
LEMMA PathRuns ==
  ASSUME NEW s \in Seq(Byte), NEW c \in Word, NEW i \in Index(s)
  PROVE  /\ Run(Path(s, c, i), s, i, Len(s)) /\ Path(s, c, i)[i] = c
         /\ \A j \in i..Len(s) : Path(s, c, i)[j] \in Word
  <1>1. i \in Nat /\ i <= Len(s)
    BY DEF Index
  <1>2. \E r : Run(r, s, i, Len(s)) /\ r[i] = c
    BY <1>1, RunExists
  <1>3. Run(Path(s, c, i), s, i, Len(s)) /\ Path(s, c, i)[i] = c
    BY <1>2 DEF Path
  <1> QED  BY <1>3 DEF Run

LEMMA PathResumed ==
  ASSUME NEW s \in Seq(Byte), NEW c \in Word, NEW i \in Index(s), NEW h \in Index(s), i <= h
  PROVE  \A j \in h..Len(s) : Path(s, Path(s, c, i)[h], h)[j] = Path(s, c, i)[j]
  <1> DEFINE r == Path(s, c, i)
             q == Path(s, r[h], h)
             n == Len(s)
  <1>1. i \in Nat /\ h \in Nat /\ n \in Nat /\ h <= n /\ h \in i..n /\ h <= h
    BY DEF Index
  <1>2. Run(r, s, i, n) /\ r[h] \in Word
    BY <1>1, PathRuns
  <1>3. Run(q, s, h, n) /\ q[h] = r[h]
    BY <1>2, PathRuns
  <1>4. n <= Len(s) /\ \A k \in (h + 1)..n : s[k] = s[k]
    BY <1>1
  <1> HIDE DEF r, q, n
  <1>5. \A k \in h..n : q[k] = r[k] <=> q[h] = r[h]
    BY <1>1, <1>2, <1>3, <1>4, RunsTogether
  <1>6. \A k \in h..n : q[k] = r[k]
    BY <1>3, <1>5
  <1> QED  BY <1>6 DEF r, q, n

\* There is such a function, and register(s) is it.
LEMMA LoopExists ==
  ASSUME NEW s \in Seq(Byte)
  PROVE  \E f : Loop(f, s)
  <1> DEFINE S == Word \X Index(s) \X Index(s)
             F == [x \in S |-> IF x[3] <= x[2] THEN x[1] ELSE Path(s, x[1], x[2])[x[3]]]
  <1>1. ASSUME NEW c \in Word, NEW i \in Index(s), NEW j \in Index(s)
        PROVE  /\ j <= i => F[<<c, i, j>>] = c
               /\ ~(j <= i) => F[<<c, i, j>>] = Path(s, c, i)[j]
    OBVIOUS
  <1>2. ASSUME NEW x \in S PROVE F[x] = Turn(F, s, x)
    <2>1. PICK c \in Word, i \in Index(s), j \in Index(s) : x = <<c, i, j>>
      BY <1>2
    <2>2. x[1] = c /\ x[2] = i /\ x[3] = j
      BY <2>1
    <2>3. i \in Nat /\ j \in Nat /\ i <= Len(s) /\ j <= Len(s) /\ Len(s) \in Nat
      BY DEF Index
    <2> HIDE DEF F
    <2>4. CASE j <= i
      BY <1>1, <2>1, <2>2, <2>4 DEF Turn
    <2>5. CASE ~(j <= i) /\ j = i + 1
      <3>1. j \in (i + 1)..Len(s) /\ j - 1 = i
        BY <2>3, <2>5
      <3>2. Path(s, c, i)[j] = feed(Path(s, c, i)[j - 1], s[j])
        BY <3>1, PathRuns DEF Run
      <3>3. Path(s, c, i)[j] = feed(c, s[j])
        BY <3>1, <3>2, PathRuns
      <3>4. F[x] = feed(c, s[j])
        BY <1>1, <2>1, <2>5, <3>3
      <3>5. Turn(F, s, x) = feed(c, s[j])
        BY <2>2, <2>5 DEF Turn
      <3> QED  BY <3>4, <3>5
    <2>6. CASE ~(j <= i) /\ j # i + 1
      <3> DEFINE h == (i + j) \div 2
      <3>1. h \in Nat /\ i < h /\ h < j
        BY <2>3, <2>6, Halfway
      <3>2. Turn(F, s, x) = F[<<F[<<c, i, h>>], h, j>>]
        BY <2>2, <2>6 DEF Turn
      <3> HIDE DEF h
      <3>3. h \in Index(s) /\ ~(h <= i) /\ ~(j <= h) /\ i <= h /\ h \in i..Len(s) /\ j \in h..Len(s)
        BY <2>3, <3>1 DEF Index
      <3>4. F[<<c, i, h>>] = Path(s, c, i)[h] /\ Path(s, c, i)[h] \in Word
        BY <1>1, <3>3, PathRuns
      <3>5. F[<<Path(s, c, i)[h], h, j>>] = Path(s, Path(s, c, i)[h], h)[j]
        BY <1>1, <3>3, <3>4
      <3>6. Path(s, Path(s, c, i)[h], h)[j] = Path(s, c, i)[j]
        BY <3>3, PathResumed
      <3>7. F[x] = Path(s, c, i)[j]
        BY <1>1, <2>1, <2>6
      <3> QED  BY <3>2, <3>4, <3>5, <3>6, <3>7
    <2> QED  BY <2>4, <2>5, <2>6
  <1>3. F = [x \in S |-> F[x]]
    OBVIOUS
  <1> HIDE DEF F
  <1>4. F = [x \in S |-> Turn(F, s, x)]
    BY <1>2, <1>3
  <1>5. Loop(F, s)
    BY <1>4 DEF Loop
  <1> QED  BY <1>5

LEMMA RegisterLoops ==
  ASSUME NEW s \in Seq(Byte)
  PROVE  Loop(register(s), s)
  <1>1. register(s) = CHOOSE f : Loop(f, s)
    BY DEF register, Loop, Turn, Index
  <1>2. \E f : Loop(f, s)
    BY LoopExists
  <1>3. Loop(CHOOSE f : Loop(f, s), s)
    BY <1>2
  <1> QED  BY <1>1, <1>3

-----------------------------------------------------------------------------
(* The CRC of a body. *)

\* Two bytes in a row leave no two registers equal unless they are equal.
LEMMA FeedTwo ==
  ASSUME NEW c \in Word, NEW a \in Byte, NEW b \in Byte, NEW d \in Byte, NEW e \in Byte,
         feed(feed(c, a), b) = feed(feed(c, d), e)
  PROVE  a = d /\ b = e
  <1> DEFINE x == feed(c, a)
             y == feed(c, d)
  <1>1. x \in Word /\ y \in Word
    BY FeedWord
  <1>2. x \div 256 = y \div 256
    <2> HIDE DEF x, y
    <2> DEFINE u == 256 * (x \div 256) + xor(x % 256, b)
               v == 256 * (y \div 256) + xor(y % 256, e)
    <2>1. /\ u \in Word /\ u \div 256 = x \div 256 /\ feed(x, b) = shift8[u]
          /\ v \in Word /\ v \div 256 = y \div 256 /\ feed(y, e) = shift8[v]
      BY <1>1, Entry
    <2>2. feed(x, b) = feed(y, e)
      BY DEF x, y
    <2> HIDE DEF u, v
    <2>3. u = v
      BY <2>1, <2>2, Shift8
    <2> QED  BY <2>1, <2>3
  <1>3. a = d
    BY <1>2, FeedByte
  <1>4. b = e
    <2>1. feed(x, b) = feed(x, e)
      BY <1>3
    <2> HIDE DEF x
    <2>2. feed(x, b) \div 256 = feed(x, e) \div 256
      BY <2>1
    <2> QED  BY <1>1, <2>2, FeedByte
  <1> QED  BY <1>3, <1>4

\* The CRC is the end of a run that starts at 0xFFFF.
LEMMA CrcRun ==
  ASSUME NEW s \in Seq(Byte), NEW n, Len(s) = n
  PROVE  \E r : /\ Run(r, s, 0, n) /\ r[0] = 65535 /\ r[n] \in Word
                /\ crc(s) = to_le_bytes(r[n])
  <1> DEFINE c == 65535
             f == register(s)
  <1>1. c \in Word
    BY InWord
  <1>2. n \in Nat /\ 0 \in Index(s) /\ n \in Index(s) /\ 0 <= n /\ n = Len(s)
    BY DEF Index
  <1>3. Ends(f, s)
    BY RegisterLoops, LoopEnds
  <1>4. crc(s) = to_le_bytes(f[<<c, 0, n>>])
    BY DEF crc
  <1>5. c = 65535
    OBVIOUS
  <1> HIDE DEF c, f
  <1>6. PICK r : Run(r, s, 0, n) /\ r[0] = c
    BY <1>1, <1>2, RunExists
  <1>7. f[<<c, 0, n>>] = r[n]
    BY <1>1, <1>2, <1>3, <1>6 DEF Ends
  <1>8. r[n] \in Word
    BY <1>2, <1>6 DEF Run
  <1>9. Run(r, s, 0, n) /\ r[0] = 65535 /\ r[n] \in Word /\ crc(s) = to_le_bytes(r[n])
    BY <1>4, <1>5, <1>6, <1>7, <1>8
  <1> QED  BY <1>9

\* The register as two bytes.
LEMMA TwoOf ==
  ASSUME NEW c \in Word
  PROVE  /\ to_le_bytes(c) \in Seq(Byte) /\ Len(to_le_bytes(c)) = 2
         /\ to_le_bytes(c)[1] = c % 256 /\ to_le_bytes(c)[2] = c \div 256
  <1> DEFINE l == c % 256
             h == c \div 256
  <1>1. l \in Byte /\ h \in Byte
    <2>1. l \in Int /\ 0 <= l /\ l <= 255 /\ h \in Int /\ 0 <= h /\ h <= 255
      BY Halves
    <2> HIDE DEF l, h
    <2> QED  BY <2>1 DEF Byte
  <1>2. to_le_bytes(c) = <<l, h>>
    BY DEF to_le_bytes
  <1> HIDE DEF l, h
  <1>3. <<l, h>> \in Seq(Byte) /\ Len(<<l, h>>) = 2 /\ <<l, h>>[1] = l /\ <<l, h>>[2] = h
    BY <1>1
  <1> QED  BY <1>2, <1>3 DEF l, h

\* What frame::crc returns: [u8; 2].
THEOREM TwoBytes == \A s \in Seq(Byte) : crc(s) \in Seq(Byte) /\ Len(crc(s)) = 2
  <1> TAKE s \in Seq(Byte)
  <1> DEFINE n == Len(s)
  <1>1. PICK r : r[n] \in Word /\ crc(s) = to_le_bytes(r[n])
    BY CrcRun
  <1> DEFINE c == r[n]
  <1>2. c \in Word /\ crc(s) = to_le_bytes(c)
    BY <1>1
  <1> HIDE DEF c
  <1> QED  BY <1>2, TwoOf

\* In particular, two runs from the same place.
LEMMA RunsAlike ==
  ASSUME NEW s \in Seq(Byte), NEW t \in Seq(Byte), NEW n \in Nat, n <= Len(s), n <= Len(t),
         NEW i \in Nat, NEW r, NEW q, Run(r, s, i, n), Run(q, t, i, n),
         \A k \in (i + 1)..n : s[k] = t[k]
  PROVE  \A k \in i..n : r[k] = q[k] <=> r[i] = q[i]
  <1>1. i <= i
    OBVIOUS
  <1> QED  BY <1>1, RunsTogether

\* Two runs over the same bytes up to the hth have the same register there.
LEMMA SamePrefix ==
  ASSUME NEW s \in Seq(Byte), NEW t \in Seq(Byte), NEW n \in Nat, n <= Len(s), n <= Len(t),
         NEW r, NEW q, Run(r, s, 0, n), Run(q, t, 0, n), r[0] = q[0],
         NEW h \in Nat, h <= n, \A k \in 1..h : s[k] = t[k]
  PROVE  r[h] = q[h]
  <1> DEFINE x == [k \in 0..h |-> r[k]]
             y == [k \in 0..h |-> q[k]]
             z == 0
  <1>1. z \in Nat /\ z <= h /\ z <= z /\ Run(r, s, z, n) /\ Run(q, t, z, n)
    OBVIOUS
  <1>2. x[z] = y[z] /\ x[h] = r[h] /\ y[h] = q[h]
    OBVIOUS
  <1>3. \A k \in (z + 1)..h : s[k] = t[k]
    OBVIOUS
  <1>4. h <= Len(s) /\ h <= Len(t)
    OBVIOUS
  <1>5. x = [k \in z..h |-> r[k]] /\ y = [k \in z..h |-> q[k]]
    OBVIOUS
  <1> HIDE DEF x, y, z
  <1>6. Run(x, s, z, h) /\ Run(y, t, z, h)
    <2>1. Run([k \in z..h |-> r[k]], s, z, h)
      BY <1>1, RunPart
    <2>2. Run([k \in z..h |-> q[k]], t, z, h)
      BY <1>1, RunPart
    <2> QED  BY <1>5, <2>1, <2>2
  <1>7. \A k \in z..h : x[k] = y[k] <=> x[z] = y[z]
    BY ONLY <1>1, <1>3, <1>4, <1>6, RunsAlike, s \in Seq(Byte), t \in Seq(Byte), h \in Nat
  <1> QED  BY <1>1, <1>2, <1>7

\* A step of a run.
LEMMA RunStep ==
  ASSUME NEW s \in Seq(Byte), NEW n \in Nat, n <= Len(s), NEW r, Run(r, s, 0, n),
         NEW k \in Nat, 1 <= k, k <= n
  PROVE  /\ r[k - 1] \in Word /\ r[k] \in Word /\ s[k] \in Byte
         /\ r[k] = feed(r[k - 1], s[k])
  <1>1. k - 1 \in 0..n /\ k \in 0..n /\ k \in (0 + 1)..n /\ k \in 1..Len(s)
    OBVIOUS
  <1>2. s[k] \in Byte
    BY <1>1
  <1>3. r[k - 1] \in Word /\ r[k] \in Word /\ r[k] = feed(r[k - 1], s[k])
    BY <1>1 DEF Run
  <1> QED  BY <1>2, <1>3

\* Two runs that end alike, over bytes that differ in two neighbours at most.
LEMMA RunBurst ==
  ASSUME NEW s \in Seq(Byte), NEW t \in Seq(Byte), NEW n \in Nat, n <= Len(s), n <= Len(t),
         NEW r, NEW q, Run(r, s, 0, n), Run(q, t, 0, n), r[0] = q[0], r[n] = q[n],
         NEW k \in Nat, 1 <= k, k < n,
         \A i \in 1..n : i # k /\ i # k + 1 => s[i] = t[i]
  PROVE  s[k] = t[k] /\ s[k + 1] = t[k + 1]
  <1> DEFINE h == k - 1
             m == k + 1
  <1>1. h \in Nat /\ m \in Nat /\ h <= n /\ m <= n /\ 0 <= m /\ 0 \in Nat
    OBVIOUS
  <1>2. r[h] = q[h]
    <2>1. \A i \in 1..h : s[i] = t[i]
      OBVIOUS
    <2> HIDE DEF h
    <2> QED  BY <1>1, <2>1, SamePrefix
  <1>3. r[m] = q[m]
    <2>1. \A i \in (m + 1)..n : s[i] = t[i]
      OBVIOUS
    <2> HIDE DEF m
    <2>2. \A i \in m..n : r[i] = q[i] <=> r[m] = q[m]
      BY <1>1, <2>1, RunsTogether
    <2> QED  BY <1>1, <2>2
  <1>4. /\ r[h] \in Word /\ s[k] \in Byte /\ r[k] = feed(r[h], s[k])
        /\ t[k] \in Byte /\ q[k] = feed(q[h], t[k])
    BY RunStep
  <1>5. /\ s[m] \in Byte /\ r[m] = feed(r[k], s[m])
        /\ t[m] \in Byte /\ q[m] = feed(q[k], t[m])
    <2>1. m - 1 = k /\ 1 <= m
      OBVIOUS
    <2> HIDE DEF m
    <2>2. /\ s[m] \in Byte /\ r[m] = feed(r[m - 1], s[m])
          /\ t[m] \in Byte /\ q[m] = feed(q[m - 1], t[m])
      BY <1>1, <2>1, RunStep
    <2> QED  BY <2>1, <2>2
  <1> HIDE DEF h, m
  <1>6. feed(feed(r[h], s[k]), s[m]) = feed(feed(r[h], t[k]), t[m])
    BY <1>2, <1>3, <1>4, <1>5
  <1>7. s[k] = t[k] /\ s[m] = t[m]
    BY <1>4, <1>5, <1>6, FeedTwo
  <1> QED  BY <1>7 DEF m

\* Two runs over bytes that differ in the last at most, which end in the same
\* high byte.
LEMMA RunEdge ==
  ASSUME NEW s \in Seq(Byte), NEW t \in Seq(Byte), NEW n \in Nat, n <= Len(s), n <= Len(t),
         NEW r, NEW q, Run(r, s, 0, n), Run(q, t, 0, n), r[0] = q[0],
         r[n] \div 256 = q[n] \div 256,
         1 <= n, \A i \in 1..n : i # n => s[i] = t[i]
  PROVE  s[n] = t[n]
  <1> DEFINE h == n - 1
  <1>1. h \in Nat /\ h <= n /\ n <= n
    OBVIOUS
  <1>2. r[h] = q[h]
    <2>1. \A i \in 1..h : s[i] = t[i]
      OBVIOUS
    <2> HIDE DEF h
    <2> QED  BY <1>1, <2>1, SamePrefix
  <1>3. /\ r[h] \in Word /\ s[n] \in Byte /\ r[n] = feed(r[h], s[n])
        /\ t[n] \in Byte /\ q[n] = feed(q[h], t[n])
    BY <1>1, RunStep
  <1> HIDE DEF h
  <1>4. feed(r[h], s[n]) \div 256 = feed(r[h], t[n]) \div 256
    BY <1>2, <1>3
  <1> QED  BY <1>3, <1>4, FeedByte

\* The CRCs of two bodies of the same length, by runs that start alike.
LEMMA TwoRuns ==
  ASSUME NEW s \in Seq(Byte), NEW t \in Seq(Byte), NEW n, Len(s) = n, Len(t) = n
  PROVE  \E r, q : /\ Run(r, s, 0, n) /\ Run(q, t, 0, n) /\ r[0] = q[0]
                   /\ crc(s) = crc(t) => r[n] = q[n]
                   /\ crc(s)[2] = crc(t)[2] => r[n] \div 256 = q[n] \div 256
  <1>1. PICK r : /\ Run(r, s, 0, n) /\ r[0] = 65535 /\ r[n] \in Word
                 /\ crc(s) = to_le_bytes(r[n])
    BY CrcRun
  <1>2. PICK q : /\ Run(q, t, 0, n) /\ q[0] = 65535 /\ q[n] \in Word
                 /\ crc(t) = to_le_bytes(q[n])
    BY CrcRun
  <1> DEFINE c == r[n]
             d == q[n]
  <1>3. c \in Word /\ d \in Word /\ crc(s) = to_le_bytes(c) /\ crc(t) = to_le_bytes(d)
    BY <1>1, <1>2
  <1>4. Run(r, s, 0, n) /\ Run(q, t, 0, n) /\ r[0] = q[0]
    BY <1>1, <1>2
  <1> HIDE DEF c, d
  <1>5. /\ crc(s)[1] = c % 256 /\ crc(s)[2] = c \div 256
        /\ crc(t)[1] = d % 256 /\ crc(t)[2] = d \div 256
    BY <1>3, TwoOf
  <1>6. /\ c = 256 * (c \div 256) + (c % 256)
        /\ d = 256 * (d \div 256) + (d % 256)
    BY <1>3, Halves
  <1>7. /\ crc(s) = crc(t) => c = d
        /\ crc(s)[2] = crc(t)[2] => c \div 256 = d \div 256
    BY <1>5, <1>6
  <1>8. /\ crc(s) = crc(t) => r[n] = q[n]
        /\ crc(s)[2] = crc(t)[2] => r[n] \div 256 = q[n] \div 256
    BY <1>7 DEF c, d
  <1> QED  BY <1>4, <1>8, Zenon

\* Bodies that differ in two bytes next to each other, at most, and have the
\* same CRC are the same.
LEMMA BodyBurst ==
  ASSUME NEW s \in Seq(Byte), NEW t \in Seq(Byte), Len(s) = Len(t),
         NEW k \in Nat, 1 <= k, k < Len(s),
         \A i \in 1..Len(s) : i # k /\ i # k + 1 => s[i] = t[i],
         crc(s) = crc(t)
  PROVE  s[k] = t[k] /\ s[k + 1] = t[k + 1]
  <1> DEFINE n == Len(s)
  <1>1. n \in Nat /\ n <= Len(s) /\ n <= Len(t) /\ k < n
    OBVIOUS
  <1>2. \A i \in 1..n : i # k /\ i # k + 1 => s[i] = t[i]
    OBVIOUS
  <1>3. PICK r, q : Run(r, s, 0, n) /\ Run(q, t, 0, n) /\ r[0] = q[0] /\ r[n] = q[n]
    <2>1. Len(s) = n /\ Len(t) = n
      OBVIOUS
    <2> HIDE DEF n
    <2>2. \E r, q : /\ Run(r, s, 0, n) /\ Run(q, t, 0, n) /\ r[0] = q[0]
                    /\ crc(s) = crc(t) => r[n] = q[n]
                    /\ crc(s)[2] = crc(t)[2] => r[n] \div 256 = q[n] \div 256
      BY ONLY <2>1, TwoRuns, s \in Seq(Byte), t \in Seq(Byte)
    <2> QED  BY <2>2, Zenon
  <1> HIDE DEF n
  <1> QED  BY <1>1, <1>2, <1>3, RunBurst

\* Bodies that differ in their last byte, at most, and have the same second
\* check byte are the same.
LEMMA EdgeBurst ==
  ASSUME NEW s \in Seq(Byte), NEW t \in Seq(Byte), Len(s) = Len(t), 1 <= Len(s),
         \A i \in 1..Len(s) : i # Len(s) => s[i] = t[i],
         crc(s)[2] = crc(t)[2]
  PROVE  s[Len(s)] = t[Len(s)]
  <1> DEFINE n == Len(s)
  <1>1. n \in Nat /\ n <= Len(s) /\ n <= Len(t) /\ 1 <= n
    OBVIOUS
  <1>2. \A i \in 1..n : i # n => s[i] = t[i]
    OBVIOUS
  <1>3. PICK r, q : /\ Run(r, s, 0, n) /\ Run(q, t, 0, n) /\ r[0] = q[0]
                    /\ r[n] \div 256 = q[n] \div 256
    <2>1. Len(s) = n /\ Len(t) = n
      OBVIOUS
    <2> HIDE DEF n
    <2>2. \E r, q : /\ Run(r, s, 0, n) /\ Run(q, t, 0, n) /\ r[0] = q[0]
                    /\ crc(s) = crc(t) => r[n] = q[n]
                    /\ crc(s)[2] = crc(t)[2] => r[n] \div 256 = q[n] \div 256
      BY ONLY <2>1, TwoRuns, s \in Seq(Byte), t \in Seq(Byte)
    <2> QED  BY <2>2, Zenon
  <1>4. s[n] = t[n]
    <2> HIDE DEF n
    <2> QED  BY <1>1, <1>2, <1>3, RunEdge
  <1> QED  BY <1>4
=============================================================================
