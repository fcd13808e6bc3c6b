-------------------------------- MODULE Crc16 --------------------------------
(***************************************************************************)
(* The CRC-16 of frame::crc, bit by bit as the code computes it.  The      *)
(* exclusive or is written as arithmetic and the loops as functions, so    *)
(* that the CRC can be proved about.                                       *)
(***************************************************************************)
EXTENDS Integers, Sequences

Byte == 0..255
Word == 0..65535

\* A number with one bit flipped, and the exclusive or of two bytes.
flip(n, w)   == IF (n \div w) % 2 = 0 THEN n + w ELSE n - w
bit(m, n, w) == IF (m \div w) % 2 = (n \div w) % 2 THEN 0 ELSE w
xor(m, n)    == bit(m, n, 1) + bit(m, n, 2) + bit(m, n, 4) + bit(m, n, 8)
                + bit(m, n, 16) + bit(m, n, 32) + bit(m, n, 64) + bit(m, n, 128)

\* One turn of the inner loop: 0xA001 has the bits 15, 13 and 0.
shift(c) == IF c % 2 = 0 THEN c \div 2 ELSE flip(flip(flip(c \div 2, 32768), 8192), 1)

\* The inner loop, for every value of the register.
shift8 == [c \in Word |-> shift(shift(shift(shift(shift(shift(shift(shift(c))))))))]

\* crc ^= byte, which reaches the low byte of the register alone, and the
\* inner loop.
feed(c, byte) == shift8[256 * (c \div 256) + xor(c % 256, byte)]

\* The outer loop: the register that holds x[1] once the bytes after the
\* x[2]th up to the x[3]th are fed to it, the first half before the second.
register(data) ==
  LET Index == 0..Len(data)
      reg[x \in Word \X Index \X Index] ==
        IF x[3] <= x[2] THEN x[1]
        ELSE IF x[3] = x[2] + 1 THEN feed(x[1], data[x[3]])
        ELSE reg[<<reg[<<x[1], x[2], (x[2] + x[3]) \div 2>>], (x[2] + x[3]) \div 2, x[3]>>]
  IN  reg

to_le_bytes(c) == <<c % 256, c \div 256>>

\* Mutant: the address is not covered.
crc_no_address(data) == to_le_bytes(register(data)[<<65535, 1, Len(data)>>])

crc(data) == to_le_bytes(register(data)[<<65535, 0, Len(data)>>])
=============================================================================
