------------------------------- MODULE LlpCrc -------------------------------
(***************************************************************************)
(* The checksum of the link, CRC16-CCITT (llp_crc16_update): the value the *)
(* configurations give the constant CrcUpdate of LlpFrame.                 *)
(***************************************************************************)
EXTENDS Integers, Bitwise

(* One shift of the 16-bit register, and the eight a byte goes through.    *)
crc16_shift(crc) ==
  IF crc >= 32768 THEN ((2 * crc) % 65536) ^^ 4129 ELSE 2 * crc
crc16_shifts[crc \in 0 .. 65535, n \in 0 .. 8] ==
  IF n = 0 THEN crc ELSE crc16_shifts[crc16_shift(crc), n - 1]

(* Both are linear over exclusive or, so the low half of the register only *)
(* moves up and the high half and the byte decide the rest: two tables.    *)
ByteXor == [a \in 0 .. 255 |-> [b \in 0 .. 255 |-> a ^^ b]]
Shifted == [b \in 0 .. 255 |-> crc16_shifts[256 * b, 8]]
crc16_update(crc, byte) ==
  LET t == Shifted[ByteXor[crc \div 256][byte]]
  IN 256 * ByteXor[crc % 256][t \div 256] + (t % 256)

=============================================================================
