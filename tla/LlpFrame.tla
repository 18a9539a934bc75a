------------------------------ MODULE LlpFrame ------------------------------
(***************************************************************************)
(* The wire format of the Layered Link Protocol (llp_protocol.h): frames,  *)
(* byte stuffing and the layer chain inside a payload.  Bytes are numbers; *)
(* the checksum is the constant operator CrcUpdate, so that what is proved *)
(* holds for any checksum.                                                 *)
(***************************************************************************)
EXTENDS Integers, Sequences, SequencesExt

CONSTANTS
  CrcUpdate(_, _), \* one step of the checksum: register, byte
  MaxPayload       \* LLP_MAX_PAYLOAD

ByteMax == 255
WordMax == 65535
Byte == 0 .. ByteMax
Word == 0 .. WordMax

ASSUME MaxPayloadAssumption == MaxPayload \in Nat

Magic1 == 170
Magic2 == 85
HeaderCrc == CrcUpdate(CrcUpdate(65535, Magic1), Magic2)

-----------------------------------------------------------------------------
(* Building a frame.                                                       *)

write_stuffed(b) == IF b = Magic1 THEN <<Magic1, 0>> ELSE <<b>>

(* LEN, PAYLOAD and CRC are stuffed; the magic bytes are not.              *)
build_frame(payload) ==
  LET body == <<Len(payload) % 256, Len(payload) \div 256>> \o payload
      crc == FoldLeft(CrcUpdate, HeaderCrc, body)
      plain == body \o <<crc % 256, crc \div 256>>
  IN <<Magic1, Magic2>> \o FlattenSeq([i \in DOMAIN plain |-> write_stuffed(plain[i])])

-----------------------------------------------------------------------------
(* The layer chain: where the application's data begins in a payload, as a *)
(* 0-based offset, or NoData.  Offsets are 16-bit sums.                    *)
NoData == -1
IsTransform(id) == id \in 128 .. 254

data_offset(buf) ==
  LET total == Len(buf)
      at(i) == buf[i + 1]
      lenBytes(i) == IF i >= total THEN 0
                     ELSE IF at(i) < 255 THEN 1
                     ELSE IF i + 3 > total THEN 0 ELSE 3
      metaLen(i) == IF at(i) < 255 THEN at(i) ELSE 256 * at(i + 1) + at(i + 2)
      end(i) == (i + lenBytes(i) + metaLen(i)) % 65536
      from[i \in 0 .. total] ==
        IF i = total THEN NoData
        ELSE IF at(i) = 0 THEN i + 1
        ELSE IF lenBytes(i + 1) = 0 \/ end(i + 1) > total \/ IsTransform(at(i))
          THEN NoData
          ELSE from[end(i + 1)]
  IN from[0]

=============================================================================
