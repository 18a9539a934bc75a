----------------------------- MODULE LlpParser ------------------------------
(***************************************************************************)
(* The receive parser of the link (llp_parser_process_byte), which the     *)
(* receive interrupt calls with every byte.  payload is the part of the    *)
(* frame buffer that the frame in progress has filled, so its length is    *)
(* payload_idx.  Any byte can come at any time.                            *)
(***************************************************************************)
EXTENDS LlpFrame

CONSTANTS
  TimeoutMs,  \* LLP_FRAME_TIMEOUT_MS
  Wrap        \* 65536: last_byte_time keeps 16 bits of the clock

ASSUME ClockAssumption == /\ Wrap \in Nat \ {0}
                          /\ TimeoutMs \in 0 .. Wrap - 1

VARIABLES
  state,          \* p->state
  escape_pending, \* p->escape_pending
  payload,        \* p->frame.payload[0 .. payload_idx - 1]
  payload_len,    \* p->frame.payload_len
  crc_calculated, crc_received, \* of the frame in progress
  last_byte_time, \* the clock at the last byte, 16 bits of it
  error_code,     \* p->error_code
  result,         \* what the call for the last byte returned
  prev,           \* history: the last byte, or NoByte
  spoiled         \* history: that byte was the second of a wrong escape pair

parserVars == <<state, escape_pending, payload, payload_len, crc_calculated,
                crc_received, last_byte_time, error_code, result, prev, spoiled>>

Hunting == {"WAIT_MAGIC1", "WAIT_MAGIC2"}
Reading == {"READ_LEN_L", "READ_LEN_H", "READ_PAYLOAD", "READ_CRC_L", "READ_CRC_H"}
Errors == {"OK", "CHECKSUM", "PAYLOAD_LEN", "TIMEOUT", "SYNC"}
NoByte == -1

parser_init ==
  /\ state = "WAIT_MAGIC1" /\ escape_pending = FALSE
  /\ payload = <<>> /\ payload_len = 0
  /\ crc_calculated = 65535 /\ crc_received = 0
  /\ last_byte_time = 0 /\ error_code = "OK"
  /\ result = 0 /\ prev = NoByte /\ spoiled = FALSE

-----------------------------------------------------------------------------
parser_reset(s) ==
  /\ state' = s /\ escape_pending' = FALSE
  /\ payload' = <<>> /\ crc_calculated' = 65535
Returns(r) == result' = r /\ UNCHANGED error_code
Fails(e) == result' = -1 /\ error_code' = e

(* The gap to the last byte, as the 16-bit difference the code takes.      *)
Timely_OffByOne(now) == (now - last_byte_time) % Wrap <= TimeoutMs + 1
Timely(now) == (now - last_byte_time) % Wrap <= TimeoutMs

(* A late byte drops the frame in progress; it may itself begin another.   *)
Timeout(b, now) ==
  /\ state # "WAIT_MAGIC1" /\ ~Timely(now)
  /\ parser_reset(IF b = Magic1 THEN "WAIT_MAGIC2" ELSE "WAIT_MAGIC1")
  /\ Fails("TIMEOUT")
  /\ UNCHANGED <<payload_len, crc_received>> /\ spoiled' = FALSE

(* The bytes before a frame.                                               *)
AfterMagic1_NoRepeat(b) == IF b = Magic2 THEN "READ_LEN_L" ELSE "WAIT_MAGIC1"
AfterMagic1(b) == IF b = Magic2 THEN "READ_LEN_L"
                  ELSE IF b = Magic1 THEN "WAIT_MAGIC2" ELSE "WAIT_MAGIC1"
Hunt(b) ==
  /\ state \in Hunting
  /\ state' = IF state = "WAIT_MAGIC2" THEN AfterMagic1(b)
              ELSE IF b = Magic1 THEN "WAIT_MAGIC2" ELSE state
  /\ crc_calculated' = IF state' = "READ_LEN_L" THEN HeaderCrc ELSE crc_calculated
  /\ Returns(0)
  /\ UNCHANGED <<escape_pending, payload, payload_len, crc_received>>
  /\ spoiled' = FALSE

(* Inside a frame the first magic byte is an escape.  Followed by the      *)
(* second one it is the header of a new frame; anything else but 0 is an   *)
(* error.                                                                  *)
BeginEscape(b) ==
  /\ state \in Reading /\ ~escape_pending /\ b = Magic1
  /\ escape_pending' = TRUE /\ Returns(0)
  /\ UNCHANGED <<state, payload, payload_len, crc_calculated, crc_received>>
  /\ spoiled' = FALSE

ResyncState_Hunt == "WAIT_MAGIC1"
ResyncState == "READ_LEN_L"
Resync(b) ==
  /\ state \in Reading /\ escape_pending /\ b = Magic2
  /\ state' = ResyncState /\ escape_pending' = FALSE
  /\ payload' = <<>> /\ crc_calculated' = HeaderCrc
  /\ Fails("SYNC")
  /\ UNCHANGED <<payload_len, crc_received>> /\ spoiled' = FALSE

BadEscape(b) ==
  /\ state \in Reading /\ escape_pending /\ b \notin {Magic2, 0}
  /\ parser_reset("WAIT_MAGIC1") /\ Fails("SYNC")
  /\ UNCHANGED <<payload_len, crc_received>> /\ spoiled' = TRUE

-----------------------------------------------------------------------------
(* A byte d of the frame itself, unstuffed.                                *)
Goes(s) == state' = s /\ escape_pending' = FALSE
Counts(d) == crc_calculated' = CrcUpdate(crc_calculated, d)

ReadLenL(d) ==
  /\ state = "READ_LEN_L" /\ Goes("READ_LEN_H") /\ Counts(d) /\ Returns(0)
  /\ payload_len' = d
  /\ UNCHANGED <<payload, crc_received>>

Fits_OffByOne(len) == len <= MaxPayload + 1
Fits(len) == len <= MaxPayload
ReadLenH(d) ==
  /\ state = "READ_LEN_H"
  /\ payload_len' = payload_len + 256 * d
  /\ payload' = <<>> /\ UNCHANGED crc_received
  /\ IF Fits(payload_len')
       THEN /\ Goes(IF payload_len' = 0 THEN "READ_CRC_L" ELSE "READ_PAYLOAD")
            /\ Counts(d) /\ Returns(0)
       ELSE parser_reset("WAIT_MAGIC1") /\ Fails("PAYLOAD_LEN")

ReadPayload(d) ==
  /\ state = "READ_PAYLOAD"
  /\ payload' = Append(payload, d)
  /\ Goes(IF Len(payload') = payload_len THEN "READ_CRC_L" ELSE state)
  /\ Counts(d) /\ Returns(0)
  /\ UNCHANGED <<payload_len, crc_received>>

ReadCrcL(d) ==
  /\ state = "READ_CRC_L" /\ Goes("READ_CRC_H") /\ Returns(0)
  /\ crc_received' = d
  /\ UNCHANGED <<payload, payload_len, crc_calculated>>

(* The last byte: the call returns 1, and payload is the frame's payload.  *)
CrcMatches_HighByte(d) == d = crc_calculated \div 256
CrcMatches(d) == crc_received + 256 * d = crc_calculated
ReadCrcH(d) ==
  /\ state = "READ_CRC_H"
  /\ crc_received' = crc_received + 256 * d
  /\ parser_reset("WAIT_MAGIC1")
  /\ IF CrcMatches(d) THEN Returns(1) ELSE Fails("CHECKSUM")
  /\ UNCHANGED payload_len

Take(d) == ReadLenL(d) \/ ReadLenH(d) \/ ReadPayload(d) \/ ReadCrcL(d) \/ ReadCrcH(d)

Data(b) ==
  /\ state \in Reading /\ spoiled' = FALSE
  /\ \/ escape_pending /\ b = 0 /\ Take(Magic1)
     \/ ~escape_pending /\ b # Magic1 /\ Take(b)

process_byte(b, now) ==
  /\ last_byte_time' = now /\ prev' = b
  /\ \/ Timeout(b, now)
     \/ /\ state = "WAIT_MAGIC1" \/ Timely(now)
        /\ Hunt(b) \/ BeginEscape(b) \/ Resync(b) \/ BadEscape(b) \/ Data(b)

ParserNext == \E b \in Byte, now \in 0 .. Wrap - 1 : process_byte(b, now)
ParserSpec == parser_init /\ [][ParserNext]_parserVars

-----------------------------------------------------------------------------
(* The parser never holds more payload than the frame buffer has room for, *)
(* nor more than the frame announced, and it hands over exactly as much as *)
(* announced, whatever bytes come (llp_protocol.h:276-291).                *)
FieldsOK ==
  /\ state \in Hunting \cup Reading /\ escape_pending \in BOOLEAN
  /\ payload \in Seq(Byte) /\ payload_len \in Word
  /\ crc_received \in Word
  /\ last_byte_time \in 0 .. Wrap - 1
  /\ error_code \in Errors /\ result \in {-1, 0, 1}
  /\ prev \in Byte \cup {NoByte} /\ spoiled \in BOOLEAN
LengthsOK ==
  /\ Len(payload) <= MaxPayload
  /\ state = "READ_LEN_H" => payload_len \in Byte
  /\ state = "READ_PAYLOAD" => Len(payload) < payload_len /\ payload_len <= MaxPayload
  /\ state \in {"READ_CRC_L", "READ_CRC_H"} => Len(payload) = payload_len
CrcOK == state = "READ_CRC_H" => crc_received \in Byte
ParserOK == FieldsOK /\ LengthsOK /\ CrcOK

TimedOut == result = -1 /\ error_code = "TIMEOUT"

(* A header, AA 55, begins a frame wherever it comes, so that a damaged    *)
(* frame does not take the next one with it (llp_protocol.h:212-227); the  *)
(* header whose first byte ended a wrong escape pair is the exception.     *)
HeaderStartsFrame ==
  [][(prev = Magic1 /\ ~spoiled /\ prev' = Magic2)
       => state' = "READ_LEN_L" \/ TimedOut']_parserVars

(* What the head of llp_protocol.h says, line 11: an unexpected AA 55      *)
(* inside a frame signals a resync event.                                  *)
HeaderAlwaysResyncs ==
  [][(prev = Magic1 /\ prev' = Magic2)
       => state' = "READ_LEN_L" \/ TimedOut']_parserVars

=============================================================================
