-------------------------- MODULE ReceivingProofs ---------------------------
(***************************************************************************)
(* The receiving half, for every size and timeout, in three parts.         *)
(*                                                                         *)
(* LlpParser alone: the parser against every sequence of bytes and times.  *)
(* LlpLink: a frame comes to the parser over a line that may lose, damage  *)
(* and insert bytes, and pause.  Parser and line are followed place by     *)
(* place, on the frame before stuffing; there are lemmas about flattened   *)
(* and folded sequences first, since frames and checksums are such.        *)
(* SerialRx: the ring, the filter of a line, and the answers.  They are    *)
(* compared with the lines that were put into the ring, by the rank of a   *)
(* character among those that count and of an end among the ends of lines. *)
(***************************************************************************)
EXTENDS LlpLink, SerialRx, FiniteSetTheorems, WellFoundedInduction, TLAPS

(* The bounds of bytes and of 16-bit numbers, kept out of sight below: the *)
(* provers would enumerate the ranges.                                     *)
LEMMA Bounds == ByteMax \in Nat /\ WordMax \in Nat /\ ByteMax <= WordMax
BY DEF ByteMax, WordMax

LEMMA TwoBytesBound ==
  ASSUME NEW x \in Nat, NEW y \in Nat, x <= ByteMax, y <= ByteMax
  PROVE  x + 256 * y <= WordMax
BY DEF ByteMax, WordMax

(* What a byte and a 16-bit number are.                                    *)
LEMMA BytesAndWords ==
  /\ \A n \in Nat : n <= WordMax <=> n \in Word
  /\ \A n \in Nat : n <= ByteMax <=> n \in Byte
  /\ Byte \subseteq Word /\ Word \subseteq Nat /\ 0 \in Word
BY Bounds DEF Byte, Word

LEMMA MagicIsByte == Magic1 \in Byte
<1>1. Magic1 \in Nat /\ Magic1 <= ByteMax
  BY DEF Magic1, ByteMax
<1> QED
  BY <1>1, BytesAndWords

(* Two bytes make a 16-bit number.                                         *)
LEMMA TwoBytes == \A x, y \in Byte : x + 256 * y \in Word
<1> SUFFICES ASSUME NEW x \in Byte, NEW y \in Byte
             PROVE  x + 256 * y \in Word
  OBVIOUS
<1>1. x \in Nat /\ x <= ByteMax /\ y \in Nat /\ y <= ByteMax
  BY BytesAndWords
<1>2. x + 256 * y \in Nat
  BY <1>1
<1>3. x + 256 * y <= WordMax
  BY <1>1, TwoBytesBound
<1> QED
  BY <1>2, <1>3, BytesAndWords

(* What each handler of a byte must keep: the invariant, but for the        *)
(* fields that process_byte sets itself.                                   *)
StepOK ==
  /\ state' \in Hunting \cup Reading /\ escape_pending' \in BOOLEAN
  /\ payload' \in Seq(Byte) /\ payload_len' \in Word /\ crc_received' \in Word
  /\ error_code' \in Errors /\ result' \in {-1, 0, 1}
  /\ LengthsOK' /\ CrcOK'

(* A byte of the frame itself keeps the fields in type, and the payload    *)
(* within the buffer and within the announced length.                      *)
LEMMA LenLKeeps ==
  ASSUME ParserOK, NEW d \in Byte, ReadLenL(d)
  PROVE  StepOK
<1>1. state' = "READ_LEN_H" /\ escape_pending' = FALSE /\ payload_len' = d
  BY DEF ReadLenL, Goes
<1>2. result' = 0 /\ UNCHANGED <<payload, crc_received, error_code>>
  BY DEF ReadLenL, Returns
<1>3. payload_len' \in Word
  BY <1>1, BytesAndWords
<1> QED
  BY <1>1, <1>2, <1>3 DEF ParserOK, FieldsOK, LengthsOK, CrcOK, StepOK, Reading

LEMMA LenHKeeps ==
  ASSUME ParserOK, NEW d \in Byte, ReadLenH(d)
  PROVE  StepOK
<1>1. payload_len \in Byte /\ payload_len' = payload_len + 256 * d
  BY DEF ReadLenH, ParserOK, LengthsOK
<1>2. payload_len' \in Word
  BY <1>1, TwoBytes
<1>3. payload' = <<>> /\ payload' \in Seq(Byte) /\ Len(payload') = 0
  BY DEF ReadLenH
<1>4. MaxPayload \in Nat
  BY MaxPayloadAssumption
<1>5. CASE Fits(payload_len')
  <2>1. /\ state' = (IF payload_len' = 0 THEN "READ_CRC_L" ELSE "READ_PAYLOAD")
        /\ escape_pending' = FALSE /\ result' = 0
        /\ UNCHANGED <<crc_received, error_code>>
    BY <1>5 DEF ReadLenH, Goes, Returns
  <2>2. payload_len' <= MaxPayload
    BY <1>5 DEF Fits
  <2>3. payload_len' # 0 => 0 < payload_len'
    BY <1>2, BytesAndWords
  <2>4. 0 <= MaxPayload
    BY <1>4
  <2> QED
    BY <1>2, <1>3, <2>1, <2>2, <2>3, <2>4
    DEF ParserOK, FieldsOK, LengthsOK, CrcOK, StepOK, Reading
<1>6. CASE ~Fits(payload_len')
  <2>1. /\ state' = "WAIT_MAGIC1" /\ escape_pending' = FALSE
        /\ result' = -1 /\ error_code' = "PAYLOAD_LEN" /\ UNCHANGED crc_received
    BY <1>6 DEF ReadLenH, parser_reset, Fails
  <2>2. 0 <= MaxPayload
    BY <1>4
  <2> QED
    BY <1>2, <1>3, <2>1, <2>2
    DEF ParserOK, FieldsOK, LengthsOK, CrcOK, StepOK, Hunting, Errors
<1> QED
  BY <1>5, <1>6

LEMMA PayloadKeeps ==
  ASSUME ParserOK, NEW d \in Byte, ReadPayload(d)
  PROVE  StepOK
<1>1. /\ state = "READ_PAYLOAD" /\ Len(payload) < payload_len
      /\ payload_len <= MaxPayload /\ payload \in Seq(Byte) /\ payload_len \in Word
  BY DEF ReadPayload, ParserOK, LengthsOK, FieldsOK
<1>2. payload' \in Seq(Byte) /\ Len(payload') = Len(payload) + 1
  BY <1>1 DEF ReadPayload
<1>3. /\ state' = (IF Len(payload') = payload_len THEN "READ_CRC_L" ELSE "READ_PAYLOAD")
      /\ escape_pending' = FALSE /\ result' = 0
      /\ UNCHANGED <<payload_len, crc_received, error_code>>
  BY <1>1 DEF ReadPayload, Goes, Returns
<1>4. Len(payload') <= MaxPayload /\ Len(payload') <= payload_len
  BY <1>1, <1>2, MaxPayloadAssumption, BytesAndWords
<1>5. Len(payload') # payload_len => Len(payload') < payload_len
  BY <1>1, <1>2, <1>4, BytesAndWords
<1> QED
  BY <1>1, <1>2, <1>3, <1>4, <1>5
  DEF ParserOK, FieldsOK, LengthsOK, CrcOK, StepOK, Reading

LEMMA CrcKeeps ==
  ASSUME ParserOK, NEW d \in Byte, ReadCrcL(d) \/ ReadCrcH(d)
  PROVE  StepOK
<1>1. CASE ReadCrcL(d)
  <2>1. /\ state = "READ_CRC_L" /\ state' = "READ_CRC_H" /\ escape_pending' = FALSE
        /\ result' = 0 /\ crc_received' = d
        /\ UNCHANGED <<payload, payload_len, error_code>>
    BY <1>1 DEF ReadCrcL, Goes, Returns
  <2>2. d \in Word
    BY BytesAndWords
  <2> QED
    BY <2>1, <2>2 DEF ParserOK, FieldsOK, LengthsOK, CrcOK, StepOK, Reading
<1>2. CASE ReadCrcH(d)
  <2>1. /\ state' = "WAIT_MAGIC1" /\ escape_pending' = FALSE /\ payload' = <<>>
        /\ result' \in {-1, 1} /\ error_code' \in {error_code, "CHECKSUM"}
        /\ UNCHANGED payload_len
    BY <1>2 DEF ReadCrcH, parser_reset, Returns, Fails
  <2>2. crc_received \in Byte /\ crc_received' = crc_received + 256 * d
    BY <1>2 DEF ReadCrcH, ParserOK, CrcOK
  <2>3. crc_received' \in Word
    BY <2>2, TwoBytes
  <2>4. payload' \in Seq(Byte) /\ Len(payload') = 0 /\ 0 <= MaxPayload
    BY <2>1, MaxPayloadAssumption
  <2> QED
    BY <2>1, <2>3, <2>4
    DEF ParserOK, FieldsOK, LengthsOK, CrcOK, StepOK, Hunting, Errors
<1> QED
  BY <1>1, <1>2

(* A reset of the parser.                                                  *)
LEMMA ResetKeeps ==
  ASSUME ParserOK, state' \in Hunting, escape_pending' = FALSE, payload' = <<>>,
         result' = -1, error_code' \in Errors, UNCHANGED <<payload_len, crc_received>>
  PROVE  StepOK
<1>1. payload' \in Seq(Byte) /\ Len(payload') = 0 /\ 0 <= MaxPayload
  BY MaxPayloadAssumption
<1>2. LengthsOK' /\ CrcOK'
  BY <1>1 DEF LengthsOK, CrcOK, Hunting
<1> QED
  BY <1>1, <1>2 DEF ParserOK, FieldsOK, StepOK

(* A reset of the parser, or a byte that is not the frame's own.           *)
LEMMA FramingKeeps ==
  ASSUME ParserOK, NEW b \in Byte, NEW t,
         \/ Timeout(b, t) \/ Hunt(b) \/ BeginEscape(b) \/ Resync(b) \/ BadEscape(b)
  PROVE  StepOK
<1>1. <<>> \in Seq(Byte) /\ Len(<<>>) = 0 /\ 0 <= MaxPayload
  BY MaxPayloadAssumption
<1>2. CASE Timeout(b, t)
  <2>1. /\ state' \in Hunting /\ escape_pending' = FALSE /\ payload' = <<>>
        /\ result' = -1 /\ error_code' = "TIMEOUT"
        /\ UNCHANGED <<payload_len, crc_received>>
    BY <1>2 DEF Timeout, parser_reset, Fails, Hunting
  <2> QED
    BY <1>1, <2>1, ResetKeeps DEF Errors
<1>3. CASE Hunt(b)
  <2>1. /\ state' \in {"WAIT_MAGIC1", "WAIT_MAGIC2", "READ_LEN_L"} /\ result' = 0
        /\ UNCHANGED <<escape_pending, payload, payload_len, crc_received, error_code>>
    BY <1>3 DEF Hunt, AfterMagic1, Hunting, Returns
  <2> QED
    BY <2>1 DEF ParserOK, FieldsOK, LengthsOK, CrcOK, StepOK, Hunting, Reading
<1>4. CASE BeginEscape(b)
  BY <1>4 DEF BeginEscape, Returns, ParserOK, FieldsOK, LengthsOK, CrcOK, StepOK
<1>5. CASE Resync(b)
  BY <1>1, <1>5 DEF Resync, ResyncState, Fails,
     ParserOK, FieldsOK, LengthsOK, CrcOK, StepOK, Reading, Errors
<1>6. CASE BadEscape(b)
  <2>1. /\ state' \in Hunting /\ escape_pending' = FALSE /\ payload' = <<>>
        /\ result' = -1 /\ error_code' = "SYNC"
        /\ UNCHANGED <<payload_len, crc_received>>
    BY <1>6 DEF BadEscape, parser_reset, Fails, Hunting
  <2> QED
    BY <1>1, <2>1, ResetKeeps DEF Errors
<1> QED
  BY <1>2, <1>3, <1>4, <1>5, <1>6

(* Every call of llp_parser_process_byte keeps it all.                     *)
LEMMA ByteKeeps ==
  ASSUME ParserOK, NEW b \in Byte, NEW t \in 0 .. Wrap - 1, process_byte(b, t)
  PROVE  ParserOK'
<1>1. StepOK
  <2>1. CASE Data(b)
    <3>1. Take(b) \/ Take(Magic1)
      BY <2>1 DEF Data
    <3> QED
      BY <3>1, MagicIsByte, LenLKeeps, LenHKeeps, PayloadKeeps, CrcKeeps DEF Take
  <2> QED
    BY <2>1, FramingKeeps DEF process_byte
<1>2. last_byte_time' = t /\ prev' = b
  BY DEF process_byte
<1>3. spoiled' \in BOOLEAN
  BY DEF process_byte, Timeout, Hunt, BeginEscape, Resync, BadEscape, Data
<1> QED
  BY <1>1, <1>2, <1>3 DEF StepOK, ParserOK, FieldsOK

(* The frame buffer is never overrun and the payload handed over has the   *)
(* length the frame announced, whatever arrives and whenever it does       *)
(* (llp_protocol.h:271-297).                                               *)
THEOREM BufferIsSafe == ParserSpec => []ParserOK
<1>1. parser_init => ParserOK
  <2> SUFFICES ASSUME parser_init PROVE ParserOK
    OBVIOUS
  <2>1. payload \in Seq(Byte) /\ Len(payload) = 0 /\ 0 <= MaxPayload
    BY MaxPayloadAssumption DEF parser_init
  <2>2. payload_len \in Word /\ crc_received \in Word
    BY BytesAndWords DEF parser_init
  <2>3. last_byte_time \in 0 .. Wrap - 1
    BY ClockAssumption DEF parser_init
  <2>4. /\ state \in Hunting \cup Reading /\ error_code \in Errors
        /\ result \in {-1, 0, 1} /\ prev \in Byte \cup {NoByte}
    <3>1. state = "WAIT_MAGIC1" /\ error_code = "OK" /\ result = 0 /\ prev = NoByte
      BY DEF parser_init
    <3> QED
      BY <3>1 DEF Hunting, Errors
  <2>5. FieldsOK
    <3>1. escape_pending = FALSE /\ spoiled = FALSE
      BY DEF parser_init
    <3>2. escape_pending \in BOOLEAN /\ spoiled \in BOOLEAN
      BY <3>1
    <3> QED
      BY <2>1, <2>2, <2>3, <2>4, <3>2 DEF FieldsOK
  <2> QED
    BY <2>1, <2>5 DEF parser_init, ParserOK, LengthsOK, CrcOK
<1>2. ParserOK /\ [ParserNext]_parserVars => ParserOK'
  <2> SUFFICES ASSUME ParserOK, [ParserNext]_parserVars PROVE ParserOK'
    OBVIOUS
  <2>1. CASE ParserNext
    BY <2>1, ByteKeeps DEF ParserNext
  <2>2. CASE UNCHANGED parserVars
    BY <2>2 DEF parserVars, ParserOK, FieldsOK, LengthsOK, CrcOK
  <2> QED
    BY <2>1, <2>2
<1> QED
  BY <1>1, <1>2, PTL DEF ParserSpec

-----------------------------------------------------------------------------
(* What a first magic byte leaves behind: the parser has it on record,     *)
(* unless it ended a wrong escape pair.                                    *)
Magic1Kept ==
  prev = Magic1 /\ ~spoiled =>
    state = "WAIT_MAGIC2" \/ (state \in Reading /\ escape_pending)

(* Every call establishes this afresh for the byte it is given.            *)
LEMMA ByteKeepsMagic1 ==
  ASSUME ParserOK, NEW b, NEW t, process_byte(b, t)
  PROVE  Magic1Kept'
<1> SUFFICES ASSUME b = Magic1, ~spoiled'
             PROVE  state' = "WAIT_MAGIC2" \/ (state' \in Reading /\ escape_pending')
  BY DEF Magic1Kept, process_byte
<1> USE DEF Magic1, Magic2
<1>1. CASE Timeout(b, t)
  BY <1>1 DEF Timeout, parser_reset
<1>2. CASE Hunt(b)
  BY <1>2 DEF Hunt, AfterMagic1, Hunting
<1>3. CASE BeginEscape(b)
  BY <1>3 DEF BeginEscape
<1>4. CASE Resync(b)
  BY <1>4 DEF Resync
<1>5. CASE BadEscape(b)
  BY <1>5 DEF BadEscape
<1>6. CASE Data(b)
  BY <1>6 DEF Data
<1> QED
  BY <1>1, <1>2, <1>3, <1>4, <1>5, <1>6 DEF process_byte

(* A header that arrives in time begins a frame, in whatever state what    *)
(* came before it has left the parser.                                     *)
LEMMA HeaderRestarts ==
  ASSUME ParserOK, Magic1Kept, NEW t, process_byte(Magic2, t),
         prev = Magic1, ~spoiled
  PROVE  state' = "READ_LEN_L" \/ TimedOut'
<1>1. state = "WAIT_MAGIC2" \/ (state \in Reading /\ escape_pending)
  BY DEF Magic1Kept
<1> USE DEF Magic1, Magic2, Hunting, Reading
<1>2. CASE Timeout(Magic2, t)
  BY <1>2 DEF Timeout, Fails, TimedOut
<1>3. CASE Hunt(Magic2)
  BY <1>1, <1>3 DEF Hunt, AfterMagic1
<1>4. CASE BeginEscape(Magic2)
  BY <1>4 DEF BeginEscape
<1>5. CASE Resync(Magic2)
  BY <1>5 DEF Resync, ResyncState
<1>6. CASE BadEscape(Magic2)
  BY <1>6 DEF BadEscape
<1>7. CASE Data(Magic2)
  BY <1>1, <1>7 DEF Data
<1> QED
  BY <1>2, <1>3, <1>4, <1>5, <1>6, <1>7 DEF process_byte

(* So a header always starts a frame (llp_protocol.h:246-261), except in   *)
(* that one place.                                                         *)
THEOREM HeaderTheorem == ParserSpec => HeaderStartsFrame
<1>1. parser_init => Magic1Kept
  BY DEF parser_init, Magic1Kept, NoByte, Magic1
<1>2. ParserOK /\ Magic1Kept /\ [ParserNext]_parserVars => Magic1Kept'
  <2> SUFFICES ASSUME ParserOK, Magic1Kept, [ParserNext]_parserVars PROVE Magic1Kept'
    OBVIOUS
  <2>1. CASE ParserNext
    BY <2>1, ByteKeepsMagic1 DEF ParserNext
  <2>2. CASE UNCHANGED parserVars
    BY <2>2 DEF parserVars, Magic1Kept
  <2> QED
    BY <2>1, <2>2
<1>3. ParserOK /\ Magic1Kept /\ [ParserNext]_parserVars =>
        [(prev = Magic1 /\ ~spoiled /\ prev' = Magic2)
           => state' = "READ_LEN_L" \/ TimedOut']_parserVars
  <2> SUFFICES ASSUME ParserOK, Magic1Kept, ParserNext,
                      prev = Magic1, ~spoiled, prev' = Magic2
               PROVE  state' = "READ_LEN_L" \/ TimedOut'
    OBVIOUS
  <2>1. PICK b \in Byte, t \in 0 .. Wrap - 1 : process_byte(b, t)
    BY DEF ParserNext
  <2>2. b = Magic2
    BY <2>1 DEF process_byte
  <2> QED
    BY <2>1, <2>2, HeaderRestarts
<1> QED
  BY <1>1, <1>2, <1>3, BufferIsSafe, PTL DEF ParserSpec, HeaderStartsFrame

-----------------------------------------------------------------------------
LEMMA Induction ==
  ASSUME NEW T, 0 \in T, \A i \in Nat : i \in T => i + 1 \in T
  PROVE  Nat \subseteq T
<1> DEFINE Less == {ss \in Nat \X Nat : ss[1] < ss[2]}
<1>1. SUFFICES ASSUME Nat \ T # {} PROVE FALSE
  OBVIOUS
<1>2. IsWellFoundedOn(Less, Nat)
  BY NatLessThanWellFounded DEF OpToRel
<1>3. PICK x \in Nat \ T : \A y \in Nat \ T : ~ (<<y, x>> \in Less)
  <2> HIDE DEF Less
  <2> QED BY <1>1, <1>2, WFMin
<1>4. x # 0 /\ x - 1 \in Nat /\ x - 1 \notin T
  BY <1>3
<1>5. <<x - 1, x>> \in Less
  BY <1>4
<1> QED
  BY <1>3, <1>4, <1>5

(* A function may be defined by recursion: the values up to any number.    *)
Steps(V) == [Nat -> [V -> V]]
Follows(f, V, first, next, m) ==
  /\ f \in [0 .. m -> V]
  /\ \A i \in 0 .. m : f[i] = IF i = 0 THEN first ELSE next[i][f[i - 1]]
(* A function that is defined by recursion exists: step by step.           *)
LEMMA Recursion ==
  ASSUME NEW V, NEW first \in V, NEW next \in Steps(V), NEW m \in Nat
  PROVE  \E f : Follows(f, V, first, next, m)
<1> DEFINE Upto(k) == \E f \in [0 .. k -> V] :
              \A i \in 0 .. k : f[i] = IF i = 0 THEN first ELSE next[i][f[i - 1]]
           T == {k \in Nat : Upto(k)}
<1>1. 0 \in T
  <2> DEFINE f == [i \in 0 .. 0 |-> first]
  <2>1. f \in [0 .. 0 -> V] /\ \A i \in 0 .. 0 : i = 0 /\ f[i] = first
    OBVIOUS
  <2>2. Upto(0)
    <3> HIDE DEF f
    <3> QED BY <2>1
  <2> QED BY <2>2
<1>2. ASSUME NEW k \in Nat, k \in T PROVE k + 1 \in T
  <2>1. PICK f \in [0 .. k -> V] :
          \A i \in 0 .. k : f[i] = IF i = 0 THEN first ELSE next[i][f[i - 1]]
    BY <1>2
  <2> DEFINE g == [i \in 0 .. k + 1 |-> IF i = k + 1 THEN next[k + 1][f[k]] ELSE f[i]]
  <2>2. next[k + 1][f[k]] \in V
    BY <2>1 DEF Steps
  <2>3. g \in [0 .. k + 1 -> V]
    BY <2>1, <2>2
  <2>4. \A i \in 0 .. k + 1 : g[i] = IF i = 0 THEN first ELSE next[i][g[i - 1]]
    <3> TAKE i \in 0 .. k + 1
    <3>1. CASE i = k + 1
      BY <3>1
    <3>2. CASE i # k + 1
      <4>1. i \in 0 .. k /\ g[i] = f[i] /\ (i # 0 => g[i - 1] = f[i - 1])
        BY <3>2
      <4> QED BY <2>1, <4>1
    <3> QED BY <3>1, <3>2
  <2>5. Upto(k + 1)
    <3> HIDE DEF g
    <3> QED BY <2>3, <2>4
  <2> QED
    BY <2>5
<1>3. Nat \subseteq T
  <2> HIDE DEF T
  <2> QED BY <1>1, <1>2, Induction
<1> QED
  BY <1>3 DEF Follows
-----------------------------------------------------------------------------
(* A flattened sequence is built part by part.                             *)
Flattening(f, ss) ==
  \A i \in 1 .. Len(ss) : f[i] = IF i = 1 THEN ss[1] ELSE f[i - 1] \o ss[i]

LEMMA FlattenedBy ==
  ASSUME NEW S, NEW ss \in Seq(Seq(S)), ss # <<>>
  PROVE  \E f \in [1 .. Len(ss) -> Seq(S)] :
           Flattening(f, ss) /\ FlattenSeq(ss) = f[Len(ss)]
<1> DEFINE n == Len(ss)
           Flat(f) == f = [i \in 1 .. n |-> IF i = 1 THEN ss[i] ELSE f[i - 1] \o ss[i]]
           step == [i \in Nat |-> [s \in Seq(S) |-> IF i + 1 \in 1 .. n THEN s \o ss[i + 1] ELSE s]]
           flat == CHOOSE f : Flat(f)
<1>1. n \in Nat /\ n > 0 /\ \A i \in 1 .. n : ss[i] \in Seq(S)
  OBVIOUS
<1> HIDE DEF n
<1>2. step \in Steps(Seq(S))
  <2> SUFFICES ASSUME NEW i \in Nat, NEW s \in Seq(S), i + 1 \in 1 .. n
               PROVE  s \o ss[i + 1] \in Seq(S)
    BY DEF Steps
  <2> QED
    BY <1>1
<1>3. PICK h : Follows(h, Seq(S), ss[1], step, n - 1)
  <2>1. ss[1] \in Seq(S) /\ n - 1 \in Nat
    BY <1>1
  <2> HIDE DEF step
  <2> QED
    BY <2>1, <1>2, Recursion
<1>4. \A i \in 0 .. n - 1 : h[i] = IF i = 0 THEN ss[1] ELSE h[i - 1] \o ss[i + 1]
  <2> TAKE i \in 0 .. n - 1
  <2>1. i # 0 => i \in Nat /\ i + 1 \in 1 .. n /\ h[i - 1] \in Seq(S)
    BY <1>1, <1>3 DEF Follows
  <2>2. h[i] = IF i = 0 THEN ss[1] ELSE step[i][h[i - 1]]
    BY <1>3 DEF Follows
  <2> QED
    BY <2>1, <2>2
<1>5. \E g : Flat(g)
  <2> DEFINE g == [i \in 1 .. n |-> h[i - 1]]
  <2>1. \A i \in 1 .. n : g[i] = IF i = 1 THEN ss[i] ELSE g[i - 1] \o ss[i]
    BY <1>1, <1>4
  <2>2. g = [i \in 1 .. n |-> g[i]]
    OBVIOUS
  <2>3. Flat(g)
    <3> HIDE DEF g
    <3> QED
      BY <2>1, <2>2
  <2> QED
    BY <2>3
<1>6. Flat(flat)
  <2> HIDE DEF Flat
  <2> QED
    BY <1>5
<1> HIDE DEF flat
<1>7. \A i \in 1 .. n : flat[i] = IF i = 1 THEN ss[1] ELSE flat[i - 1] \o ss[i]
  BY <1>6
<1>8. FlattenSeq(ss) = flat[n]
  BY <1>1 DEF FlattenSeq, flat, n
<1> DEFINE T == {i \in Nat : i + 1 \in 1 .. n => flat[i + 1] \in Seq(S)}
<1>9. 0 \in T
  BY <1>1, <1>7
<1>10. ASSUME NEW i \in Nat, i \in T PROVE i + 1 \in T
  <2> SUFFICES ASSUME (i + 1) + 1 \in 1 .. n PROVE flat[(i + 1) + 1] \in Seq(S)
    OBVIOUS
  <2>1. flat[i + 1] \in Seq(S) /\ ss[(i + 1) + 1] \in Seq(S)
    BY <1>1, <1>10
  <2>2. flat[(i + 1) + 1] = flat[i + 1] \o ss[(i + 1) + 1]
    <3>1. (i + 1) + 1 # 1 /\ ((i + 1) + 1) - 1 = i + 1
      OBVIOUS
    <3> QED
      BY <1>7, <3>1
  <2> QED
    BY <2>1, <2>2
<1>11. Nat \subseteq T
  <2> HIDE DEF T
  <2> QED
    BY <1>9, <1>10, Induction
<1>12. ASSUME NEW i \in 1 .. n PROVE flat[i] \in Seq(S)
  <2>1. i - 1 \in T /\ (i - 1) + 1 = i
    <3> HIDE DEF T
    <3> QED
      BY <1>1, <1>11
  <2> QED
    BY <2>1
<1>13. flat \in [1 .. n -> Seq(S)]
  <2>1. flat = [i \in 1 .. n |-> IF i = 1 THEN ss[i] ELSE flat[i - 1] \o ss[i]]
    BY <1>6
  <2>2. DOMAIN flat = 1 .. n
    BY <2>1
  <2>3. flat = [i \in 1 .. n |-> flat[i]]
    BY <2>1, <2>2
  <2> QED
    BY <1>12, <2>3
<1>14. Flattening(flat, ss)
  BY <1>7 DEF Flattening, n
<1> QED
  BY <1>8, <1>13, <1>14 DEF n

LEMMA FlattenTyped ==
  ASSUME NEW S, NEW ss \in Seq(Seq(S)) PROVE FlattenSeq(ss) \in Seq(S)
<1>1. CASE ss = <<>>
  BY <1>1, <<>> \in Seq(S) DEF FlattenSeq
<1>2. CASE ss # <<>>
  <2>1. PICK f \in [1 .. Len(ss) -> Seq(S)] : FlattenSeq(ss) = f[Len(ss)]
    BY <1>2, FlattenedBy
  <2>2. Len(ss) \in 1 .. Len(ss)
    BY <1>2
  <2> QED
    BY <2>1, <2>2
<1> QED
  BY <1>1, <1>2

(* Concatenation of sequences over one set.                                *)
LEMMA ConcatFacts ==
  ASSUME NEW S, NEW s \in Seq(S), NEW t \in Seq(S), NEW u \in Seq(S)
  PROVE  /\ s \o t \in Seq(S) /\ s \o <<>> = s
         /\ (s \o t) \o u = s \o (t \o u)
OBVIOUS

(* A flattened sequence begins with its first part.                        *)
LEMMA FlattenFirst ==
  ASSUME NEW S, NEW ss \in Seq(Seq(S)), NEW tt \in Seq(Seq(S)),
         Len(ss) = Len(tt) + 1, \A i \in 1 .. Len(tt) : tt[i] = ss[i + 1]
  PROVE  FlattenSeq(ss) = ss[1] \o FlattenSeq(tt)
<1> DEFINE m == Len(tt)
<1>1. /\ m \in Nat /\ Len(ss) = m + 1 /\ ss # <<>> /\ (m = 0 => tt = <<>>)
      /\ (m # 0 => tt # <<>>) /\ \A i \in 1 .. m : tt[i] = ss[i + 1]
  OBVIOUS
<1>2. \A i \in 1 .. m + 1 : ss[i] \in Seq(S)
  BY <1>1
<1> HIDE DEF m
<1>3. PICK f \in [1 .. m + 1 -> Seq(S)] : Flattening(f, ss) /\ FlattenSeq(ss) = f[m + 1]
  <2>1. \E f \in [1 .. Len(ss) -> Seq(S)] : Flattening(f, ss) /\ FlattenSeq(ss) = f[Len(ss)]
    BY <1>1, FlattenedBy
  <2> QED
    BY <1>1, <2>1
<1>4. f[1] = ss[1] /\ \A i \in 1 .. m : f[i + 1] = f[i] \o ss[i + 1]
  <2>1. \A i \in 1 .. m : i + 1 \in 1 .. m + 1 /\ i + 1 # 1 /\ (i + 1) - 1 = i
    BY <1>1
  <2>2. 1 \in 1 .. m + 1
    BY <1>1
  <2> QED
    BY <1>1, <1>3, <2>1, <2>2 DEF Flattening
<1>5. CASE m = 0
  <2>1. tt = <<>> /\ FlattenSeq(tt) = <<>>
    BY <1>1, <1>5 DEF FlattenSeq
  <2>2. FlattenSeq(ss) = ss[1]
    BY <1>3, <1>4, <1>5
  <2>3. ss[1] \in Seq(S)
    BY <1>1, <1>2
  <2> QED
    BY <2>1, <2>2, <2>3
<1>6. CASE m # 0
  <2>1. PICK g \in [1 .. m -> Seq(S)] : Flattening(g, tt) /\ FlattenSeq(tt) = g[m]
    BY <1>1, <1>6, FlattenedBy DEF m
  <2>2. g[1] = tt[1] /\ \A i \in 1 .. m - 1 : g[i + 1] = g[i] \o tt[i + 1]
    <3>1. \A i \in 1 .. m - 1 : i + 1 \in 1 .. m /\ i + 1 # 1 /\ (i + 1) - 1 = i
      BY <1>1
    <3>2. 1 \in 1 .. m
      BY <1>1, <1>6
    <3>3. \A i \in 1 .. m : g[i] = IF i = 1 THEN tt[1] ELSE g[i - 1] \o tt[i]
      BY <2>1 DEF Flattening, m
    <3> QED
      BY <3>1, <3>2, <3>3
  <2> DEFINE Same(j) == f[j + 1] = ss[1] \o g[j]
             T == {i \in Nat : i + 1 \in 1 .. m => Same(i + 1)}
  <2>3. 0 \in T
    <3>1. 1 \in 1 .. m /\ 0 + 1 = 1
      BY <1>1, <1>6
    <3>2. f[1 + 1] = f[1] \o ss[1 + 1] /\ tt[1] = ss[1 + 1]
      BY <1>1, <1>4, <3>1
    <3>3. f[(0 + 1) + 1] = ss[1] \o g[0 + 1]
      BY <3>1, <3>2, <1>4, <2>2
    <3> QED
      BY <3>3
  <2>4. ASSUME NEW i \in Nat, i \in T PROVE i + 1 \in T
    <3> SUFFICES ASSUME (i + 1) + 1 \in 1 .. m PROVE Same((i + 1) + 1)
      <4> HIDE DEF Same
      <4> QED
        OBVIOUS
    <3> DEFINE j == i + 1
    <3>1. /\ j \in 1 .. m - 1 /\ j \in 1 .. m /\ j + 1 \in 1 .. m + 1 /\ j + 1 \in 1 .. m
          /\ (j + 1) + 1 \in 1 .. m + 1 /\ 1 \in 1 .. m + 1
      BY <1>1
    <3>2. Same(j)
      <4> HIDE DEF Same
      <4> QED
        BY <2>4, <3>1
    <3> HIDE DEF j
    <3>3. f[(j + 1) + 1] = f[j + 1] \o ss[(j + 1) + 1]
      BY <1>4, <3>1
    <3>4. g[j + 1] = g[j] \o tt[j + 1]
      BY <2>2, <3>1
    <3>5. tt[j + 1] = ss[(j + 1) + 1]
      BY <1>1, <3>1
    <3>6. ss[1] \in Seq(S) /\ g[j] \in Seq(S) /\ tt[j + 1] \in Seq(S)
      BY <1>2, <2>1, <3>1, <3>5
    <3>7. (ss[1] \o g[j]) \o tt[j + 1] = ss[1] \o (g[j] \o tt[j + 1])
      <4>1. PICK x \in Seq(S), y \in Seq(S), z \in Seq(S) :
              x = ss[1] /\ y = g[j] /\ z = tt[j + 1]
        BY <3>6
      <4>2. (x \o y) \o z = x \o (y \o z)
        BY ONLY ConcatFacts, x \in Seq(S), y \in Seq(S), z \in Seq(S)
      <4> QED
        BY ONLY <4>1, <4>2
    <3>8. Same(j + 1)
      BY <3>2, <3>3, <3>4, <3>5, <3>7
    <3> QED
      BY <3>8 DEF j
  <2>5. Nat \subseteq T
    <3> HIDE DEF T
    <3> QED
      BY <2>3, <2>4, Induction
  <2>6. f[m + 1] = ss[1] \o g[m]
    <3>1. m - 1 \in T
      <4> HIDE DEF T
      <4> QED
        BY <1>1, <1>6, <2>5
    <3>2. (m - 1) + 1 = m /\ m \in 1 .. m
      BY <1>1, <1>6
    <3> QED
      BY <3>1, <3>2
  <2> QED
    BY <1>3, <2>1, <2>6
<1> QED
  BY <1>5, <1>6

-----------------------------------------------------------------------------
(* What is left of a stuffed sequence of bytes after its first k.          *)
Left(s, k) == FlattenSeq([i \in 1 .. Len(s) - k |-> write_stuffed(s[k + i])])

LEMMA StuffedTyped ==
  ASSUME NEW b \in Byte
  PROVE  write_stuffed(b) \in Seq(Byte)
<1>1. <<b>> \in Seq(Byte) /\ 170 \in Byte /\ 0 \in Byte
  BY DEF Byte, ByteMax
<1>2. <<170, 0>> \in Seq(Byte)
  <2> HIDE DEF Byte
  <2> QED BY <1>1
<1> QED
  BY <1>1, <1>2 DEF write_stuffed, Magic1

LEMMA PartsTyped ==
  ASSUME NEW s \in Seq(Byte), NEW k \in 0 .. Len(s)
  PROVE  /\ [i \in 1 .. Len(s) - k |-> write_stuffed(s[k + i])] \in Seq(Seq(Byte))
         /\ Len([i \in 1 .. Len(s) - k |-> write_stuffed(s[k + i])]) = Len(s) - k
<1> DEFINE n == Len(s) - k
<1>1. n \in Nat /\ \A i \in 1 .. n : s[k + i] \in Byte
  OBVIOUS
<1> HIDE DEF n
<1>2. \A i \in 1 .. n : write_stuffed(s[k + i]) \in Seq(Byte)
  BY <1>1, StuffedTyped
<1>3. PICK V : V = Seq(Byte)
  OBVIOUS
<1>4. \A i \in 1 .. n : write_stuffed(s[k + i]) \in V
  BY <1>2, <1>3
<1>5. [i \in 1 .. n |-> write_stuffed(s[k + i])] \in Seq(V)
      /\ Len([i \in 1 .. n |-> write_stuffed(s[k + i])]) = n
  BY ONLY <1>1, <1>4
<1> QED
  BY <1>3, <1>5 DEF n

LEMMA LeftTyped ==
  ASSUME NEW s \in Seq(Byte), NEW k \in 0 .. Len(s)
  PROVE  Left(s, k) \in Seq(Byte)
BY PartsTyped, FlattenTyped DEF Left

LEMMA NoneLeft ==
  ASSUME NEW s \in Seq(Byte)
  PROVE  Left(s, Len(s)) = <<>>
<1>1. Len(s) \in 0 .. Len(s) /\ Len(s) - Len(s) = 0
  OBVIOUS
<1>2. PICK V : V = Seq(Byte)
  OBVIOUS
<1>3. /\ [i \in 1 .. Len(s) - Len(s) |-> write_stuffed(s[Len(s) + i])] \in Seq(V)
      /\ Len([i \in 1 .. Len(s) - Len(s) |-> write_stuffed(s[Len(s) + i])]) = 0
  BY <1>1, <1>2, PartsTyped
<1>4. [i \in 1 .. Len(s) - Len(s) |-> write_stuffed(s[Len(s) + i])] = <<>>
  BY <1>3
<1> QED
  BY <1>3, <1>4 DEF Left, FlattenSeq

LEMMA OneLess ==
  ASSUME NEW s \in Seq(Byte), NEW k \in Nat, k < Len(s)
  PROVE  Left(s, k) = write_stuffed(s[k + 1]) \o Left(s, k + 1)
<1> DEFINE n == Len(s)
           ss == [i \in 1 .. n - k |-> write_stuffed(s[k + i])]
           tt == [i \in 1 .. n - (k + 1) |-> write_stuffed(s[(k + 1) + i])]
<1>1. n \in Nat /\ k \in 0 .. n /\ k + 1 \in 0 .. n /\ n - k = n - (k + 1) + 1
      /\ n - (k + 1) \in Nat
  OBVIOUS
<1>2. /\ ss \in Seq(Seq(Byte)) /\ tt \in Seq(Seq(Byte))
      /\ Len(ss) = n - k /\ Len(tt) = n - (k + 1)
  BY <1>1, PartsTyped
<1>3. \A i \in 1 .. n - (k + 1) : tt[i] = ss[i + 1]
  <2> SUFFICES ASSUME NEW i \in 1 .. n - (k + 1) PROVE tt[i] = ss[i + 1]
    OBVIOUS
  <2> HIDE DEF n
  <2>1. i + 1 \in 1 .. n - k /\ (k + 1) + i = k + (i + 1)
    BY <1>1
  <2> QED
    BY <2>1
<1>4. ss[1] = write_stuffed(s[k + 1])
  <2> HIDE DEF n
  <2>1. 1 \in 1 .. n - k
    BY <1>1
  <2> QED
    BY <2>1
<1>5. FlattenSeq(ss) = Left(s, k) /\ FlattenSeq(tt) = Left(s, k + 1)
  BY DEF Left
<1> HIDE DEF ss, tt, n
<1>6. FlattenSeq(ss) = ss[1] \o FlattenSeq(tt)
  BY <1>1, <1>2, <1>3, FlattenFirst
<1> QED
  BY <1>4, <1>5, <1>6

-----------------------------------------------------------------------------
(* The checksum of a sequence of bytes is computed byte by byte.           *)
CrcIs16Bit == \A c \in Word, b \in Byte : CrcUpdate(c, b) \in Word

(* The function by which the fold over bytes is defined.                   *)
Folds(it, s, n) ==
  it = [t \in SUBSET (1 .. n) |->
          IF t = {} THEN HeaderCrc
          ELSE CrcUpdate(it[t \ {Max(t)}], s[Max(t)])]

LEMMA MaxOfUpto ==
  ASSUME NEW k \in Nat, NEW t \in SUBSET (1 .. k + 1), k + 1 \in t
  PROVE  Max(t) = k + 1
<1>1. \A y \in t : k + 1 >= y
  OBVIOUS
<1>2. \A x \in t : (\A y \in t : x >= y) => x = k + 1
  OBVIOUS
<1> QED
  BY <1>1, <1>2 DEF Max

LEMMA FoldExists ==
  ASSUME NEW s, NEW n \in Nat
  PROVE  \E it : Folds(it, s, n)
<1> DEFINE T == {k \in Nat : \E it : Folds(it, s, k)}
<1>1. 0 \in T
  <2> DEFINE it == [t \in SUBSET (1 .. 0) |-> HeaderCrc]
  <2>1. \A t \in SUBSET (1 .. 0) : t = {}
    OBVIOUS
  <2>2. Folds(it, s, 0)
    BY <2>1 DEF Folds
  <2> QED
    BY <2>2
<1>2. ASSUME NEW k \in Nat, k \in T PROVE k + 1 \in T
  <2>1. PICK f : Folds(f, s, k)
    BY <1>2
  <2> DEFINE g == [t \in SUBSET (1 .. k + 1) |->
                     IF k + 1 \in t THEN CrcUpdate(f[t \ {k + 1}], s[k + 1]) ELSE f[t]]
             h == [t \in SUBSET (1 .. k + 1) |->
                     IF t = {} THEN HeaderCrc
                     ELSE CrcUpdate(g[t \ {Max(t)}], s[Max(t)])]
  <2>2. ASSUME NEW t \in SUBSET (1 .. k + 1) PROVE g[t] = h[t]
    <3>1. CASE k + 1 \in t
      <4>1. Max(t) = k + 1 /\ t # {}
        BY <3>1, MaxOfUpto
      <4>2. t \ {k + 1} \in SUBSET (1 .. k + 1) /\ k + 1 \notin t \ {k + 1}
        OBVIOUS
      <4>3. g[t \ {k + 1}] = f[t \ {k + 1}]
        BY <4>2
      <4> QED
        BY <3>1, <4>1, <4>3
    <3>2. CASE k + 1 \notin t /\ t = {}
      <4>1. f[t] = HeaderCrc
        BY <2>1, <3>2 DEF Folds
      <4> QED
        BY <3>2, <4>1
    <3>3. CASE k + 1 \notin t /\ t # {}
      <4>1. t \in SUBSET (1 .. k)
        BY <3>3
      <4>2. t \ {Max(t)} \in SUBSET (1 .. k + 1) /\ k + 1 \notin t \ {Max(t)}
        BY <3>3
      <4>3. g[t \ {Max(t)}] = f[t \ {Max(t)}]
        BY <4>2
      <4>4. f[t] = CrcUpdate(f[t \ {Max(t)}], s[Max(t)])
        BY <2>1, <3>3, <4>1 DEF Folds
      <4> QED
        BY <3>3, <4>3, <4>4
    <3> QED
      BY <3>1, <3>2, <3>3
  <2>3. g = h
    BY <2>2
  <2>4. Folds(g, s, k + 1)
    BY <2>3 DEF Folds
  <2> QED
    BY <2>4
<1>3. Nat \subseteq T
  <2> HIDE DEF T
  <2> QED BY <1>1, <1>2, Induction
<1> QED
  BY <1>3

LEMMA FoldIs ==
  ASSUME NEW s, NEW n \in Nat, DOMAIN s = 1 .. n
  PROVE  \E it : Folds(it, s, n) /\ FoldLeft(CrcUpdate, HeaderCrc, s) = it[1 .. n]
<1> DEFINE it == CHOOSE f : Folds(f, s, n)
<1>1. Folds(it, s, n)
  BY FoldExists
<1>2. FoldLeft(CrcUpdate, HeaderCrc, s) = it[1 .. n]
  BY DEF FoldLeft, MapThenFoldSet, Folds
<1> QED
  BY <1>1, <1>2

(* Hence the checksum of a sequence is that of all but its last element,   *)
(* updated with that one.                                                  *)
Crc(s) == FoldLeft(CrcUpdate, HeaderCrc, s)

LEMMA CrcOfNone == Crc(<<>>) = HeaderCrc
<1>1. DOMAIN <<>> = 1 .. 0
  OBVIOUS
<1>2. PICK it : Folds(it, <<>>, 0) /\ Crc(<<>>) = it[1 .. 0]
  BY <1>1, FoldIs DEF Crc
<1>3. 1 .. 0 = {} /\ {} \in SUBSET (1 .. 0)
  OBVIOUS
<1> QED
  BY <1>2, <1>3 DEF Folds

LEMMA UptoStep ==
  ASSUME NEW s, NEW n \in Nat, NEW it, Folds(it, s, n), NEW k \in Nat, k + 1 <= n
  PROVE  it[1 .. k + 1] = CrcUpdate(it[1 .. k], s[k + 1])
<1> DEFINE t == 1 .. k + 1
<1>1. t \in SUBSET (1 .. n) /\ t \in SUBSET (1 .. k + 1) /\ k + 1 \in t /\ t # {}
  OBVIOUS
<1>2. t \ {k + 1} = 1 .. k
  OBVIOUS
<1> HIDE DEF t
<1>3. Max(t) = k + 1
  BY <1>1, MaxOfUpto
<1>4. it[t] = CrcUpdate(it[t \ {Max(t)}], s[Max(t)])
  BY <1>1 DEF Folds
<1> QED
  BY <1>2, <1>3, <1>4 DEF t

LEMMA CrcOfMore ==
  ASSUME NEW s \in Seq(Byte), NEW b \in Byte
  PROVE  Crc(Append(s, b)) = CrcUpdate(Crc(s), b)
<1> DEFINE n == Len(s)
           u == Append(s, b)
<1>1. /\ n \in Nat /\ n + 1 \in Nat /\ DOMAIN s = 1 .. n /\ DOMAIN u = 1 .. n + 1
      /\ u[n + 1] = b /\ \A i \in 1 .. n : u[i] = s[i]
  OBVIOUS
<1> HIDE DEF n, u
<1>2. PICK f : Folds(f, s, n) /\ Crc(s) = f[1 .. n]
  BY <1>1, FoldIs DEF Crc
<1>3. PICK g : Folds(g, u, n + 1) /\ Crc(u) = g[1 .. n + 1]
  BY <1>1, FoldIs DEF Crc
<1> DEFINE T == {k \in Nat : k <= n => f[1 .. k] = g[1 .. k]}
<1>4. 0 \in T
  <2>1. 1 .. 0 = {} /\ {} \in SUBSET (1 .. n) /\ {} \in SUBSET (1 .. n + 1)
    OBVIOUS
  <2>2. f[{}] = HeaderCrc
    BY <2>1, <1>2 DEF Folds
  <2>3. g[{}] = HeaderCrc
    BY <2>1, <1>3 DEF Folds
  <2> QED
    BY <2>1, <2>2, <2>3
<1>5. ASSUME NEW k \in Nat, k \in T PROVE k + 1 \in T
  <2> SUFFICES ASSUME k + 1 <= n PROVE f[1 .. k + 1] = g[1 .. k + 1]
    OBVIOUS
  <2>1. k <= n /\ k + 1 <= n + 1 /\ k + 1 \in 1 .. n
    BY <1>1
  <2>2. f[1 .. k] = g[1 .. k]
    BY <1>5, <2>1
  <2>3. f[1 .. k + 1] = CrcUpdate(f[1 .. k], s[k + 1])
    BY <1>1, <1>2, UptoStep
  <2>4. g[1 .. k + 1] = CrcUpdate(g[1 .. k], u[k + 1])
    BY <1>1, <1>3, <2>1, UptoStep
  <2> QED
    BY <1>1, <2>1, <2>2, <2>3, <2>4
<1>6. Nat \subseteq T
  <2> HIDE DEF T
  <2> QED
    BY <1>4, <1>5, Induction
<1>7. f[1 .. n] = g[1 .. n]
  <2>1. n \in T
    <3> HIDE DEF T
    <3> QED
      BY <1>1, <1>6
  <2> QED
    BY <1>1, <2>1
<1>8. g[1 .. n + 1] = CrcUpdate(g[1 .. n], u[n + 1])
  BY <1>1, <1>3, UptoStep
<1> QED
  BY <1>1, <1>2, <1>3, <1>7, <1>8 DEF u

LEMMA CrcTyped ==
  ASSUME CrcIs16Bit, NEW s \in Seq(Byte)
  PROVE  Crc(s) \in Word
<1> DEFINE T == {k \in Nat : \A t \in Seq(Byte) : Len(t) = k => Crc(t) \in Word}
<1>1. 0 \in T
  <2>1. HeaderCrc \in Word
    <3>1. 65535 \in Word /\ Magic1 \in Byte /\ Magic2 \in Byte
      BY DEF Word, WordMax, Byte, ByteMax, Magic1, Magic2
    <3>2. CrcUpdate(65535, Magic1) \in Word
      BY <3>1 DEF CrcIs16Bit
    <3> QED
      BY <3>1, <3>2 DEF CrcIs16Bit, HeaderCrc
  <2>2. \A t \in Seq(Byte) : Len(t) = 0 => t = <<>>
    OBVIOUS
  <2> QED
    BY <2>1, <2>2, CrcOfNone
<1>2. ASSUME NEW k \in Nat, k \in T PROVE k + 1 \in T
  <2> SUFFICES ASSUME NEW t \in Seq(Byte), Len(t) = k + 1 PROVE Crc(t) \in Word
    OBVIOUS
  <2> DEFINE v == SubSeq(t, 1, k)
  <2>1. v \in Seq(Byte) /\ Len(v) = k /\ t[k + 1] \in Byte /\ t = Append(v, t[k + 1])
    OBVIOUS
  <2> HIDE DEF v
  <2>2. Crc(v) \in Word
    BY <1>2, <2>1
  <2>3. Crc(Append(v, t[k + 1])) = CrcUpdate(Crc(v), t[k + 1])
    BY <2>1, CrcOfMore
  <2> QED
    BY <2>1, <2>2, <2>3 DEF CrcIs16Bit
<1>3. Nat \subseteq T
  <2> HIDE DEF T
  <2> QED
    BY <1>1, <1>2, Induction
<1>4. Len(s) \in T
  <2> HIDE DEF T
  <2> QED
    BY <1>3
<1> QED
  BY <1>4

-----------------------------------------------------------------------------
(* A frame before it is stuffed: the lengths, the payload, the checksum.   *)
Body(p) == <<Len(p) % 256, Len(p) \div 256>> \o p
Plain(p) == Body(p) \o <<Crc(Body(p)) % 256, Crc(Body(p)) \div 256>>
CrcUpto(p, k) == Crc(SubSeq(Body(p), 1, k))

(* Payloads that fit into the frame buffer, and hold something for the     *)
(* application.                                                            *)
Fitting(p) == p \in Seq(Byte) /\ Len(p) \in Word /\ Len(p) <= MaxPayload /\ HasData(p)

LEMMA ByteHalves ==
  ASSUME NEW n \in Word
  PROVE  n % 256 \in Byte /\ n \div 256 \in Byte /\ (n % 256) + 256 * (n \div 256) = n
BY DEF Word, WordMax, Byte, ByteMax

LEMMA BodyFacts ==
  ASSUME NEW p \in Seq(Byte), Len(p) \in Word
  PROVE  /\ Body(p) \in Seq(Byte) /\ Len(Body(p)) = Len(p) + 2
         /\ Body(p)[1] = Len(p) % 256 /\ Body(p)[2] = Len(p) \div 256
         /\ \A i \in 1 .. Len(p) : Body(p)[i + 2] = p[i]
<1> DEFINE x == Len(p) % 256
           y == Len(p) \div 256
<1>1. x \in Byte /\ y \in Byte
  BY ByteHalves
<1> HIDE DEF x, y
<1>2. <<x, y>> \in Seq(Byte) /\ Len(<<x, y>>) = 2
  BY <1>1
<1>3. /\ <<x, y>> \o p \in Seq(Byte) /\ Len(<<x, y>> \o p) = Len(p) + 2
      /\ (<<x, y>> \o p)[1] = x /\ (<<x, y>> \o p)[2] = y
      /\ \A i \in 1 .. Len(p) : (<<x, y>> \o p)[i + 2] = p[i]
  BY <1>1, <1>2
<1> QED
  BY <1>3 DEF Body, x, y

LEMMA PlainFacts ==
  ASSUME CrcIs16Bit, NEW p \in Seq(Byte), Len(p) \in Word
  PROVE  /\ Plain(p) \in Seq(Byte) /\ Len(Plain(p)) = Len(p) + 4
         /\ \A i \in 1 .. Len(p) + 2 : Plain(p)[i] = Body(p)[i]
         /\ Plain(p)[Len(p) + 3] = Crc(Body(p)) % 256
         /\ Plain(p)[Len(p) + 4] = Crc(Body(p)) \div 256
         /\ Crc(Body(p)) \in Word
<1> DEFINE x == Crc(Body(p)) % 256
           y == Crc(Body(p)) \div 256
<1>1. Body(p) \in Seq(Byte) /\ Len(Body(p)) = Len(p) + 2
  BY BodyFacts
<1>2. Crc(Body(p)) \in Word
  BY <1>1, CrcTyped
<1>3. x \in Byte /\ y \in Byte
  BY <1>2, ByteHalves
<1> HIDE DEF x, y
<1>4. PICK s \in Seq(Byte) : s = Body(p)
  BY <1>1
<1>5. /\ s \o <<x, y>> \in Seq(Byte) /\ Len(s \o <<x, y>>) = Len(s) + 2
      /\ \A i \in 1 .. Len(s) : (s \o <<x, y>>)[i] = s[i]
      /\ (s \o <<x, y>>)[Len(s) + 1] = x /\ (s \o <<x, y>>)[Len(s) + 2] = y
  BY ONLY <1>3, s \in Seq(Byte)
<1>6. Plain(p) = s \o <<x, y>> /\ Len(s) + 1 = Len(p) + 3 /\ Len(s) + 2 = Len(p) + 4
      /\ Len(s) = Len(p) + 2
  BY <1>1, <1>4 DEF Plain, x, y
<1>7. /\ Plain(p)[Len(p) + 3] = x /\ Plain(p)[Len(p) + 4] = y
      /\ \A i \in 1 .. Len(p) + 2 : Plain(p)[i] = s[i]
  BY ONLY <1>5, <1>6
<1> QED
  BY <1>2, <1>4, <1>5, <1>6, <1>7 DEF x, y

LEMMA FrameIs ==
  ASSUME CrcIs16Bit, NEW p \in Seq(Byte), Len(p) \in Word
  PROVE  build_frame(p) = <<Magic1, Magic2>> \o Left(Plain(p), 0)
<1> DEFINE s == Plain(p)
<1>1. s \in Seq(Byte)
  BY PlainFacts
<1>2. build_frame(p) = <<Magic1, Magic2>> \o FlattenSeq([i \in DOMAIN s |-> write_stuffed(s[i])])
  BY DEF build_frame, Plain, Body, Crc
<1> HIDE DEF s
<1>3. [i \in DOMAIN s |-> write_stuffed(s[i])] = [i \in 1 .. Len(s) - 0 |-> write_stuffed(s[0 + i])]
  BY <1>1
<1> QED
  BY <1>2, <1>3 DEF Left, s

(* The checksum of the frame, byte by byte.                                *)
LEMMA CrcUptoFacts ==
  ASSUME CrcIs16Bit, NEW p \in Seq(Byte), Len(p) \in Word
  PROVE  /\ CrcUpto(p, 0) = HeaderCrc /\ CrcUpto(p, Len(p) + 2) = Crc(Body(p))
         /\ \A k \in 0 .. Len(p) + 1 :
              CrcUpto(p, k + 1) = CrcUpdate(CrcUpto(p, k), Plain(p)[k + 1])
<1>1. PICK s \in Seq(Byte) : s = Body(p) /\ Len(s) = Len(p) + 2
  BY BodyFacts
<1>2. SubSeq(s, 1, 0) = <<>> /\ SubSeq(s, 1, Len(s)) = s
  BY ONLY s \in Seq(Byte)
<1>3. ASSUME NEW k \in 0 .. Len(p) + 1
      PROVE  CrcUpto(p, k + 1) = CrcUpdate(CrcUpto(p, k), Plain(p)[k + 1])
  <2>1. k \in Nat /\ k + 1 \in 1 .. Len(s)
    BY <1>1
  <2>2. /\ SubSeq(s, 1, k) \in Seq(Byte) /\ s[k + 1] \in Byte
        /\ SubSeq(s, 1, k + 1) = Append(SubSeq(s, 1, k), s[k + 1])
    BY ONLY <2>1, s \in Seq(Byte)
  <2>3. Crc(SubSeq(s, 1, k + 1)) = CrcUpdate(Crc(SubSeq(s, 1, k)), s[k + 1])
    BY <2>2, CrcOfMore
  <2>4. Plain(p)[k + 1] = s[k + 1]
    BY <1>1, <2>1, PlainFacts
  <2> QED
    BY <1>1, <2>3, <2>4 DEF CrcUpto
<1> QED
  BY <1>1, <1>2, <1>3, CrcOfNone DEF CrcUpto

-----------------------------------------------------------------------------
(* The parser after k bytes of the frame of payload p, place by place.     *)
AtLenL == state = "READ_LEN_L" /\ crc_calculated = HeaderCrc
AtLenH(p) ==
  /\ state = "READ_LEN_H" /\ payload_len = Len(p) % 256
  /\ crc_calculated = CrcUpto(p, 1)
AtPayload(p, k) ==
  /\ state = "READ_PAYLOAD" /\ payload_len = Len(p)
  /\ payload = SubSeq(p, 1, k - 2) /\ crc_calculated = CrcUpto(p, k)
AtCrcL(p) ==
  state = "READ_CRC_L" /\ payload = p /\ crc_calculated = Crc(Body(p))
AtCrcH(p) ==
  /\ state = "READ_CRC_H" /\ payload = p /\ crc_calculated = Crc(Body(p))
  /\ crc_received = Crc(Body(p)) % 256
InFrame(p, k) ==
  /\ k = 0 => AtLenL
  /\ k = 1 => AtLenH(p)
  /\ k \in 2 .. Len(p) + 1 => AtPayload(p, k)
  /\ k = Len(p) + 2 => AtCrcL(p)
  /\ k = Len(p) + 3 => AtCrcH(p)

(* A byte of the frame takes the parser one place further.                 *)
LEMMA LenLReads ==
  ASSUME CrcIs16Bit, NEW p, Fitting(p), InFrame(p, 0), Take(Plain(p)[1])
  PROVE  InFrame(p, 1)' /\ escape_pending' = FALSE /\ result' = 0
<1>1. p \in Seq(Byte) /\ Len(p) \in Word /\ Len(p) \in Nat
  BY DEF Fitting
<1>2. state = "READ_LEN_L" /\ crc_calculated = HeaderCrc
  BY DEF InFrame, AtLenL
<1>3. Plain(p)[1] = Len(p) % 256
  <2>1. 1 \in 1 .. Len(p) + 2
    BY <1>1
  <2> QED
    BY <1>1, <2>1, BodyFacts, PlainFacts
<1>4. CrcUpto(p, 1) = CrcUpdate(HeaderCrc, Plain(p)[1])
  <2>1. 0 \in 0 .. Len(p) + 1 /\ 0 + 1 = 1
    BY <1>1
  <2> QED
    BY <1>1, <2>1, CrcUptoFacts
<1>5. ReadLenL(Plain(p)[1])
  BY <1>2 DEF Take, ReadLenH, ReadPayload, ReadCrcL, ReadCrcH
<1>6. /\ state' = "READ_LEN_H" /\ escape_pending' = FALSE /\ result' = 0
      /\ payload_len' = Plain(p)[1]
      /\ crc_calculated' = CrcUpdate(crc_calculated, Plain(p)[1])
  BY <1>5 DEF ReadLenL, Goes, Counts, Returns
<1>7. AtLenH(p)'
  BY <1>2, <1>3, <1>4, <1>6 DEF AtLenH
<1>8. 1 # 0 /\ 1 \notin 2 .. Len(p) + 1 /\ 1 # Len(p) + 2 /\ 1 # Len(p) + 3
  BY <1>1
<1> QED
  BY ONLY <1>6, <1>7, <1>8 DEF InFrame

LEMMA LenHReads ==
  ASSUME CrcIs16Bit, NEW p, Fitting(p), InFrame(p, 1), Take(Plain(p)[2])
  PROVE  InFrame(p, 2)' /\ escape_pending' = FALSE /\ result' = 0
<1>1. p \in Seq(Byte) /\ Len(p) \in Word /\ Len(p) \in Nat /\ Len(p) <= MaxPayload
  BY DEF Fitting
<1>2. state = "READ_LEN_H" /\ payload_len = Len(p) % 256 /\ crc_calculated = CrcUpto(p, 1)
  BY DEF InFrame, AtLenH
<1>3. Plain(p)[2] = Len(p) \div 256
  <2>1. 2 \in 1 .. Len(p) + 2
    BY <1>1
  <2> QED
    BY <1>1, <2>1, BodyFacts, PlainFacts
<1>4. CrcUpto(p, 2) = CrcUpdate(CrcUpto(p, 1), Plain(p)[2])
  <2>1. 1 \in 0 .. Len(p) + 1 /\ 1 + 1 = 2
    BY <1>1
  <2> QED
    BY <1>1, <2>1, CrcUptoFacts
<1>5. ReadLenH(Plain(p)[2])
  BY <1>2 DEF Take, ReadLenL, ReadPayload, ReadCrcL, ReadCrcH
<1>6. payload_len' = Len(p) /\ payload' = <<>>
  BY <1>1, <1>2, <1>3, <1>5, ByteHalves DEF ReadLenH
<1>7. /\ state' = (IF payload_len' = 0 THEN "READ_CRC_L" ELSE "READ_PAYLOAD")
      /\ escape_pending' = FALSE /\ result' = 0
      /\ crc_calculated' = CrcUpdate(crc_calculated, Plain(p)[2])
  BY <1>1, <1>5, <1>6 DEF ReadLenH, Fits, Goes, Counts, Returns
<1>8. crc_calculated' = CrcUpto(p, 2)
  BY <1>2, <1>4, <1>7
<1>9. CASE Len(p) = 0
  <2>1. payload' = p
    BY <1>1, <1>6, <1>9
  <2>2. CrcUpto(p, 2) = Crc(Body(p))
    <3>1. Len(p) + 2 = 2
      BY <1>9
    <3> QED
      BY <1>1, <3>1, CrcUptoFacts
  <2>3. AtCrcL(p)'
    BY <1>6, <1>7, <1>8, <1>9, <2>1, <2>2 DEF AtCrcL
  <2>4. 2 # 0 /\ 2 # 1 /\ 2 \notin 2 .. Len(p) + 1 /\ 2 # Len(p) + 3
    BY <1>9
  <2> QED
    BY ONLY <1>7, <2>3, <2>4 DEF InFrame
<1>10. CASE Len(p) # 0
  <2>1. SubSeq(p, 1, 2 - 2) = <<>>
    BY <1>1
  <2>2. AtPayload(p, 2)'
    BY <1>6, <1>7, <1>8, <1>10, <2>1 DEF AtPayload
  <2>3. 2 # 0 /\ 2 # 1 /\ 2 # Len(p) + 2 /\ 2 # Len(p) + 3
    BY <1>1, <1>10
  <2> QED
    BY ONLY <1>7, <2>2, <2>3 DEF InFrame
<1> QED
  BY <1>9, <1>10

LEMMA PayloadReads ==
  ASSUME CrcIs16Bit, NEW p, Fitting(p), NEW k \in 2 .. Len(p) + 1, InFrame(p, k),
         Take(Plain(p)[k + 1])
  PROVE  InFrame(p, k + 1)' /\ escape_pending' = FALSE /\ result' = 0
<1> DEFINE d == Plain(p)[k + 1]
<1>1. p \in Seq(Byte) /\ Len(p) \in Word /\ Len(p) \in Nat
  BY DEF Fitting
<1>2. /\ state = "READ_PAYLOAD" /\ payload_len = Len(p)
      /\ payload = SubSeq(p, 1, k - 2) /\ crc_calculated = CrcUpto(p, k)
  BY DEF InFrame, AtPayload
<1>3. k \in Nat /\ k - 1 \in 1 .. Len(p) /\ k + 1 = (k - 1) + 2 /\ k + 1 \in 1 .. Len(p) + 2
      /\ k \in 0 .. Len(p) + 1
  BY <1>1
<1>4. d = p[k - 1]
  BY <1>1, <1>3, BodyFacts, PlainFacts
<1>5. CrcUpto(p, k + 1) = CrcUpdate(CrcUpto(p, k), d)
  BY <1>1, <1>3, CrcUptoFacts
<1> HIDE DEF d
<1>6. ReadPayload(d)
  BY <1>2 DEF Take, ReadLenL, ReadLenH, ReadCrcL, ReadCrcH, d
<1>7. payload' = SubSeq(p, 1, k - 1) /\ Len(payload') = k - 1
  <2>1. /\ Append(SubSeq(p, 1, k - 2), p[k - 1]) = SubSeq(p, 1, k - 1)
        /\ Len(SubSeq(p, 1, k - 1)) = k - 1
    BY <1>1, <1>3
  <2> QED
    BY <1>2, <1>4, <1>6, <2>1 DEF ReadPayload
<1>8. /\ state' = (IF Len(payload') = payload_len THEN "READ_CRC_L" ELSE "READ_PAYLOAD")
      /\ escape_pending' = FALSE /\ result' = 0 /\ payload_len' = payload_len
      /\ crc_calculated' = CrcUpdate(crc_calculated, d)
  BY <1>2, <1>6 DEF ReadPayload, Goes, Counts, Returns
<1>9. crc_calculated' = CrcUpto(p, k + 1)
  BY <1>2, <1>5, <1>8
<1>10. CASE k = Len(p) + 1
  <2>1. payload' = p /\ k - 1 = Len(p)
    BY <1>1, <1>7, <1>10
  <2>2. CrcUpto(p, k + 1) = Crc(Body(p))
    <3>1. Len(p) + 2 = k + 1
      BY <1>1, <1>10
    <3> QED
      BY <1>1, <3>1, CrcUptoFacts
  <2>3. AtCrcL(p)'
    BY <1>2, <1>7, <1>8, <1>9, <2>1, <2>2 DEF AtCrcL
  <2>4. k + 1 # 0 /\ k + 1 # 1 /\ k + 1 \notin 2 .. Len(p) + 1 /\ k + 1 # Len(p) + 3
    BY <1>1, <1>10
  <2> QED
    BY ONLY <1>8, <2>3, <2>4 DEF InFrame
<1>11. CASE k # Len(p) + 1
  <2>1. Len(payload') # payload_len /\ (k + 1) - 2 = k - 1
    BY <1>1, <1>2, <1>3, <1>7, <1>11
  <2>2. AtPayload(p, k + 1)'
    BY <1>2, <1>7, <1>8, <1>9, <2>1 DEF AtPayload
  <2>3. k + 1 # 0 /\ k + 1 # 1 /\ k + 1 # Len(p) + 2 /\ k + 1 # Len(p) + 3
    BY <1>1, <1>3, <1>11
  <2> QED
    BY ONLY <1>8, <2>2, <2>3 DEF InFrame
<1> QED
  BY <1>10, <1>11

LEMMA CrcLReads ==
  ASSUME CrcIs16Bit, NEW p, Fitting(p), InFrame(p, Len(p) + 2),
         Take(Plain(p)[Len(p) + 3])
  PROVE  InFrame(p, Len(p) + 3)' /\ escape_pending' = FALSE /\ result' = 0
<1>1. p \in Seq(Byte) /\ Len(p) \in Word /\ Len(p) \in Nat
  BY DEF Fitting
<1>2. state = "READ_CRC_L" /\ payload = p /\ crc_calculated = Crc(Body(p))
  BY DEF InFrame, AtCrcL
<1>3. Plain(p)[Len(p) + 3] = Crc(Body(p)) % 256
  BY <1>1, PlainFacts
<1>4. ReadCrcL(Plain(p)[Len(p) + 3])
  BY <1>2 DEF Take, ReadLenL, ReadLenH, ReadPayload, ReadCrcH
<1>5. /\ state' = "READ_CRC_H" /\ escape_pending' = FALSE /\ result' = 0
      /\ crc_received' = Plain(p)[Len(p) + 3] /\ UNCHANGED <<payload, crc_calculated>>
  BY <1>4 DEF ReadCrcL, Goes, Returns
<1>6. AtCrcH(p)'
  BY <1>2, <1>3, <1>5 DEF AtCrcH
<1>7. /\ Len(p) + 3 # 0 /\ Len(p) + 3 # 1 /\ Len(p) + 3 \notin 2 .. Len(p) + 1
      /\ Len(p) + 3 # Len(p) + 2
  BY <1>1
<1> QED
  BY ONLY <1>5, <1>6, <1>7 DEF InFrame

(* The last byte completes it.                                             *)
LEMMA CrcHReads ==
  ASSUME CrcIs16Bit, NEW p, Fitting(p), InFrame(p, Len(p) + 3),
         Take(Plain(p)[Len(p) + 4])
  PROVE  result' = 1 /\ payload = p /\ state' = "WAIT_MAGIC1" /\ escape_pending' = FALSE
<1>1. p \in Seq(Byte) /\ Len(p) \in Word /\ Len(p) \in Nat
  BY DEF Fitting
<1>2. /\ state = "READ_CRC_H" /\ payload = p /\ crc_calculated = Crc(Body(p))
      /\ crc_received = Crc(Body(p)) % 256
  BY DEF InFrame, AtCrcH
<1>3. Plain(p)[Len(p) + 4] = Crc(Body(p)) \div 256 /\ Crc(Body(p)) \in Word
  BY <1>1, PlainFacts
<1>4. ReadCrcH(Plain(p)[Len(p) + 4])
  BY <1>2 DEF Take, ReadLenL, ReadLenH, ReadPayload, ReadCrcL
<1>5. CrcMatches(Plain(p)[Len(p) + 4])
  BY <1>2, <1>3, ByteHalves DEF CrcMatches
<1> QED
  BY <1>2, <1>4, <1>5 DEF ReadCrcH, parser_reset, Returns

-----------------------------------------------------------------------------
LEMMA TakeReads ==
  ASSUME CrcIs16Bit, NEW p, Fitting(p), NEW k \in 0 .. Len(p) + 3, InFrame(p, k),
         Take(Plain(p)[k + 1])
  PROVE  /\ escape_pending' = FALSE
         /\ k # Len(p) + 3 => InFrame(p, k + 1)' /\ result' = 0
         /\ k = Len(p) + 3 => result' = 1 /\ payload = p /\ state' = "WAIT_MAGIC1"
<1>1. Len(p) \in Nat
  BY DEF Fitting
<1>2. CASE k = 0
  <2>1. k + 1 = 1 /\ k # Len(p) + 3
    BY <1>1, <1>2
  <2>2. InFrame(p, 1)' /\ escape_pending' = FALSE /\ result' = 0
    BY <1>2, <2>1, LenLReads
  <2> QED
    BY <2>1, <2>2
<1>3. CASE k = 1
  <2>1. k + 1 = 2 /\ k # Len(p) + 3
    BY <1>1, <1>3
  <2>2. InFrame(p, 2)' /\ escape_pending' = FALSE /\ result' = 0
    BY <1>3, <2>1, LenHReads
  <2> QED
    BY <2>1, <2>2
<1>4. CASE k \in 2 .. Len(p) + 1
  <2>1. k # Len(p) + 3
    BY <1>1, <1>4
  <2>2. InFrame(p, k + 1)' /\ escape_pending' = FALSE /\ result' = 0
    BY <1>4, PayloadReads
  <2> QED
    BY <2>1, <2>2
<1>5. CASE k = Len(p) + 2
  <2>1. k + 1 = Len(p) + 3 /\ k # Len(p) + 3
    BY <1>1, <1>5
  <2>2. InFrame(p, Len(p) + 3)' /\ escape_pending' = FALSE /\ result' = 0
    BY <1>5, <2>1, CrcLReads
  <2> QED
    BY <2>1, <2>2
<1>6. CASE k = Len(p) + 3
  <2>1. k + 1 = Len(p) + 4
    BY <1>1, <1>6
  <2> QED
    BY <1>6, <2>1, CrcHReads
<1>7. k = 0 \/ k = 1 \/ k \in 2 .. Len(p) + 1 \/ k = Len(p) + 2 \/ k = Len(p) + 3
  BY <1>1
<1> QED
  BY <1>2, <1>3, <1>4, <1>5, <1>6, <1>7

LEMMA FrameReading ==
  ASSUME NEW p, Fitting(p), NEW k \in 0 .. Len(p) + 3, InFrame(p, k)
  PROVE  state \in Reading
<1>1. Len(p) \in Nat
  BY DEF Fitting
<1>2. k = 0 \/ k = 1 \/ k \in 2 .. Len(p) + 1 \/ k = Len(p) + 2 \/ k = Len(p) + 3
  BY <1>1
<1>3. AtLenL \/ AtLenH(p) \/ AtPayload(p, k) \/ AtCrcL(p) \/ AtCrcH(p)
  BY <1>2 DEF InFrame
<1> QED
  BY <1>3 DEF AtLenL, AtLenH, AtPayload, AtCrcL, AtCrcH, Reading

-----------------------------------------------------------------------------
(* The bytes on the line.                                                  *)
LEMMA HeadTailFacts ==
  ASSUME NEW b \in Byte, NEW c \in Byte, NEW s \in Seq(Byte)
  PROVE  /\ <<b>> \o s # <<>> /\ Head(<<b>> \o s) = b /\ Tail(<<b>> \o s) = s
         /\ <<b, c>> \o s # <<>> /\ Head(<<b, c>> \o s) = b
         /\ Tail(<<b, c>> \o s) = <<c>> \o s
         /\ <<b>> \o s \in Seq(Byte) /\ <<b, c>> \o s \in Seq(Byte)
<1> HIDE DEF Byte
<1> QED
  OBVIOUS

LEMMA MagicBytes ==
  /\ Magic1 \in Byte /\ Magic2 \in Byte /\ 0 \in Byte
  /\ Magic1 # Magic2 /\ Magic1 # 0 /\ Magic2 # 0
BY DEF Magic1, Magic2, Byte, ByteMax

Whole(p, k) == wire = Left(Plain(p), k)
Half(p, k) == wire = <<0>> \o Left(Plain(p), k + 1) /\ Plain(p)[k + 1] = Magic1

(* The next byte of the frame, and what it leaves on the line.             *)
NextWhole(p, k, b) ==
  \/ Plain(p)[k + 1] = Magic1 /\ b = Magic1 /\ Half(p, k)'
  \/ Plain(p)[k + 1] # Magic1 /\ b = Plain(p)[k + 1] /\ Whole(p, k + 1)'

LEMMA WholeStep ==
  ASSUME CrcIs16Bit, NEW p, Fitting(p), NEW k \in 0 .. Len(p) + 3,
         Whole(p, k), wire' = Tail(wire)
  PROVE  wire # <<>> /\ NextWhole(p, k, Head(wire))
<1>1. p \in Seq(Byte) /\ Len(p) \in Word /\ Len(p) \in Nat
  BY DEF Fitting
<1>2. PICK s \in Seq(Byte) : s = Plain(p) /\ Len(s) = Len(p) + 4
  BY <1>1, PlainFacts
<1>3. k \in Nat /\ k < Len(s) /\ k + 1 \in 0 .. Len(s) /\ s[k + 1] \in Byte
  BY <1>1, <1>2
<1>4. PICK r \in Seq(Byte) : r = Left(s, k + 1)
  BY <1>2, <1>3, LeftTyped
<1>5. Left(s, k) = write_stuffed(s[k + 1]) \o r
  BY <1>3, <1>4, OneLess
<1>6. CASE s[k + 1] = Magic1
  <2>1. wire = <<Magic1, 0>> \o r
    BY <1>2, <1>5, <1>6 DEF Whole, write_stuffed
  <2>2. wire # <<>> /\ Head(wire) = Magic1 /\ Tail(wire) = <<0>> \o r
    BY <2>1, MagicBytes, HeadTailFacts
  <2> QED
    BY <1>2, <1>4, <1>6, <2>2 DEF NextWhole, Half
<1>7. CASE s[k + 1] # Magic1
  <2>1. wire = <<s[k + 1]>> \o r
    BY <1>2, <1>5, <1>7 DEF Whole, write_stuffed
  <2>2. wire # <<>> /\ Head(wire) = s[k + 1] /\ Tail(wire) = r
    BY <1>3, <2>1, HeadTailFacts
  <2> QED
    BY <1>2, <1>4, <1>7, <2>2 DEF NextWhole, Whole
<1> QED
  BY <1>6, <1>7

LEMMA HalfStep ==
  ASSUME CrcIs16Bit, NEW p, Fitting(p), NEW k \in 0 .. Len(p) + 3,
         Half(p, k), wire' = Tail(wire)
  PROVE  wire # <<>> /\ Head(wire) = 0 /\ Whole(p, k + 1)'
<1>1. p \in Seq(Byte) /\ Len(p) \in Word /\ Len(p) \in Nat
  BY DEF Fitting
<1>2. Plain(p) \in Seq(Byte) /\ Len(Plain(p)) = Len(p) + 4
  BY <1>1, PlainFacts
<1>3. k + 1 \in 0 .. Len(Plain(p))
  BY <1>1, <1>2
<1>4. Left(Plain(p), k + 1) \in Seq(Byte)
  BY <1>2, <1>3, LeftTyped
<1> QED
  BY <1>4, MagicBytes, HeadTailFacts DEF Half, Whole

LEMMA WholeEnd ==
  ASSUME CrcIs16Bit, NEW p, Fitting(p), NEW k, k = Len(p) + 3, Whole(p, k + 1)'
  PROVE  wire' = <<>>
<1>1. p \in Seq(Byte) /\ Len(p) \in Word /\ Len(p) \in Nat
  BY DEF Fitting
<1>2. Plain(p) \in Seq(Byte) /\ Len(Plain(p)) = k + 1
  BY <1>1, PlainFacts
<1> QED
  BY <1>2, NoneLeft DEF Whole

(* A frame that is not read to its end has bytes on the line.              *)
LEMMA OnTheLine ==
  ASSUME CrcIs16Bit, NEW p, Fitting(p), NEW k \in 0 .. Len(p) + 3,
         Whole(p, k) \/ Half(p, k)
  PROVE  wire # <<>>
<1>1. p \in Seq(Byte) /\ Len(p) \in Word /\ Len(p) \in Nat
  BY DEF Fitting
<1>2. PICK s \in Seq(Byte) : s = Plain(p) /\ Len(s) = Len(p) + 4
  BY <1>1, PlainFacts
<1>3. k \in Nat /\ k < Len(s) /\ k + 1 \in 0 .. Len(s) /\ s[k + 1] \in Byte
  BY <1>1, <1>2
<1>4. Left(s, k + 1) \in Seq(Byte)
  BY <1>2, <1>3, LeftTyped
<1>5. Left(s, k) = write_stuffed(s[k + 1]) \o Left(s, k + 1)
  BY <1>3, OneLess
<1>6. Left(s, k) # <<>> /\ <<0>> \o Left(s, k + 1) # <<>>
  BY <1>3, <1>4, <1>5, MagicBytes, HeadTailFacts DEF write_stuffed
<1> QED
  BY <1>2, <1>6 DEF Whole, Half

(* The header of a frame, and its second byte.                             *)
LEMMA HeaderStep ==
  ASSUME CrcIs16Bit, NEW p, Fitting(p)
  PROVE  /\ build_frame(p) \in Seq(Byte) /\ build_frame(p) # <<>>
         /\ Head(build_frame(p)) = Magic1
         /\ Tail(build_frame(p)) = <<Magic2>> \o Left(Plain(p), 0)
         /\ Head(<<Magic2>> \o Left(Plain(p), 0)) = Magic2
         /\ Tail(<<Magic2>> \o Left(Plain(p), 0)) = Left(Plain(p), 0)
         /\ <<Magic2>> \o Left(Plain(p), 0) # <<>>
<1>1. p \in Seq(Byte) /\ Len(p) \in Word /\ Len(p) \in Nat
  BY DEF Fitting
<1>2. build_frame(p) = <<Magic1, Magic2>> \o Left(Plain(p), 0)
  BY <1>1, FrameIs
<1>3. Plain(p) \in Seq(Byte) /\ 0 \in 0 .. Len(Plain(p))
  BY <1>1, PlainFacts
<1>4. Left(Plain(p), 0) \in Seq(Byte)
  BY <1>3, LeftTyped
<1> QED
  BY <1>2, <1>4, MagicBytes, HeadTailFacts

-----------------------------------------------------------------------------
(* The parser and the line agree on how much of the frame has been read.   *)
Reads(p, k) ==
  /\ InFrame(p, k)
  /\ \/ ~escape_pending /\ Whole(p, k)
     \/ escape_pending /\ Half(p, k)

(* A byte in time takes both further.                                      *)
Completes(p) ==
  /\ wire' = <<>> /\ result' = 1 /\ payload = p
  /\ state' = "WAIT_MAGIC1" /\ escape_pending' = FALSE

LEMMA NoMagicLeft ==
  ASSUME NEW b, process_byte(b, now), state \in Reading, Timely(now),
         escape_pending \in BOOLEAN
  PROVE  /\ ~escape_pending /\ b = Magic1 => BeginEscape(b)
         /\ ~escape_pending /\ b # Magic1 => Take(b)
         /\ escape_pending /\ b = 0 => Take(Magic1)
         /\ escape_pending /\ b = Magic2 => Resync(b)
<1>1. state \notin Hunting
  BY DEF Hunting, Reading
<1>2. BeginEscape(b) \/ Resync(b) \/ BadEscape(b) \/ Data(b)
  BY <1>1 DEF process_byte, Timeout, Hunt
<1> QED
  BY <1>2, MagicBytes DEF BeginEscape, Resync, BadEscape, Data

LEMMA ReadsOn ==
  ASSUME CrcIs16Bit, NEW p, Fitting(p), NEW k \in 0 .. Len(p) + 3, InFrame(p, k),
         Take(Plain(p)[k + 1]), Whole(p, k + 1)'
  PROVE  \/ k # Len(p) + 3 /\ Reads(p, k + 1)' /\ result' = 0
         \/ Completes(p)
<1>1. CASE k = Len(p) + 3
  <2>1. wire' = <<>>
    BY <1>1, WholeEnd
  <2>2. /\ result' = 1 /\ payload = p /\ state' = "WAIT_MAGIC1"
        /\ escape_pending' = FALSE
    BY <1>1, TakeReads
  <2> QED
    BY <2>1, <2>2 DEF Completes
<1>2. CASE k # Len(p) + 3
  <2>1. InFrame(p, k + 1)' /\ result' = 0 /\ escape_pending' = FALSE
    BY <1>2, TakeReads
  <2>2. ~escape_pending' /\ Whole(p, k + 1)'
    BY <2>1
  <2>3. Reads(p, k + 1)'
    BY <2>1, <2>2 DEF Reads
  <2> QED
    BY <1>2, <2>1, <2>3
<1> QED
  BY <1>1, <1>2

LEMMA ReadsStep ==
  ASSUME CrcIs16Bit, NEW p, Fitting(p), NEW k \in 0 .. Len(p) + 3, Reads(p, k),
         escape_pending \in BOOLEAN,
         wire' = Tail(wire), process_byte(Head(wire), now), Timely(now)
  PROVE  \/ Reads(p, k)' /\ result' = 0
         \/ k # Len(p) + 3 /\ Reads(p, k + 1)' /\ result' = 0
         \/ Completes(p)
<1>1. state \in Reading /\ InFrame(p, k)
  BY FrameReading DEF Reads
<1>2. CASE ~escape_pending
  <2>1. Whole(p, k)
    BY <1>2 DEF Reads
  <2>2. NextWhole(p, k, Head(wire))
    BY <2>1, WholeStep
  <2>3. CASE Plain(p)[k + 1] = Magic1
    <3>1. Head(wire) = Magic1 /\ Half(p, k)'
      BY <2>2, <2>3 DEF NextWhole
    <3>2. BeginEscape(Magic1)
      BY <1>1, <1>2, <3>1, NoMagicLeft
    <3>3. /\ escape_pending' = TRUE /\ result' = 0
          /\ UNCHANGED <<state, payload, payload_len, crc_calculated, crc_received>>
      BY <3>2 DEF BeginEscape, Returns
    <3>4. InFrame(p, k)'
      BY <1>1, <3>3 DEF InFrame, AtLenL, AtLenH, AtPayload, AtCrcL, AtCrcH
    <3> QED
      BY <3>1, <3>3, <3>4 DEF Reads
  <2>4. CASE Plain(p)[k + 1] # Magic1
    <3>1. Head(wire) = Plain(p)[k + 1] /\ Whole(p, k + 1)' /\ Head(wire) # Magic1
      BY <2>2, <2>4 DEF NextWhole
    <3>2. Take(Plain(p)[k + 1])
      BY <1>1, <1>2, <3>1, NoMagicLeft
    <3> QED
      BY <1>1, <3>1, <3>2, ReadsOn
  <2> QED
    BY <2>3, <2>4
<1>3. CASE escape_pending
  <2>1. Half(p, k) /\ Plain(p)[k + 1] = Magic1
    BY <1>3 DEF Reads, Half
  <2>2. Head(wire) = 0 /\ Whole(p, k + 1)'
    BY <2>1, HalfStep
  <2>3. Take(Plain(p)[k + 1])
    BY <1>1, <1>3, <2>1, <2>2, NoMagicLeft
  <2> QED
    BY <1>1, <2>2, <2>3, ReadsOn
<1> QED
  BY <1>2, <1>3

-----------------------------------------------------------------------------
(* The clock, between two wraps, tells the silence.                        *)
LEMMA ModFacts ==
  ASSUME NEW w \in Nat \ {0}, NEW x \in Nat
  PROVE  /\ x % w \in 0 .. w - 1
         /\ x < w => x % w = x
         /\ x \in w .. 2 * w - 1 => x % w = x - w
OBVIOUS

LEMMA ModBelow ==
  ASSUME NEW w \in Nat \ {0}, NEW x \in 1 - w .. 0
  PROVE  x < 0 => x % w = x + w
OBVIOUS

ClockTyped ==
  /\ now \in 0 .. Wrap - 1 /\ last_byte_time \in 0 .. Wrap - 1
  /\ silence \in Nat
ClockOK ==
  silence < Wrap => now - last_byte_time = silence \/ now - last_byte_time = silence - Wrap

LEMMA SilenceTold ==
  ASSUME ClockTyped, ClockOK, silence < Wrap
  PROVE  Timely(now) <=> silence <= TimeoutMs
<1> DEFINE d == now - last_byte_time
<1>1. /\ Wrap \in Nat \ {0} /\ silence \in Nat /\ d \in 1 - Wrap .. Wrap - 1
      /\ d = silence \/ d = silence - Wrap
  BY ClockAssumption DEF ClockTyped, ClockOK
<1> HIDE DEF d
<1>2. CASE d = silence
  BY <1>1, <1>2, ModFacts DEF Timely, d
<1>3. CASE d = silence - Wrap
  <2>1. d < 0 /\ d \in 1 - Wrap .. 0 /\ d + Wrap = silence
    BY <1>1, <1>3
  <2>2. d % Wrap = silence
    BY <1>1, <2>1, ModBelow
  <2> QED
    BY <2>2 DEF Timely, d
<1> QED
  BY <1>1, <1>2, <1>3

LEMMA ClockInit == Init => ClockTyped /\ ClockOK
BY ClockAssumption DEF Init, parser_init, ClockTyped, ClockOK

LEMMA PauseKeepsClock ==
  ASSUME ClockTyped, ClockOK, NEW g \in Nat, now' = (now + g) % Wrap,
         silence' = silence + g, last_byte_time' = last_byte_time
  PROVE  ClockTyped' /\ ClockOK'
<1>1. /\ Wrap \in Nat \ {0} /\ now \in 0 .. Wrap - 1 /\ silence \in Nat
      /\ last_byte_time \in 0 .. Wrap - 1 /\ now + g \in Nat
  BY ClockAssumption DEF ClockTyped
<1>2. now' \in 0 .. Wrap - 1
  BY <1>1, ModFacts
<1>3. ASSUME silence' < Wrap
      PROVE  now' - last_byte_time' = silence' \/ now' - last_byte_time' = silence' - Wrap
  <2>1. silence < Wrap /\ g < Wrap
    BY <1>1, <1>3
  <2>2. now - last_byte_time = silence \/ now - last_byte_time = silence - Wrap
    BY <2>1 DEF ClockOK
  <2>3. CASE now + g < Wrap
    <3>1. now' = now + g
      BY <1>1, <2>3, ModFacts
    <3> QED
      BY <1>1, <2>2, <3>1
  <2>4. CASE now + g >= Wrap
    <3>1. now + g \in Wrap .. 2 * Wrap - 1
      BY <1>1, <2>1, <2>4
    <3>2. now' = (now + g) - Wrap
      BY <1>1, <3>1, ModFacts
    <3> QED
      BY <1>1, <1>2, <1>3, <2>2, <3>2
  <2> QED
    BY <1>1, <2>3, <2>4
<1> QED
  BY <1>1, <1>2, <1>3 DEF ClockTyped, ClockOK

LEMMA ClockStep ==
  ASSUME ClockTyped, ClockOK, [Next]_vars
  PROVE  ClockTyped' /\ ClockOK'
<1>1. CASE Pause
  <2>1. PICK g \in Gaps : now' = (now + g) % Wrap /\ silence' = silence + g
    BY <1>1 DEF Pause
  <2>2. g \in Nat /\ last_byte_time' = last_byte_time
    BY <1>1, LinkAssumption DEF Pause, parserVars
  <2> QED
    BY <2>1, <2>2, PauseKeepsClock
<1>2. CASE rx_byte
  <2>1. last_byte_time' = now /\ now' = now /\ silence' = 0
    BY <1>2 DEF rx_byte, process_byte
  <2> QED
    BY <2>1 DEF ClockTyped, ClockOK
<1>3. CASE SendFrame \/ Lose \/ Damage \/ Insert \/ UNCHANGED vars
  <2>1. UNCHANGED <<now, last_byte_time, silence>>
    BY <1>3 DEF SendFrame, Lose, Damage, Insert, Fault, vars, parserVars, linkVars
  <2> QED
    BY <2>1 DEF ClockTyped, ClockOK
<1> QED
  BY <1>1, <1>2, <1>3 DEF Next

-----------------------------------------------------------------------------
(* After a long pause the parser restarts.                                 *)
LEMMA LongPauseRestarts ==
  ASSUME ClockTyped, ClockOK, silence < Wrap, LongPause, NEW b, process_byte(b, now)
  PROVE  state' \in Hunting /\ result' # 1
<1>1. ~Timely(now)
  BY SilenceTold, ClockAssumption DEF LongPause, ClockTyped
<1>2. CASE Timeout(b, now)
  BY <1>2 DEF Timeout, parser_reset, Fails, Hunting
<1>3. CASE state = "WAIT_MAGIC1" /\ ~Timeout(b, now)
  <2>1. Hunt(b)
    BY <1>3 DEF process_byte, BeginEscape, Resync, BadEscape, Data, Reading
  <2> QED
    BY <1>3, <2>1 DEF Hunt, Returns, Hunting
<1> QED
  BY <1>1, <1>2, <1>3 DEF process_byte

ShortSilence == silence < Wrap

(* Nothing is put together across a pause longer than the timeout          *)
(* (llp_protocol.h:193-204), as long as no pause lasts for a whole turn of *)
(* the 16-bit clock: after one, the difference of two times is too small.  *)
THEOREM TornTheorem == Spec /\ []ShortSilence => NoTornFrame
<1> DEFINE Inv == ClockTyped /\ ClockOK /\ torn = FALSE
<1>1. Init => Inv
  BY ClockInit DEF Init
<1>2. ASSUME Inv, ShortSilence, [Next]_vars
      PROVE  Inv' /\ [delivered' # delivered => ~(torn \/ LongPause)]_vars
  <2>1. ClockTyped' /\ ClockOK'
    BY <1>2, ClockStep
  <2>2. CASE rx_byte
    <3>1. CASE LongPause
      <4>1. state' \in Hunting /\ result' # 1
        BY <1>2, <2>2, <3>1, LongPauseRestarts DEF ShortSilence, rx_byte
      <4>2. torn' = FALSE /\ delivered' = delivered
        BY <2>2, <4>1 DEF rx_byte, Restarts
      <4> QED
        BY <2>1, <4>2
    <3>2. CASE ~LongPause
      <4>1. torn' = FALSE
        BY <1>2, <2>2, <3>2 DEF rx_byte
      <4> QED
        BY <1>2, <2>1, <3>2, <4>1
    <3> QED
      BY <3>1, <3>2
  <2>3. CASE SendFrame \/ Lose \/ Damage \/ Insert \/ Pause \/ UNCHANGED vars
    <3>1. UNCHANGED <<delivered, torn>>
      BY <2>3 DEF SendFrame, Lose, Damage, Insert, Fault, Pause, vars, linkVars
    <3> QED
      BY <1>2, <2>1, <3>1
  <2> QED
    BY <1>2, <2>2, <2>3 DEF Next
<1>3. QED
  <2> HIDE DEF Inv
  <2> QED
    BY <1>1, <1>2, PTL DEF Spec, NoTornFrame

-----------------------------------------------------------------------------
(* The payloads are frames the firmware can hold.                          *)
PayloadsFit == \A i \in DOMAIN Payloads : Fitting(Payloads[i])

(* A sequence, of whatever elements.                                       *)
IsSeq(s) == \E S : s \in Seq(S)

LinkTyped ==
  /\ escape_pending \in BOOLEAN /\ wire \in Seq(Byte)
  /\ sent \in 0 .. Len(Payloads) /\ (wire # <<>> => sent > 0)
  /\ IsSeq(delivered)
  /\ state \in Hunting => ~escape_pending

LEMMA AppendFacts ==
  ASSUME NEW s, IsSeq(s), NEW e
  PROVE  /\ IsSeq(Append(s, e)) /\ Append(s, e) # <<>> /\ Last(Append(s, e)) = e
         /\ Len(s) \in Nat /\ DOMAIN s = 1 .. Len(s)
         /\ DOMAIN Append(s, e) = 1 .. Len(s) + 1
         /\ Append(s, e)[Len(s) + 1] = e
         /\ \A i \in 1 .. Len(s) : Append(s, e)[i] = s[i]
<1>1. PICK S : s \in Seq(S)
  BY DEF IsSeq
<1>2. PICK V : V = S \cup {e}
  OBVIOUS
<1>3. s \in Seq(V) /\ e \in V
  BY <1>1, <1>2
<1>4. Append(s, e) \in Seq(V)
  BY ONLY <1>3
<1>5. /\ Append(s, e) # <<>> /\ Last(Append(s, e)) = e
      /\ Len(s) \in Nat /\ DOMAIN s = 1 .. Len(s)
      /\ DOMAIN Append(s, e) = 1 .. Len(s) + 1
      /\ Append(s, e)[Len(s) + 1] = e
      /\ \A i \in 1 .. Len(s) : Append(s, e)[i] = s[i]
  BY ONLY <1>3 DEF Last
<1> QED
  BY <1>4, <1>5 DEF IsSeq

LEMMA PayloadFacts ==
  ASSUME PayloadsFit, NEW i \in 1 .. Len(Payloads)
  PROVE  Fitting(Payloads[i])
<1>1. i \in DOMAIN Payloads
  BY LinkAssumption
<1> QED
  BY <1>1 DEF PayloadsFit

(* A byte that is not in the frame and the end of an escape.               *)
LEMMA HuntsClean ==
  ASSUME NEW b, process_byte(b, now), escape_pending \in BOOLEAN,
         state \in Hunting => ~escape_pending
  PROVE  escape_pending' \in BOOLEAN /\ (state' \in Hunting => ~escape_pending')
<1>1. CASE Timeout(b, now)
  <2>1. escape_pending' = FALSE
    BY <1>1 DEF Timeout, parser_reset
  <2> QED
    BY <2>1
<1>2. CASE Hunt(b)
  BY <1>2 DEF Hunt
<1>3. CASE BeginEscape(b)
  BY <1>3 DEF BeginEscape, Reading, Hunting
<1>4. CASE Resync(b)
  BY <1>4 DEF Resync
<1>5. CASE BadEscape(b)
  <2>1. escape_pending' = FALSE
    BY <1>5 DEF BadEscape, parser_reset
  <2> QED
    BY <2>1
<1>6. CASE Data(b)
  <2>1. Take(b) \/ Take(Magic1)
    BY <1>6 DEF Data
  <2>2. escape_pending' = FALSE
    BY <2>1 DEF Take, ReadLenL, ReadLenH, ReadPayload, ReadCrcL, ReadCrcH, Goes, parser_reset
  <2> QED
    BY <2>2
<1> QED
  BY <1>1, <1>2, <1>3, <1>4, <1>5, <1>6 DEF process_byte

LEMMA LinkTypedStep ==
  ASSUME CrcIs16Bit, PayloadsFit, LinkTyped, [Next]_vars
  PROVE  LinkTyped'
<1>1. CASE SendFrame
  <2>1. /\ sent < Len(Payloads) /\ sent' = sent + 1
        /\ wire' = build_frame(Payloads[sent'])
        /\ UNCHANGED <<state, escape_pending, delivered>>
    BY <1>1 DEF SendFrame, parserVars
  <2>2. sent' \in 1 .. Len(Payloads)
    BY <2>1, LinkAssumption DEF LinkTyped
  <2>3. Fitting(Payloads[sent'])
    BY <2>2, PayloadFacts
  <2>4. wire' \in Seq(Byte)
    BY <2>1, <2>3, HeaderStep
  <2> QED
    BY <2>1, <2>2, <2>4 DEF LinkTyped
<1>2. CASE Lose \/ Damage \/ Insert
  <2>1. wire # <<>> /\ UNCHANGED <<state, escape_pending, delivered, sent>>
    BY <1>2 DEF Lose, Damage, Insert, Fault, parserVars
  <2>2. wire' \in Seq(Byte)
    <3>1. wire \in Seq(Byte) /\ Tail(wire) \in Seq(Byte)
      BY <2>1 DEF LinkTyped
    <3>2. wire' = Tail(wire) \/ \E b \in Noise : wire' = <<b>> \o Tail(wire) \/ wire' = <<b>> \o wire
      BY <1>2 DEF Lose, Damage, Insert, Fault
    <3>3. \A b \in Noise : <<b>> \o Tail(wire) \in Seq(Byte) /\ <<b>> \o wire \in Seq(Byte)
      BY <3>1, LinkAssumption, MagicBytes, HeadTailFacts
    <3> QED
      BY <3>1, <3>2, <3>3
  <2> QED
    BY <2>1, <2>2 DEF LinkTyped
<1>3. CASE Pause \/ UNCHANGED vars
  BY <1>3 DEF Pause, vars, linkVars, parserVars, LinkTyped
<1>4. CASE rx_byte
  <2>1. wire # <<>> /\ wire' = Tail(wire) /\ sent' = sent
    BY <1>4 DEF rx_byte
  <2>2. wire' \in Seq(Byte)
    BY <2>1 DEF LinkTyped
  <2>3. IsSeq(delivered')
    BY <1>4, AppendFacts DEF rx_byte, LinkTyped
  <2>4. escape_pending' \in BOOLEAN /\ (state' \in Hunting => ~escape_pending')
    BY <1>4, HuntsClean DEF rx_byte, LinkTyped
  <2> QED
    BY <2>1, <2>2, <2>3, <2>4 DEF LinkTyped
<1> QED
  BY <1>1, <1>2, <1>3, <1>4 DEF Next

-----------------------------------------------------------------------------
(* A frame that has arrived intact so far.                                 *)
Fresh == silence <= TimeoutMs /\ prev # NoByte
AfterMagic == state = "WAIT_MAGIC2" \/ (state \in Reading /\ escape_pending)

HeaderDue(p) == wire = build_frame(p) /\ ~escape_pending
MagicDue(p) == wire = <<Magic2>> \o Left(Plain(p), 0) /\ AfterMagic /\ Fresh
FrameDue(p) == Fresh /\ \E k \in 0 .. Len(p) + 3 : Reads(p, k)
Arrived(p) == wire = <<>> /\ delivered # <<>> /\ Last(delivered) = AppData(p)
IntactStep(p) == HeaderDue(p) \/ MagicDue(p) \/ FrameDue(p) \/ Arrived(p)
IntactOK ==
  intact => \A i \in 1 .. Len(Payloads) : sent = i => IntactStep(Payloads[i])

LEMMA FreshTimely ==
  ASSUME ClockTyped, ClockOK, Fresh PROVE Timely(now)
BY SilenceTold, ClockAssumption DEF ClockTyped, Fresh

LEMMA FreshAgain ==
  ASSUME rx_byte, wire \in Seq(Byte) PROVE Fresh'
<1>1. silence' = 0 /\ prev' = Head(wire) /\ Head(wire) \in Byte
  BY DEF rx_byte, process_byte
<1>2. NoByte \notin Byte /\ 0 <= TimeoutMs
  BY ClockAssumption DEF NoByte, Byte, ByteMax
<1> QED
  BY <1>1, <1>2 DEF Fresh

(* The first byte of the header is remembered in every state but one.      *)
LEMMA HeaderArrives ==
  ASSUME CrcIs16Bit, LinkTyped, rx_byte, NEW p, Fitting(p), HeaderDue(p)
  PROVE  MagicDue(p)' /\ delivered' = delivered
<1>1. Head(wire) = Magic1 /\ wire' = <<Magic2>> \o Left(Plain(p), 0)
  BY HeaderStep DEF HeaderDue, rx_byte
<1>2. process_byte(Magic1, now)
  BY <1>1 DEF rx_byte
<1>3. AfterMagic' /\ result' # 1
  <2>1. CASE Timeout(Magic1, now)
    BY <2>1 DEF Timeout, parser_reset, Fails, AfterMagic
  <2>2. CASE Hunt(Magic1)
    BY <2>2, MagicBytes DEF Hunt, AfterMagic1, Returns, AfterMagic, Hunting
  <2>3. CASE BeginEscape(Magic1)
    BY <2>3 DEF BeginEscape, Returns, AfterMagic
  <2>4. ~Resync(Magic1) /\ ~BadEscape(Magic1) /\ ~Data(Magic1)
    BY DEF HeaderDue, Resync, BadEscape, Data
  <2> QED
    BY <1>2, <2>1, <2>2, <2>3, <2>4 DEF process_byte
<1>4. Fresh'
  BY FreshAgain DEF LinkTyped
<1>5. delivered' = delivered
  BY <1>3 DEF rx_byte
<1> QED
  BY <1>1, <1>3, <1>4, <1>5 DEF MagicDue

(* The second one begins the frame.                                        *)
LEMMA MagicArrives ==
  ASSUME CrcIs16Bit, ClockTyped, ClockOK, LinkTyped, rx_byte,
         NEW p, Fitting(p), MagicDue(p)
  PROVE  FrameDue(p)' /\ delivered' = delivered
<1>1. Head(wire) = Magic2 /\ wire' = Left(Plain(p), 0)
  BY HeaderStep DEF MagicDue, rx_byte
<1>2. process_byte(Magic2, now) /\ Timely(now)
  BY <1>1, FreshTimely DEF rx_byte, MagicDue
<1>3. AtLenL' /\ ~escape_pending' /\ result' # 1
  <2>1. CASE Hunt(Magic2)
    <3>1. state = "WAIT_MAGIC2" /\ ~escape_pending
      BY <2>1 DEF MagicDue, AfterMagic, Hunt, LinkTyped, Hunting, Reading
    <3> QED
      BY <2>1, <3>1 DEF Hunt, AfterMagic1, Returns, AtLenL
  <2>2. CASE Resync(Magic2)
    BY <2>2 DEF Resync, ResyncState, Fails, AtLenL
  <2>3. ~Timeout(Magic2, now) /\ ~BeginEscape(Magic2) /\ ~BadEscape(Magic2) /\ ~Data(Magic2)
    <3>1. state \notin Reading \/ escape_pending
      BY DEF MagicDue, AfterMagic, Reading
    <3> QED
      BY <1>2, <3>1, MagicBytes DEF Timeout, BeginEscape, BadEscape, Data
  <2> QED
    BY <1>2, <2>1, <2>2, <2>3 DEF process_byte
<1>4. Fresh'
  BY FreshAgain DEF LinkTyped
<1>5. delivered' = delivered
  BY <1>3 DEF rx_byte
<1>6. InFrame(p, 0)'
  <2>1. Len(p) \in Nat
    BY DEF Fitting
  <2>2. 0 # 1 /\ 0 \notin 2 .. Len(p) + 1 /\ 0 # Len(p) + 2 /\ 0 # Len(p) + 3
    BY <2>1
  <2> QED
    BY ONLY <1>3, <2>2 DEF InFrame
<1>7. Reads(p, 0)'
  BY <1>1, <1>3, <1>6 DEF Reads, Whole
<1>8. 0 \in 0 .. Len(p) + 3
  BY DEF Fitting
<1> QED
  BY <1>4, <1>5, <1>7, <1>8 DEF FrameDue

(* And the frame goes on, to its end.                                      *)
LEMMA FrameArrives ==
  ASSUME CrcIs16Bit, ClockTyped, ClockOK, LinkTyped, rx_byte,
         NEW p, Fitting(p), FrameDue(p)
  PROVE  \/ FrameDue(p)' /\ delivered' = delivered
         \/ wire' = <<>> /\ delivered' = Append(delivered, AppData(p))
<1>1. PICK k \in 0 .. Len(p) + 3 : Reads(p, k)
  BY DEF FrameDue
<1>2. Timely(now)
  BY FreshTimely DEF FrameDue
<1>3. Fresh'
  BY FreshAgain DEF LinkTyped
<1>4. Len(p) \in Nat
  BY DEF Fitting
<1>5. \/ Reads(p, k)' /\ result' = 0
      \/ k # Len(p) + 3 /\ Reads(p, k + 1)' /\ result' = 0
      \/ Completes(p)
  BY <1>1, <1>2, ReadsStep DEF rx_byte, LinkTyped
<1>6. CASE Reads(p, k)' /\ result' = 0
  BY <1>3, <1>6 DEF FrameDue, rx_byte
<1>7. CASE k # Len(p) + 3 /\ Reads(p, k + 1)' /\ result' = 0
  <2>1. k + 1 \in 0 .. Len(p) + 3
    BY <1>4, <1>7
  <2> QED
    BY <1>3, <1>7, <2>1 DEF FrameDue, rx_byte
<1>8. CASE Completes(p)
  <2>1. HasData(payload) /\ result' = 1 /\ payload = p
    BY <1>8 DEF Completes, Fitting
  <2> QED
    BY <1>8, <2>1 DEF Completes, rx_byte
<1> QED
  BY <1>5, <1>6, <1>7, <1>8

-----------------------------------------------------------------------------
LEMMA ByteArrives ==
  ASSUME CrcIs16Bit, ClockTyped, ClockOK, LinkTyped, rx_byte,
         NEW p, Fitting(p), IntactStep(p)
  PROVE  \/ (MagicDue(p) \/ FrameDue(p))' /\ delivered' = delivered
         \/ wire' = <<>> /\ delivered' = Append(delivered, AppData(p))
<1>1. ~Arrived(p)
  BY DEF Arrived, rx_byte
<1> QED
  BY <1>1, HeaderArrives, MagicArrives, FrameArrives DEF IntactStep

(* What is read of the frame does not change between two bytes.            *)
LEMMA ReadsStays ==
  ASSUME NEW p, NEW k, UNCHANGED <<parserVars, wire>>, Reads(p, k)
  PROVE  Reads(p, k)'
<1>1. UNCHANGED <<state, escape_pending, payload, payload_len, crc_calculated,
                  crc_received, wire>>
  BY DEF parserVars
<1>2. InFrame(p, k)'
  BY <1>1 DEF Reads, InFrame, AtLenL, AtLenH, AtPayload, AtCrcL, AtCrcH
<1>3. (Whole(p, k) <=> Whole(p, k)') /\ (Half(p, k) <=> Half(p, k)')
  BY <1>1 DEF Whole, Half
<1> QED
  BY <1>1, <1>2, <1>3 DEF Reads

LEMMA IntactStays ==
  ASSUME NEW p, UNCHANGED <<parserVars, wire, delivered>>,
         silence' <= TimeoutMs \/ prev = NoByte \/ silence' = silence, IntactStep(p)
  PROVE  IntactStep(p)'
<1>1. UNCHANGED <<state, escape_pending, prev, wire, delivered>>
  BY DEF parserVars
<1>2. Fresh => Fresh'
  BY <1>1 DEF Fresh
<1>3. AfterMagic => AfterMagic'
  BY <1>1 DEF AfterMagic
<1>4. CASE HeaderDue(p)
  BY <1>1, <1>4 DEF IntactStep, HeaderDue
<1>5. CASE MagicDue(p)
  BY <1>1, <1>2, <1>3, <1>5 DEF IntactStep, MagicDue
<1>6. CASE FrameDue(p)
  <2>1. PICK k \in 0 .. Len(p) + 3 : Reads(p, k)
    BY <1>6 DEF FrameDue
  <2>2. Reads(p, k)'
    BY <2>1, ReadsStays
  <2>3. Fresh'
    BY <1>2, <1>6 DEF FrameDue
  <2> QED
    BY <2>2, <2>3 DEF IntactStep, FrameDue
<1>7. CASE Arrived(p)
  BY <1>1, <1>7 DEF IntactStep, Arrived
<1> QED
  BY <1>4, <1>5, <1>6, <1>7 DEF IntactStep

LEMMA IntactKept ==
  ASSUME CrcIs16Bit, PayloadsFit, ClockTyped, ClockOK, LinkTyped, IntactOK, [Next]_vars
  PROVE  IntactOK'
<1> SUFFICES ASSUME intact', NEW i \in 1 .. Len(Payloads), sent' = i
             PROVE  IntactStep(Payloads[i])'
  BY DEF IntactOK
<1> DEFINE p == Payloads[i]
<1>1. Fitting(p)
  BY PayloadFacts
<1> HIDE DEF p
<1>2. CASE SendFrame
  <2>1. wire' = build_frame(p) /\ ~escape_pending'
    BY <1>2 DEF SendFrame, parserVars, p
  <2> QED
    BY <2>1 DEF IntactStep, HeaderDue, p
<1>3. CASE Lose \/ Damage \/ Insert
  BY <1>3 DEF Lose, Damage, Insert, Fault
<1>4. CASE Pause
  <2>1. /\ intact /\ (silence' <= TimeoutMs \/ prev = NoByte) /\ sent = i
        /\ UNCHANGED <<parserVars, wire, delivered>>
    BY <1>4 DEF Pause
  <2>2. IntactStep(p)
    BY <2>1 DEF IntactOK, p
  <2> QED
    BY <2>1, <2>2, IntactStays DEF p
<1>5. CASE rx_byte
  <2>1. intact /\ sent = i
    BY <1>5 DEF rx_byte
  <2>2. IntactStep(p)
    BY <2>1 DEF IntactOK, p
  <2>3. \/ (MagicDue(p) \/ FrameDue(p))'
        \/ wire' = <<>> /\ delivered' = Append(delivered, AppData(p))
    BY <1>1, <1>5, <2>2, ByteArrives
  <2>4. CASE wire' = <<>> /\ delivered' = Append(delivered, AppData(p))
    <3>1. delivered' # <<>> /\ Last(delivered') = AppData(p)
      BY <2>4, AppendFacts DEF LinkTyped
    <3> QED
      BY <2>4, <3>1 DEF IntactStep, Arrived, p
  <2>5. CASE (MagicDue(p) \/ FrameDue(p))'
    BY <2>5 DEF IntactStep, p
  <2> QED
    BY <2>3, <2>4, <2>5
<1>6. CASE UNCHANGED vars
  <2>1. intact /\ sent = i /\ UNCHANGED <<silence, wire, delivered, parserVars>>
    BY <1>6 DEF vars, linkVars
  <2>2. IntactStep(p)
    BY <2>1 DEF IntactOK, p
  <2> QED
    BY <2>1, <2>2, IntactStays DEF p
<1> QED
  BY <1>2, <1>3, <1>4, <1>5, <1>6 DEF Next

LEMMA LinkInit == Init => LinkTyped /\ IntactOK
<1> SUFFICES ASSUME Init PROVE LinkTyped /\ IntactOK
  OBVIOUS
<1>1. /\ escape_pending = FALSE /\ wire = <<>> /\ sent = 0 /\ delivered = <<>>
      /\ state = "WAIT_MAGIC1"
  BY DEF Init, parser_init
<1>2. <<>> \in Seq(Byte) /\ 0 \in 0 .. Len(Payloads)
  BY LinkAssumption
<1>3. IsSeq(delivered)
  BY <1>1, <1>2 DEF IsSeq
<1>4. LinkTyped
  <2>1. escape_pending \in BOOLEAN /\ ~escape_pending
    BY <1>1
  <2> QED
    BY <1>1, <1>2, <1>3, <2>1 DEF LinkTyped
<1>5. IntactOK
  BY <1>1 DEF IntactOK
<1> QED
  BY <1>4, <1>5

LinkInv == ClockTyped /\ ClockOK /\ LinkTyped /\ IntactOK

LEMMA LinkInvariant ==
  ASSUME CrcIs16Bit, PayloadsFit
  PROVE  Spec => []LinkInv
<1>1. Init => LinkInv
  BY ClockInit, LinkInit DEF LinkInv
<1>2. LinkInv /\ [Next]_vars => LinkInv'
  BY ClockStep, LinkTypedStep, IntactKept DEF LinkInv
<1> QED
  BY <1>1, <1>2, PTL DEF Spec

(* A frame that arrives intact, with no pause longer than the timeout in   *)
(* it, is delivered whatever came before it: the parser begins it anew at  *)
(* its header wherever it was (llp_protocol.h:213-225, 246-261), and what  *)
(* was stuffed comes out as it was (llp_protocol.h:226-241), so that       *)
(* length, data and checksum agree (llp_protocol.h:264-306).               *)
THEOREM IntactTheorem ==
  ASSUME CrcIs16Bit, PayloadsFit
  PROVE  Spec => []IntactFrameDelivered
<1>1. LinkInv => IntactFrameDelivered
  <2> SUFFICES ASSUME LinkInv, wire = <<>>, sent > 0, intact
               PROVE  delivered # <<>> /\ Last(delivered) = DataOf(sent)
    BY DEF IntactFrameDelivered
  <2>1. sent \in 1 .. Len(Payloads)
    BY LinkAssumption DEF LinkInv, LinkTyped
  <2>2. IntactStep(Payloads[sent]) /\ Fitting(Payloads[sent])
    BY <2>1, PayloadFacts DEF LinkInv, IntactOK
  <2>3. ~HeaderDue(Payloads[sent]) /\ ~MagicDue(Payloads[sent])
    BY <2>2, HeaderStep DEF HeaderDue, MagicDue
  <2>4. ~FrameDue(Payloads[sent])
    <3> SUFFICES ASSUME NEW k \in 0 .. Len(Payloads[sent]) + 3, Reads(Payloads[sent], k)
                 PROVE  FALSE
      BY DEF FrameDue
    <3> QED
      BY <2>2, OnTheLine DEF Reads
  <2> QED
    BY <2>2, <2>3, <2>4 DEF IntactStep, Arrived, DataOf
<1> QED
  BY <1>1, LinkInvariant, PTL

-----------------------------------------------------------------------------
(* What has been delivered is in order, and comes from the first n.        *)
Ordered(n) ==
  \E f \in [DOMAIN delivered -> 1 .. n] :
    /\ \A i \in DOMAIN delivered : delivered[i] = DataOf(f[i])
    /\ \A i, j \in DOMAIN delivered : i < j => f[i] < f[j]
Begun == IF wire = <<>> THEN sent ELSE sent - 1
OrderOK == Ordered(Begun)

LEMMA OrderedMore ==
  ASSUME NEW n \in Nat, NEW m \in Nat, n <= m, Ordered(n)
  PROVE  Ordered(m)
<1>1. PICK f \in [DOMAIN delivered -> 1 .. n] :
        /\ \A i \in DOMAIN delivered : delivered[i] = DataOf(f[i])
        /\ \A i, j \in DOMAIN delivered : i < j => f[i] < f[j]
  BY DEF Ordered
<1>2. f \in [DOMAIN delivered -> 1 .. m]
  BY <1>1
<1> QED
  BY <1>1, <1>2 DEF Ordered

LEMMA OrderedStays ==
  ASSUME NEW n, Ordered(n), delivered' = delivered PROVE Ordered(n)'
BY DEF Ordered

LEMMA OrderedOneMore ==
  ASSUME NEW n \in Nat, Ordered(n), IsSeq(delivered),
         delivered' = Append(delivered, DataOf(n + 1))
  PROVE  Ordered(n + 1)'
<1> DEFINE m == Len(delivered)
           e == DataOf(n + 1)
<1>1. /\ m \in Nat /\ DOMAIN delivered = 1 .. m /\ DOMAIN delivered' = 1 .. m + 1
      /\ delivered'[m + 1] = e /\ \A i \in 1 .. m : delivered'[i] = delivered[i]
  BY AppendFacts
<1> HIDE DEF m
<1>2. PICK f \in [1 .. m -> 1 .. n] :
        /\ \A i \in 1 .. m : delivered[i] = DataOf(f[i])
        /\ \A i, j \in 1 .. m : i < j => f[i] < f[j]
  BY <1>1 DEF Ordered
<1> DEFINE g == [i \in 1 .. m + 1 |-> IF i = m + 1 THEN n + 1 ELSE f[i]]
<1>3. g[m + 1] = n + 1 /\ \A i \in 1 .. m : g[i] = f[i]
  BY <1>1
<1>4. g \in [1 .. m + 1 -> 1 .. n + 1]
  BY <1>1, <1>2
<1> HIDE DEF g
<1>5. \A i \in 1 .. m + 1 : delivered'[i] = DataOf(g[i])
  <2> SUFFICES ASSUME NEW i \in 1 .. m + 1 PROVE delivered'[i] = DataOf(g[i])
    OBVIOUS
  <2>1. i = m + 1 \/ i \in 1 .. m
    BY <1>1
  <2>2. i \in 1 .. m => DataOf(f[i]) = DataOf(g[i])
    BY <1>3
  <2> QED
    BY <1>1, <1>2, <1>3, <2>1, <2>2
<1>6. \A i, j \in 1 .. m + 1 : i < j => g[i] < g[j]
  <2> SUFFICES ASSUME NEW i \in 1 .. m + 1, NEW j \in 1 .. m + 1, i < j
               PROVE  g[i] < g[j]
    OBVIOUS
  <2>1. i \in 1 .. m /\ g[i] = f[i] /\ f[i] \in 1 .. n
    BY <1>1, <1>2, <1>3
  <2>2. CASE j = m + 1
    BY <1>3, <2>1, <2>2
  <2>3. CASE j # m + 1
    <3>1. j \in 1 .. m
      BY <1>1, <2>3
    <3> QED
      BY <1>2, <1>3, <2>1, <3>1
  <2> QED
    BY <2>2, <2>3
<1> QED
  BY <1>1, <1>4, <1>5, <1>6 DEF Ordered

LEMMA OrderInit == Init => OrderOK
<1> SUFFICES ASSUME Init PROVE OrderOK
  OBVIOUS
<1>1. DOMAIN delivered = {} /\ Begun = 0
  BY DEF Init, Begun
<1>2. <<>> \in [{} -> 1 .. 0]
  OBVIOUS
<1> QED
  BY <1>1, <1>2 DEF OrderOK, Ordered

(* Everything but a delivery keeps it, and so does the delivery of the     *)
(* frame that was begun last, at its end.                                  *)
LEMMA OrderKept ==
  ASSUME LinkTyped, [Next]_vars, OrderOK,
         \/ delivered' = delivered
         \/ sent' = sent /\ wire # <<>> /\ wire' = <<>>
            /\ delivered' = Append(delivered, DataOf(sent))
  PROVE  OrderOK'
<1>1. sent \in Nat /\ (wire # <<>> => sent > 0)
  BY LinkAssumption DEF LinkTyped
<1>2. CASE delivered' = delivered
  <2>1. Begun \in Nat /\ Begun' \in Nat /\ Begun <= Begun'
    <3>1. CASE SendFrame
      <4>1. wire = <<>> /\ sent' = sent + 1
        BY <3>1 DEF SendFrame
      <4> QED
        BY <1>1, <4>1 DEF Begun
    <3>2. CASE ~SendFrame
      <4>1. sent' = sent /\ (wire = <<>> => wire' = <<>>)
        BY <3>2 DEF Next, vars, linkVars, Lose, Damage, Insert, Fault, Pause, rx_byte
      <4> QED
        BY <1>1, <4>1 DEF Begun
    <3> QED
      BY <3>1, <3>2
  <2>2. PICK n \in Nat, m \in Nat : n = Begun /\ m = Begun'
    BY <2>1
  <2>3. Ordered(m)
    BY <2>1, <2>2, OrderedMore DEF OrderOK
  <2>4. Ordered(m)'
    BY <1>2, <2>3, OrderedStays
  <2> QED
    BY <2>2, <2>4 DEF OrderOK
<1>3. CASE sent' = sent /\ wire # <<>> /\ wire' = <<>>
           /\ delivered' = Append(delivered, DataOf(sent))
  <2>1. PICK n \in Nat : n + 1 = sent /\ n = Begun /\ n + 1 = Begun'
    BY <1>1, <1>3 DEF Begun
  <2>2. Ordered(n + 1)'
    BY <1>3, <2>1, OrderedOneMore DEF OrderOK, LinkTyped
  <2> QED
    BY <2>1, <2>2 DEF OrderOK
<1> QED
  BY <1>2, <1>3

LEMMA OrderGives ==
  ASSUME LinkTyped, OrderOK PROVE DeliveredInOrder
<1>1. PICK n \in Nat, m \in Nat : n = Begun /\ m = sent /\ n <= m
  BY LinkAssumption DEF LinkTyped, Begun
<1>2. Ordered(m)
  BY <1>1, OrderedMore DEF OrderOK
<1> QED
  BY <1>1, <1>2 DEF Ordered, DeliveredInOrder

(* The checksum has caught every frame that did not arrive intact.         *)
ChecksumCatches == [][delivered' # delivered => intact]_vars

LEMMA IntactInOrder ==
  ASSUME CrcIs16Bit, PayloadsFit, LinkInv, OrderOK, [Next]_vars,
         [delivered' # delivered => intact]_vars
  PROVE  OrderOK'
<1>1. CASE delivered' = delivered
  BY <1>1, OrderKept DEF LinkInv
<1>2. CASE delivered' # delivered
  <2>1. rx_byte /\ intact
    BY <1>2 DEF Next, vars, linkVars, SendFrame, Lose, Damage, Insert, Fault, Pause
  <2>2. wire # <<>> /\ sent' = sent
    BY <2>1 DEF rx_byte
  <2>3. sent \in 1 .. Len(Payloads)
    BY <2>2, LinkAssumption DEF LinkInv, LinkTyped
  <2>4. IntactStep(Payloads[sent]) /\ Fitting(Payloads[sent])
    BY <2>1, <2>3, PayloadFacts DEF LinkInv, IntactOK
  <2>5. PICK p : p = Payloads[sent]
    OBVIOUS
  <2>6. wire' = <<>> /\ delivered' = Append(delivered, AppData(p))
    BY <1>2, <2>1, <2>4, <2>5, ByteArrives DEF LinkInv
  <2>7. delivered' = Append(delivered, DataOf(sent))
    BY <2>5, <2>6 DEF DataOf
  <2> QED
    BY <2>2, <2>6, <2>7, OrderKept DEF LinkInv
<1> QED
  BY <1>1, <1>2

(* What is delivered are payloads of the host, in its order and each at    *)
(* most once, over a line with any faults, as long as the comparison of    *)
(* the checksums (llp_protocol.h:298-312) catches the frames that did not  *)
(* arrive intact.                                                          *)
THEOREM OrderTheorem ==
  ASSUME CrcIs16Bit, PayloadsFit
  PROVE  Spec /\ ChecksumCatches => []DeliveredInOrder
<1>1. Init => OrderOK
  BY OrderInit
<1>2. LinkInv /\ OrderOK /\ [Next]_vars /\ [delivered' # delivered => intact]_vars => OrderOK'
  BY IntactInOrder
<1>3. LinkInv /\ OrderOK => DeliveredInOrder
  BY OrderGives DEF LinkInv
<1> QED
  BY <1>1, <1>2, <1>3, LinkInvariant, PTL DEF Spec, ChecksumCatches

-----------------------------------------------------------------------------
(* On a line without faults the parser is at the line's place in the       *)
(* frame, or a pause has made it give the frame up and it hunts for the    *)
(* next one: inside a frame it meets no header.                            *)
GivenUp(p, k) ==
  \/ Whole(p, k) /\ state = "WAIT_MAGIC1"
  \/ Half(p, k) /\ state \in Hunting
InStep(p) ==
  \/ wire \in {<<>>, build_frame(p)} /\ state = "WAIT_MAGIC1"
  \/ wire = <<Magic2>> \o Left(Plain(p), 0) /\ state = "WAIT_MAGIC2"
  \/ \E k \in 0 .. Len(p) + 3 : Reads(p, k) \/ GivenUp(p, k)
FaultlessOK ==
  /\ sent = 0 => state = "WAIT_MAGIC1" /\ wire = <<>>
  /\ \A i \in 1 .. Len(Payloads) : sent = i => InStep(Payloads[i])

LEMMA WholeNext ==
  ASSUME CrcIs16Bit, NEW p, Fitting(p), NEW k \in 0 .. Len(p) + 3,
         Whole(p, k + 1)', state' = "WAIT_MAGIC1"
  PROVE  InStep(p)'
<1>1. Len(p) \in Nat
  BY DEF Fitting
<1>2. CASE k = Len(p) + 3
  BY <1>2, WholeEnd DEF InStep
<1>3. CASE k # Len(p) + 3
  <2>1. k + 1 \in 0 .. Len(p) + 3
    BY <1>1, <1>3
  <2>2. PICK j \in 0 .. Len(p) + 3 : j = k + 1
    BY <2>1
  <2>3. Whole(p, j)'
    BY <2>2
  <2> QED
    BY <2>3 DEF InStep, GivenUp
<1> QED
  BY <1>2, <1>3

(* A byte that comes too late, or while the parser hunts.                  *)
LEMMA HuntsOn ==
  ASSUME NEW b, process_byte(b, now), b # Magic2,
         state \in Hunting \/ ~Timely(now)
  PROVE  /\ state' \in Hunting /\ result' # 1
         /\ b # Magic1 => state' = "WAIT_MAGIC1"
<1>1. CASE Timeout(b, now)
  BY <1>1 DEF Timeout, parser_reset, Fails, Hunting
<1>2. CASE ~Timeout(b, now)
  <2>1. state \in Hunting
    BY <1>2 DEF process_byte, Hunting
  <2>2. Hunt(b)
    BY <1>2, <2>1 DEF process_byte, BeginEscape, Resync, BadEscape, Data, Reading, Hunting
  <2> QED
    BY <2>2 DEF Hunt, AfterMagic1, Returns, Hunting
<1> QED
  BY <1>1, <1>2

LEMMA GivesUp ==
  ASSUME CrcIs16Bit, NEW p, Fitting(p), NEW k \in 0 .. Len(p) + 3,
         Whole(p, k) \/ Half(p, k), wire' = Tail(wire), process_byte(Head(wire), now),
         state \in Hunting \/ ~Timely(now),
         state \in Hunting => GivenUp(p, k)
  PROVE  InStep(p)' /\ result' # 1
<1>1. CASE Whole(p, k)
  <2>1. NextWhole(p, k, Head(wire))
    BY <1>1, WholeStep
  <2>2. CASE Plain(p)[k + 1] = Magic1
    <3>1. Head(wire) = Magic1 /\ Half(p, k)'
      BY <2>1, <2>2 DEF NextWhole
    <3>2. state' \in Hunting /\ result' # 1
      BY <3>1, HuntsOn, MagicBytes
    <3> QED
      BY <3>1, <3>2 DEF InStep, GivenUp
  <2>3. CASE Plain(p)[k + 1] # Magic1
    <3>1. Head(wire) # Magic1 /\ Whole(p, k + 1)'
      BY <2>1, <2>3 DEF NextWhole
    <3>2. state' = "WAIT_MAGIC1" /\ result' # 1
      <4>1. CASE Timeout(Head(wire), now)
        BY <3>1, <4>1 DEF Timeout, parser_reset, Fails
      <4>2. CASE state = "WAIT_MAGIC1"
        <5>1. Hunt(Head(wire)) \/ Timeout(Head(wire), now)
          BY <4>2 DEF process_byte, BeginEscape, Resync, BadEscape, Data, Reading
        <5> QED
          BY <3>1, <4>1, <4>2, <5>1 DEF Hunt, Returns
      <4>3. state \in Hunting => state = "WAIT_MAGIC1" \/ Half(p, k)
        BY DEF GivenUp
      <4>4. ~Half(p, k)
        BY <2>3 DEF Half
      <4> QED
        BY <4>1, <4>2, <4>3, <4>4 DEF process_byte
    <3> QED
      BY <3>1, <3>2, WholeNext
  <2> QED
    BY <2>2, <2>3
<1>2. CASE Half(p, k)
  <2>1. Head(wire) = 0 /\ Whole(p, k + 1)'
    BY <1>2, HalfStep
  <2>2. state' = "WAIT_MAGIC1" /\ result' # 1
    BY <2>1, HuntsOn, MagicBytes
  <2> QED
    BY <2>1, <2>2, WholeNext
<1> QED
  BY <1>1, <1>2

LEMMA FollowsByte ==
  ASSUME CrcIs16Bit, LinkTyped, rx_byte, NEW p, Fitting(p), InStep(p)
  PROVE  /\ InStep(p)'
         /\ \/ delivered' = delivered
            \/ wire' = <<>> /\ delivered' = Append(delivered, AppData(p))
<1> DEFINE b == Head(wire)
<1>1. /\ process_byte(b, now) /\ wire # <<>> /\ wire' = Tail(wire)
      /\ result' # 1 => delivered' = delivered
  BY DEF rx_byte
<1> HIDE DEF b
<1>2. CASE wire = build_frame(p) /\ state = "WAIT_MAGIC1"
  <2>1. b = Magic1 /\ wire' = <<Magic2>> \o Left(Plain(p), 0)
    BY <1>1, <1>2, HeaderStep DEF b
  <2>2. Hunt(b)
    BY <1>1, <1>2 DEF process_byte, Timeout, BeginEscape, Resync, BadEscape, Data, Reading
  <2>3. state' = "WAIT_MAGIC2" /\ result' # 1
    BY <1>2, <2>1, <2>2 DEF Hunt, Returns
  <2> QED
    BY <1>1, <2>1, <2>3 DEF InStep
<1>3. CASE wire = <<Magic2>> \o Left(Plain(p), 0) /\ state = "WAIT_MAGIC2"
  <2>1. b = Magic2 /\ wire' = Left(Plain(p), 0)
    BY <1>1, <1>3, HeaderStep DEF b
  <2>2. Whole(p, 0)' /\ 0 \in 0 .. Len(p) + 3
    BY <2>1 DEF Whole, Fitting
  <2>3. CASE Timeout(b, now)
    <3>1. state' = "WAIT_MAGIC1" /\ result' # 1
      BY <2>1, <2>3, MagicBytes DEF Timeout, parser_reset, Fails
    <3> QED
      BY <1>1, <2>2, <3>1 DEF InStep, GivenUp
  <2>4. CASE ~Timeout(b, now)
    <3>1. Hunt(b)
      BY <1>1, <1>3, <2>4 DEF process_byte, BeginEscape, Resync, BadEscape, Data, Reading
    <3>2. AtLenL' /\ ~escape_pending' /\ result' # 1
      <4>1. ~escape_pending
        BY <1>3 DEF LinkTyped, Hunting
      <4> QED
        BY <1>3, <2>1, <3>1, <4>1 DEF Hunt, AfterMagic1, Returns, AtLenL
    <3>3. InFrame(p, 0)'
      <4>1. Len(p) \in Nat
        BY DEF Fitting
      <4>2. 0 # 1 /\ 0 \notin 2 .. Len(p) + 1 /\ 0 # Len(p) + 2 /\ 0 # Len(p) + 3
        BY <4>1
      <4> QED
        BY ONLY <3>2, <4>2 DEF InFrame
    <3>4. Reads(p, 0)'
      BY <2>2, <3>2, <3>3 DEF Reads
    <3> QED
      BY <1>1, <2>2, <3>2, <3>4 DEF InStep
  <2> QED
    BY <2>3, <2>4
<1>4. ASSUME NEW k \in 0 .. Len(p) + 3, Reads(p, k), Timely(now)
      PROVE  /\ InStep(p)'
             /\ \/ delivered' = delivered
                \/ wire' = <<>> /\ delivered' = Append(delivered, AppData(p))
  <2>1. \/ Reads(p, k)' /\ result' = 0
        \/ k # Len(p) + 3 /\ Reads(p, k + 1)' /\ result' = 0
        \/ Completes(p)
    BY <1>1, <1>4, ReadsStep DEF LinkTyped, b
  <2>2. CASE Reads(p, k)' /\ result' = 0
    BY <1>1, <2>2 DEF InStep
  <2>3. CASE k # Len(p) + 3 /\ Reads(p, k + 1)' /\ result' = 0
    <3>1. k + 1 \in 0 .. Len(p) + 3
      BY <2>3 DEF Fitting
    <3> QED
      BY <1>1, <2>3, <3>1 DEF InStep
  <2>4. CASE Completes(p)
    <3>1. HasData(payload) /\ result' = 1 /\ payload = p
      BY <2>4 DEF Completes, Fitting
    <3>2. wire' = <<>> /\ delivered' = Append(delivered, AppData(p))
      BY <2>4, <3>1 DEF Completes, rx_byte
    <3> QED
      BY <2>4, <3>2 DEF Completes, InStep
  <2> QED
    BY <2>1, <2>2, <2>3, <2>4
<1>5. ASSUME NEW k \in 0 .. Len(p) + 3, Reads(p, k), ~Timely(now)
      PROVE  InStep(p)' /\ result' # 1
  <2>1. state \notin Hunting
    BY <1>5, FrameReading DEF Reads, Reading, Hunting
  <2> QED
    BY <1>1, <1>5, <2>1, GivesUp DEF Reads, b
<1>6. ASSUME NEW k \in 0 .. Len(p) + 3, GivenUp(p, k)
      PROVE  InStep(p)' /\ result' # 1
  <2>1. state \in Hunting
    BY <1>6 DEF GivenUp, Hunting
  <2> QED
    BY <1>1, <1>6, <2>1, GivesUp DEF GivenUp, b
<1> QED
  BY <1>1, <1>2, <1>3, <1>4, <1>5, <1>6 DEF InStep

LEMMA FollowsStays ==
  ASSUME NEW p, UNCHANGED <<parserVars, wire>>, InStep(p)
  PROVE  InStep(p)'
<1>1. UNCHANGED <<state, wire>>
  BY DEF parserVars
<1>2. \A k : GivenUp(p, k) => GivenUp(p, k)'
  BY <1>1 DEF GivenUp, Whole, Half
<1> QED
  BY <1>1, <1>2, ReadsStays DEF InStep

LEMMA FollowsInit == Init => FaultlessOK
BY DEF Init, parser_init, FaultlessOK

Faultless == faults = 0

LEMMA FollowsStep ==
  ASSUME CrcIs16Bit, PayloadsFit, LinkTyped, FaultlessOK, [Next]_vars,
         Faultless, Faultless'
  PROVE  /\ FaultlessOK'
         /\ \/ delivered' = delivered
            \/ sent' = sent /\ wire # <<>> /\ wire' = <<>>
               /\ delivered' = Append(delivered, DataOf(sent))
<1>1. CASE SendFrame
  <2>1. /\ wire = <<>> /\ sent < Len(Payloads) /\ sent' = sent + 1
        /\ wire' = build_frame(Payloads[sent'])
        /\ UNCHANGED <<state, delivered>>
    BY <1>1 DEF SendFrame, parserVars
  <2>2. sent = 0 \/ sent \in 1 .. Len(Payloads)
    BY LinkAssumption DEF LinkTyped
  <2>3. state = "WAIT_MAGIC1"
    <3>1. CASE sent = 0
      BY <3>1 DEF FaultlessOK
    <3>2. CASE sent \in 1 .. Len(Payloads)
      <4>1. PICK p : p = Payloads[sent] /\ InStep(p) /\ Fitting(p)
        BY <3>2, PayloadFacts DEF FaultlessOK
      <4>2. <<Magic2>> \o Left(Plain(p), 0) # <<>>
        BY <4>1, HeaderStep
      <4>3. \A k \in 0 .. Len(p) + 3 : ~Reads(p, k) /\ ~GivenUp(p, k)
        BY <2>1, <4>1, OnTheLine DEF Reads, GivenUp
      <4> QED
        BY <2>1, <4>1, <4>2, <4>3 DEF InStep
    <3> QED
      BY <2>2, <3>1, <3>2
  <2>4. ASSUME NEW i \in 1 .. Len(Payloads), sent' = i PROVE InStep(Payloads[i])'
    BY <2>1, <2>3, <2>4 DEF InStep
  <2>5. sent' # 0
    BY <2>1 DEF LinkTyped
  <2> QED
    BY <2>1, <2>4, <2>5 DEF FaultlessOK
<1>2. CASE Lose \/ Damage \/ Insert
  <2>1. faults' = faults + 1 /\ faults < MaxFaults
    BY <1>2 DEF Lose, Damage, Insert, Fault
  <2> QED
    BY <2>1 DEF Faultless
<1>3. CASE Pause \/ UNCHANGED vars
  <2>1. UNCHANGED <<parserVars, wire, sent, delivered>>
    BY <1>3 DEF Pause, vars, linkVars
  <2>2. UNCHANGED state
    BY <2>1 DEF parserVars
  <2> QED
    BY <2>1, <2>2, FollowsStays DEF FaultlessOK
<1>4. CASE rx_byte
  <2>1. sent' = sent /\ wire # <<>> /\ sent \in 1 .. Len(Payloads)
    BY <1>4, LinkAssumption DEF rx_byte, LinkTyped
  <2>2. PICK i \in 1 .. Len(Payloads) : i = sent
    BY <2>1
  <2>3. InStep(Payloads[i]) /\ Fitting(Payloads[i])
    BY <2>2, PayloadFacts DEF FaultlessOK
  <2>4. /\ InStep(Payloads[i])'
        /\ \/ delivered' = delivered
           \/ wire' = <<>> /\ delivered' = Append(delivered, AppData(Payloads[i]))
    BY <1>4, <2>3, FollowsByte
  <2>5. FaultlessOK'
    BY <2>1, <2>2, <2>4 DEF FaultlessOK
  <2> QED
    BY <2>1, <2>2, <2>4, <2>5 DEF DataOf
<1> QED
  BY <1>1, <1>2, <1>3, <1>4 DEF Next

(* The same without any assumption about the checksum, over a line without *)
(* faults that pauses as it likes: a frame that is given up for a pause    *)
(* (llp_protocol.h:193-204) leaves nothing that could pass for a frame,    *)
(* because stuffing keeps the header out of it (llp_protocol.h:429-436).   *)
THEOREM FaultlessTheorem ==
  ASSUME CrcIs16Bit, PayloadsFit
  PROVE  Spec /\ []Faultless => []DeliveredInOrder
<1>1. Init => OrderOK /\ FaultlessOK
  BY OrderInit, FollowsInit
<1>2. LinkInv /\ OrderOK /\ FaultlessOK /\ Faultless /\ Faultless' /\ [Next]_vars
        => (OrderOK /\ FaultlessOK)'
  BY FollowsStep, OrderKept DEF LinkInv
<1>3. LinkInv /\ OrderOK => DeliveredInOrder
  BY OrderGives DEF LinkInv
<1> QED
  BY <1>1, <1>2, <1>3, LinkInvariant, PTL DEF Spec

-----------------------------------------------------------------------------
(* The numbers of a set up to one of them give each its rank.              *)
Below(S, i) == {j \in S : j <= i}
Rank(S, i) == Cardinality(Below(S, i))

LEMMA Finite ==
  ASSUME NEW n \in Nat, NEW S \in SUBSET (1 .. n), NEW i \in Nat
  PROVE  /\ IsFiniteSet(S) /\ Cardinality(S) \in Nat
         /\ IsFiniteSet(Below(S, i)) /\ Rank(S, i) \in Nat
         /\ Rank(S, i) <= Cardinality(S)
<1>1. IsFiniteSet(1 .. n)
  BY FS_Interval
<1>2. IsFiniteSet(S)
  BY <1>1, FS_Subset
<1>3. Below(S, i) \in SUBSET S
  BY DEF Below
<1>4. IsFiniteSet(Below(S, i)) /\ Cardinality(Below(S, i)) <= Cardinality(S)
  BY <1>2, <1>3, FS_Subset
<1> QED
  BY <1>2, <1>4, FS_CardinalityType DEF Rank

LEMMA RankIsUnique ==
  ASSUME NEW n \in Nat, NEW S \in SUBSET (1 .. n), NEW i \in S, NEW j \in S,
         Rank(S, i) = Rank(S, j)
  PROVE  i = j
<1>1. ASSUME NEW x \in S, NEW y \in S, Rank(S, x) = Rank(S, y), x < y PROVE FALSE
  <2>0. x \in Nat /\ y \in Nat /\ \A z \in S : z \in Nat
    OBVIOUS
  <2>1. Below(S, x) \in SUBSET Below(S, y) /\ y \in Below(S, y) /\ y \notin Below(S, x)
    <3>1. \A z \in S : z <= x => z <= y
      BY <1>1, <2>0
    <3>2. y <= y /\ ~(y <= x)
      BY <1>1, <2>0
    <3> QED
      BY ONLY <3>1, <3>2, y \in S DEF Below
  <2>2. IsFiniteSet(Below(S, y))
    BY <2>0, Finite
  <2>3. Below(S, x) = Below(S, y)
    BY <1>1, <2>1, <2>2, FS_Subset DEF Rank
  <2> QED
    BY <2>1, <2>3
<1>2. i \in Nat /\ j \in Nat
  OBVIOUS
<1> QED
  BY <1>1, <1>2

LEMMA NthIs ==
  ASSUME NEW n \in Nat, NEW S \in SUBSET (1 .. n), NEW i \in S
  PROVE  Nth(S, Rank(S, i)) = i
<1> DEFINE k == Rank(S, i)
           x == CHOOSE x \in S : Rank(S, x) = k
<1>1. x \in S /\ Rank(S, x) = k
  OBVIOUS
<1>2. x = i
  BY <1>1, RankIsUnique
<1>3. Nth(S, k) = x
  BY DEF Nth, Rank, Below
<1> QED
  BY <1>2, <1>3

(* A set with one number more, above all others.                           *)
LEMMA RankAbove ==
  ASSUME NEW n \in Nat, NEW S \in SUBSET (1 .. n)
  PROVE  LET U == S \cup {n + 1} IN
         /\ U \in SUBSET (1 .. n + 1)
         /\ Cardinality(U) = Cardinality(S) + 1
         /\ Rank(U, n + 1) = Cardinality(S) + 1
         /\ \A i \in S : Rank(U, i) = Rank(S, i)
<1> DEFINE U == S \cup {n + 1}
<1>1. n + 1 \notin S /\ U \in SUBSET (1 .. n + 1)
  OBVIOUS
<1>2. Cardinality(U) = Cardinality(S) + 1
  BY <1>1, Finite, FS_AddElement
<1>3. Below(U, n + 1) = U
  <2>1. \A j \in U : j <= n + 1
    BY <1>1
  <2> QED
    BY <2>1 DEF Below
<1>4. \A i \in S : Below(U, i) = Below(S, i)
  BY DEF Below
<1> QED
  BY <1>1, <1>2, <1>3, <1>4 DEF Rank

(* Every rank up to the number of elements is that of an element.          *)
AllRanked(n) ==
  \A S \in SUBSET (1 .. n) : \A k \in 1 .. Cardinality(S) : \E i \in S : Rank(S, i) = k
LEMMA RanksExist ==
  ASSUME NEW n \in Nat
  PROVE  AllRanked(n)
<1> DEFINE T == {m \in Nat : AllRanked(m)}
<1>1. 0 \in T
  <2> SUFFICES ASSUME NEW S \in SUBSET (1 .. 0), NEW k \in 1 .. Cardinality(S) PROVE FALSE
    BY DEF AllRanked
  <2>1. S = {}
    OBVIOUS
  <2>2. Cardinality(S) = 0
    BY <2>1, FS_EmptySet
  <2> QED
    BY <2>2
<1>2. ASSUME NEW m \in Nat, m \in T PROVE m + 1 \in T
  <2> SUFFICES ASSUME NEW U \in SUBSET (1 .. m + 1), NEW k \in 1 .. Cardinality(U)
               PROVE  \E i \in U : Rank(U, i) = k
    BY DEF AllRanked
  <2>1. CASE m + 1 \notin U
    <3>1. U \in SUBSET (1 .. m)
      BY <2>1
    <3> QED
      BY <1>2, <3>1 DEF AllRanked
  <2>2. CASE m + 1 \in U
    <3> DEFINE S == U \ {m + 1}
    <3>1. S \in SUBSET (1 .. m) /\ U = S \cup {m + 1}
      BY <2>2
    <3> HIDE DEF S
    <3>2. /\ Cardinality(U) = Cardinality(S) + 1 /\ Rank(U, m + 1) = Cardinality(S) + 1
          /\ \A i \in S : Rank(U, i) = Rank(S, i)
      BY <3>1, RankAbove
    <3>3. Cardinality(S) \in Nat
      BY <3>1, Finite
    <3>4. CASE k = Cardinality(S) + 1
      BY <2>2, <3>2, <3>4
    <3>5. CASE k # Cardinality(S) + 1
      <4>1. k \in 1 .. Cardinality(S)
        BY <3>2, <3>3, <3>5
      <4>2. PICK i \in S : Rank(S, i) = k
        BY <1>2, <3>1, <4>1 DEF AllRanked
      <4> QED
        BY <3>1, <3>2, <4>2
    <3> QED
      BY <3>4, <3>5
  <2> QED
    BY <2>1, <2>2
<1>3. Nat \subseteq T
  <2> HIDE DEF T
  <2> QED BY <1>1, <1>2, Induction
<1> QED
  BY <1>3

LEMMA NthRanks ==
  ASSUME NEW n \in Nat, NEW S \in SUBSET (1 .. n), NEW k \in 1 .. Cardinality(S)
  PROVE  Nth(S, k) \in S /\ Rank(S, Nth(S, k)) = k
<1>1. PICK i \in S : Rank(S, i) = k
  BY RanksExist DEF AllRanked
<1> QED
  BY <1>1, NthIs

LEMMA NthAbove ==
  ASSUME NEW n \in Nat, NEW S \in SUBSET (1 .. n)
  PROVE  LET U == S \cup {n + 1} IN
         /\ Nth(U, Cardinality(S) + 1) = n + 1
         /\ \A k \in 1 .. Cardinality(S) : Nth(U, k) = Nth(S, k)
<1> DEFINE U == S \cup {n + 1}
<1>1. /\ U \in SUBSET (1 .. n + 1) /\ n + 1 \in U /\ Rank(U, n + 1) = Cardinality(S) + 1
      /\ \A i \in S : i \in U /\ Rank(U, i) = Rank(S, i)
  BY RankAbove
<1> HIDE DEF U
<1>2. Nth(U, Cardinality(S) + 1) = n + 1
  BY <1>1, NthIs
<1>3. ASSUME NEW k \in 1 .. Cardinality(S) PROVE Nth(U, k) = Nth(S, k)
  <2>1. Nth(S, k) \in S /\ Rank(S, Nth(S, k)) = k
    BY NthRanks
  <2>2. Nth(S, k) \in U /\ Rank(U, Nth(S, k)) = k
    BY <1>1, <2>1
  <2>3. Nth(U, Rank(U, Nth(S, k))) = Nth(S, k)
    <3>1. n + 1 \in Nat
      OBVIOUS
    <3> QED
      BY ONLY <1>1, <2>2, <3>1, NthIs
  <2> QED
    BY <2>2, <2>3
<1> QED
  BY <1>2, <1>3 DEF U

-----------------------------------------------------------------------------
(* Ends of lines: those there are keep their places when more is put in.   *)
Extends(t, s) == Len(s) <= Len(t) /\ \A i \in 1 .. Len(s) : t[i] = s[i]
NoEnd(s, from, to) == \A i \in from .. to : s[i] # EndOfLine
Lines(s) == Cardinality(Ends(s))

LEMMA EndsTyped ==
  ASSUME NEW s \in Seq(Char)
  PROVE  Ends(s) \in SUBSET (1 .. Len(s)) /\ Len(s) \in Nat /\ Lines(s) \in Nat
<1>1. Ends(s) \in SUBSET (1 .. Len(s)) /\ Len(s) \in Nat
  BY DEF Ends
<1> QED
  BY <1>1, Finite DEF Lines

LEMMA EndTyped ==
  ASSUME NEW s \in Seq(Char), NEW k \in 0 .. Lines(s)
  PROVE  /\ EndOf(s, k) \in 0 .. Len(s)
         /\ k # 0 => EndOf(s, k) \in Ends(s) /\ Rank(Ends(s), EndOf(s, k)) = k
<1>1. CASE k = 0
  BY <1>1, EndsTyped DEF EndOf
<1>2. CASE k # 0
  <2>1. k \in 1 .. Cardinality(Ends(s))
    BY <1>2 DEF Lines
  <2>2. Nth(Ends(s), k) \in Ends(s) /\ Rank(Ends(s), Nth(Ends(s), k)) = k
    BY <2>1, EndsTyped, NthRanks
  <2> QED
    BY <1>2, <2>2, EndsTyped DEF EndOf
<1> QED
  BY <1>1, <1>2

LEMMA EndsStay ==
  ASSUME NEW s \in Seq(Char), NEW t \in Seq(Char), Extends(t, s), NEW k \in 0 .. Lines(s)
  PROVE  k \in 0 .. Lines(t) /\ EndOf(t, k) = EndOf(s, k)
<1>1. Ends(s) \in SUBSET Ends(t)
  BY EndsTyped DEF Extends, Ends
<1>2. IsFiniteSet(Ends(t))
  BY EndsTyped, Finite
<1>3. Lines(s) <= Lines(t)
  BY <1>1, <1>2, FS_Subset DEF Lines
<1>4. k \in 0 .. Lines(t)
  BY <1>3, EndsTyped
<1>5. CASE k = 0
  BY <1>4, <1>5 DEF EndOf
<1>6. CASE k # 0
  <2> DEFINE x == EndOf(s, k)
  <2>1. x \in Ends(s) /\ Rank(Ends(s), x) = k
    BY <1>6, EndTyped
  <2> HIDE DEF x
  <2>2. Below(Ends(t), x) = Below(Ends(s), x)
    BY <2>1, EndsTyped DEF Below, Ends, Extends
  <2>3. x \in Ends(t) /\ Rank(Ends(t), x) = k
    BY <1>1, <2>1, <2>2 DEF Rank
  <2>4. Nth(Ends(t), k) = x
    BY <2>3, EndsTyped, NthIs
  <2> QED
    BY <1>4, <1>6, <2>4 DEF EndOf, x
<1> QED
  BY <1>5, <1>6

(* The next end after the end of a line is the end of the next line.       *)
LEMMA BelowEnd ==
  ASSUME NEW s \in Seq(Char), NEW k \in 0 .. Lines(s)
  PROVE  Cardinality(Below(Ends(s), EndOf(s, k))) = k
<1>1. CASE k = 0
  <2>1. Below(Ends(s), 0) = {}
    BY EndsTyped DEF Below
  <2> QED
    BY <1>1, <2>1, FS_EmptySet DEF EndOf
<1>2. CASE k # 0
  BY <1>2, EndTyped DEF Rank
<1> QED
  BY <1>1, <1>2

LEMMA NextEnd ==
  ASSUME NEW s \in Seq(Char), NEW k \in 0 .. Lines(s), NEW t \in 1 .. Len(s),
         EndOf(s, k) < t, s[t] = EndOfLine, NoEnd(s, EndOf(s, k) + 1, t - 1)
  PROVE  k + 1 \in 0 .. Lines(s) /\ EndOf(s, k + 1) = t
<1> DEFINE b == EndOf(s, k)
<1>1. b \in 0 .. Len(s)
  BY EndTyped
<1>2. Cardinality(Below(Ends(s), b)) = k
  BY BelowEnd
<1> HIDE DEF b
<1>3. t \in Ends(s) /\ t \notin Below(Ends(s), b)
  BY <1>1 DEF Ends, Below, b
<1>4. Below(Ends(s), t) = Below(Ends(s), b) \cup {t}
  <2>1. ASSUME NEW j \in Below(Ends(s), t) PROVE j \in Below(Ends(s), b) \cup {t}
    BY <2>1, <1>1 DEF Below, Ends, NoEnd, b
  <2>2. ASSUME NEW j \in Below(Ends(s), b) PROVE j \in Below(Ends(s), t)
    BY <2>2, <1>1, EndsTyped DEF Below, b
  <2>3. t \in Below(Ends(s), t)
    BY <1>3 DEF Below
  <2> QED
    BY <2>1, <2>2, <2>3
<1>5. IsFiniteSet(Below(Ends(s), b))
  <2>1. b \in Nat
    BY <1>1
  <2> QED
    BY <2>1, EndsTyped, Finite
<1>6. Rank(Ends(s), t) = k + 1
  BY <1>2, <1>3, <1>4, <1>5, FS_AddElement DEF Rank
<1>7. k + 1 <= Lines(s)
  <2>1. t \in Nat
    OBVIOUS
  <2> QED
    BY <1>6, <2>1, EndsTyped, Finite DEF Lines
<1>8. Nth(Ends(s), k + 1) = t
  BY <1>3, <1>6, EndsTyped, NthIs
<1> QED
  BY <1>7, <1>8, EndsTyped DEF EndOf

LEMMA NoMoreEnds ==
  ASSUME NEW s \in Seq(Char), NEW k \in 0 .. Lines(s), NoEnd(s, EndOf(s, k) + 1, Len(s))
  PROVE  Lines(s) = k
<1>1. EndOf(s, k) \in 0 .. Len(s)
  BY EndTyped
<1>2. Below(Ends(s), EndOf(s, k)) = Ends(s)
  BY <1>1, EndsTyped DEF Below, NoEnd, Ends
<1> QED
  BY <1>2, BelowEnd DEF Lines

LEMMA LinesStay ==
  ASSUME NEW s \in Seq(Char), NEW t \in Seq(Char), Extends(t, s), NEW k \in 1 .. Lines(s)
  PROVE  LineOf(t, k) = LineOf(s, k)
<1>1. k - 1 \in 0 .. Lines(s) /\ k \in 0 .. Lines(s)
  BY EndsTyped
<1> DEFINE a == EndOf(s, k - 1)
           b == EndOf(s, k)
<1>2. a = EndOf(t, k - 1) /\ b = EndOf(t, k)
  BY <1>1, EndsStay
<1>3. a \in 0 .. Len(s) /\ b \in 0 .. Len(s)
  BY <1>1, EndTyped
<1> HIDE DEF a, b
<1>4. SubSeq(t, a + 1, b - 1) = SubSeq(s, a + 1, b - 1)
  BY <1>3 DEF Extends
<1> QED
  BY <1>2, <1>4 DEF LineOf, a, b

-----------------------------------------------------------------------------
(* What is left of a line that has come so far, and what line_flags has to *)
(* be then.                                                                *)
Ordinary == Char \ (Realtime \cup {EndOfLine})
Inside(l) == InParentheses(l, Len(l) + 1)
Behind(l) == AfterSemicolon(l, Len(l) + 1)
Rest(l) == Cardinality(Counting(l))
Parsed(l, ln, fl) ==
  IF Rest(l) >= LineSize THEN fl = {"overflow"}
  ELSE /\ fl = IF Behind(l) THEN {"semicolon"}
               ELSE IF Inside(l) THEN {"parentheses"} ELSE {}
       /\ ln = [k \in 1 .. Rest(l) |-> Upper(l[Nth(Counting(l), k)])]

LEMMA CountingTyped ==
  ASSUME NEW l \in Seq(Ordinary)
  PROVE  Counting(l) \in SUBSET (1 .. Len(l)) /\ Len(l) \in Nat /\ Rest(l) \in Nat
<1>1. Counting(l) \in SUBSET (1 .. Len(l)) /\ Len(l) \in Nat
  <2>1. DOMAIN l = 1 .. Len(l) /\ Len(l) \in Nat
    OBVIOUS
  <2>2. Counting(l) \in SUBSET DOMAIN l
    BY DEF Counting
  <2> QED
    BY <2>1, <2>2
<1> QED
  BY <1>1, Finite DEF Rest

(* One more character.                                                     *)
More(t, l, x) == Len(t) = Len(l) + 1 /\ t[Len(l) + 1] = x /\ \A i \in 1 .. Len(l) : t[i] = l[i]

LEMMA PlacesStay ==
  ASSUME NEW l \in Seq(Ordinary), NEW t \in Seq(Ordinary), NEW x, More(t, l, x),
         NEW j \in 1 .. Len(l) + 1
  PROVE  /\ InParentheses(t, j) = InParentheses(l, j)
         /\ AfterSemicolon(t, j) = AfterSemicolon(l, j)
<1>1. Len(l) \in Nat
  OBVIOUS
<1>2. ASSUME NEW m \in 1 .. Len(l) + 1 PROVE InParentheses(t, m) = InParentheses(l, m)
  <2>1. \A i \in 1 .. m - 1 : t[i] = l[i] /\ \A k \in i + 1 .. m - 1 : t[k] = l[k]
    BY <1>1 DEF More
  <2> QED
    BY <2>1 DEF InParentheses
<1>3. \A i \in 1 .. j - 1 : i \in 1 .. Len(l) + 1 /\ t[i] = l[i]
  BY <1>1 DEF More
<1>4. AfterSemicolon(t, j) = AfterSemicolon(l, j)
  BY <1>2, <1>3 DEF AfterSemicolon
<1> QED
  BY <1>2, <1>4

LEMMA InsideMore ==
  ASSUME NEW l \in Seq(Ordinary), NEW t \in Seq(Ordinary), NEW x, More(t, l, x)
  PROVE  Inside(t) <=> x = "(" \/ (Inside(l) /\ x # ")")
<1> DEFINE n == Len(l)
<1>1. n \in Nat /\ Len(t) = n + 1 /\ t[n + 1] = x /\ \A i \in 1 .. n : t[i] = l[i]
  BY DEF More
<1> HIDE DEF n
<1>2. Inside(t) <=> \E i \in 1 .. n + 1 : t[i] = "(" /\ \A k \in i + 1 .. n + 1 : t[k] # ")"
  <2>1. Len(t) + 1 - 1 = n + 1
    BY <1>1
  <2> QED
    BY <2>1 DEF Inside, InParentheses
<1>3. Inside(l) <=> \E i \in 1 .. n : l[i] = "(" /\ \A k \in i + 1 .. n : l[k] # ")"
  <2>1. Len(l) + 1 - 1 = n
    BY <1>1 DEF n
  <2> QED
    BY <2>1 DEF Inside, InParentheses
<1>4. ASSUME Inside(t) PROVE x = "(" \/ (Inside(l) /\ x # ")")
  <2>1. PICK i \in 1 .. n + 1 : t[i] = "(" /\ \A k \in i + 1 .. n + 1 : t[k] # ")"
    BY <1>2, <1>4
  <2>2. CASE i = n + 1
    BY <1>1, <2>1, <2>2
  <2>3. CASE i # n + 1
    <3>1. i \in 1 .. n /\ n + 1 \in i + 1 .. n + 1
      BY <1>1, <2>3
    <3>2. x # ")"
      BY <1>1, <2>1, <3>1
    <3>3. l[i] = "(" /\ \A k \in i + 1 .. n : l[k] # ")"
      <4>1. \A k \in i + 1 .. n : k \in i + 1 .. n + 1 /\ k \in 1 .. n
        BY <1>1, <3>1
      <4> QED
        BY <1>1, <2>1, <3>1, <4>1
    <3> QED
      BY <1>3, <3>1, <3>2, <3>3
  <2> QED
    BY <2>2, <2>3
<1>5. ASSUME x = "(" PROVE Inside(t)
  <2>1. n + 1 \in 1 .. n + 1 /\ \A k \in (n + 1) + 1 .. n + 1 : FALSE
    BY <1>1
  <2> QED
    BY <1>1, <1>2, <1>5, <2>1
<1>6. ASSUME Inside(l), x # ")" PROVE Inside(t)
  <2>1. PICK i \in 1 .. n : l[i] = "(" /\ \A k \in i + 1 .. n : l[k] # ")"
    BY <1>3, <1>6
  <2>2. i \in 1 .. n + 1 /\ \A k \in i + 1 .. n + 1 : k = n + 1 \/ (k \in i + 1 .. n /\ k \in 1 .. n)
    BY <1>1
  <2> QED
    BY <1>1, <1>2, <1>6, <2>1, <2>2
<1> QED
  BY <1>4, <1>5, <1>6

LEMMA BehindMore ==
  ASSUME NEW l \in Seq(Ordinary), NEW t \in Seq(Ordinary), NEW x, More(t, l, x)
  PROVE  Behind(t) <=> Behind(l) \/ (x = ";" /\ ~Inside(l))
<1> DEFINE n == Len(l)
<1>1. n \in Nat /\ Len(t) = n + 1 /\ t[n + 1] = x /\ \A i \in 1 .. n : t[i] = l[i]
  BY DEF More
<1>2. \A j \in 1 .. n + 1 : InParentheses(t, j) = InParentheses(l, j)
  BY PlacesStay
<1>3. Inside(l) = InParentheses(l, n + 1)
  BY DEF Inside
<1>4. Behind(l) <=> \E i \in 1 .. n : l[i] = ";" /\ ~InParentheses(l, i)
  <2>1. Len(l) + 1 - 1 = n
    BY <1>1
  <2> QED
    BY <2>1 DEF Behind, AfterSemicolon
<1> HIDE DEF n
<1>5. Behind(t) <=> \E i \in 1 .. n + 1 : t[i] = ";" /\ ~InParentheses(t, i)
  <2>1. (Len(t) + 1) - 1 = n + 1
    BY <1>1
  <2>2. AfterSemicolon(t, Len(t) + 1)
          <=> \E i \in 1 .. (Len(t) + 1) - 1 : t[i] = ";" /\ ~InParentheses(t, i)
    BY DEF AfterSemicolon
  <2> QED
    BY <2>1, <2>2 DEF Behind
<1>6. \A i : i \in 1 .. n + 1 <=> i \in 1 .. n \/ i = n + 1
  BY <1>1
<1> QED
  BY <1>1, <1>2, <1>3, <1>4, <1>5, <1>6

LEMMA CountingMore ==
  ASSUME NEW l \in Seq(Ordinary), NEW t \in Seq(Ordinary), NEW x, More(t, l, x)
  PROVE  Counting(t) = IF ~Inside(l) /\ ~Behind(l) /\ x \notin {" ", "(", ";"}
                       THEN Counting(l) \cup {Len(l) + 1} ELSE Counting(l)
<1> DEFINE n == Len(l)
           C(s, j) == /\ ~InParentheses(s, j) /\ ~AfterSemicolon(s, j)
                      /\ s[j] \notin {" ", "(", ";"}
<1>1. /\ n \in Nat /\ Len(t) = n + 1 /\ t[n + 1] = x /\ \A i \in 1 .. n : t[i] = l[i]
      /\ DOMAIN l = 1 .. n /\ DOMAIN t = 1 .. n + 1
  BY DEF More
<1>2. \A j \in 1 .. n + 1 : /\ InParentheses(t, j) = InParentheses(l, j)
                            /\ AfterSemicolon(t, j) = AfterSemicolon(l, j)
  BY PlacesStay
<1>3. Inside(l) = InParentheses(l, n + 1) /\ Behind(l) = AfterSemicolon(l, n + 1)
  BY DEF Inside, Behind
<1>4. Counting(l) = {j \in 1 .. n : C(l, j)} /\ Counting(t) = {j \in 1 .. n + 1 : C(t, j)}
  BY <1>1 DEF Counting
<1> HIDE DEF n
<1>5. \A i : i \in 1 .. n + 1 <=> i \in 1 .. n \/ i = n + 1
  BY <1>1
<1>6. \A j \in 1 .. n : C(t, j) <=> C(l, j)
  BY <1>1, <1>2, <1>5
<1>7. C(t, n + 1) <=> ~Inside(l) /\ ~Behind(l) /\ x \notin {" ", "(", ";"}
  BY <1>1, <1>2, <1>3, <1>5
<1> HIDE DEF C
<1>8. Counting(t) = IF C(t, n + 1) THEN Counting(l) \cup {n + 1} ELSE Counting(l)
  BY <1>4, <1>5, <1>6
<1> QED
  BY <1>7, <1>8 DEF n

(* The filter keeps what it should of one character more.                  *)
LEMMA ParsedNothing == Parsed(<<>>, <<>>, {})
<1>1. ~Inside(<<>>) /\ ~Behind(<<>>)
  BY DEF Inside, Behind, InParentheses, AfterSemicolon
<1>2. Counting(<<>>) = {}
  BY DEF Counting
<1>3. Rest(<<>>) = 0
  BY <1>2, FS_EmptySet DEF Rest
<1>4. <<>> = [k \in 1 .. 0 |-> Upper(<<>>[Nth(Counting(<<>>), k)])]
  OBVIOUS
<1> QED
  BY <1>1, <1>3, <1>4, SizesAssumption DEF Parsed

LEMMA LeftMore ==
  ASSUME NEW l \in Seq(Ordinary), NEW t \in Seq(Ordinary), NEW x, More(t, l, x),
         ~Inside(l), ~Behind(l), x \notin {" ", "(", ";"}
  PROVE  /\ Rest(t) = Rest(l) + 1
         /\ Nth(Counting(t), Rest(l) + 1) = Len(l) + 1
         /\ \A k \in 1 .. Rest(l) : Nth(Counting(t), k) = Nth(Counting(l), k)
<1>1. Counting(t) = Counting(l) \cup {Len(l) + 1}
  BY CountingMore
<1>2. Counting(l) \in SUBSET (1 .. Len(l)) /\ Len(l) \in Nat
  BY CountingTyped
<1>3. /\ Cardinality(Counting(t)) = Cardinality(Counting(l)) + 1
      /\ Nth(Counting(t), Cardinality(Counting(l)) + 1) = Len(l) + 1
      /\ \A k \in 1 .. Cardinality(Counting(l)) : Nth(Counting(t), k) = Nth(Counting(l), k)
  <2>1. PICK n : n = Len(l)
    OBVIOUS
  <2>2. PICK S : S = Counting(l)
    OBVIOUS
  <2>3. n \in Nat /\ S \in SUBSET (1 .. n) /\ Counting(t) = S \cup {n + 1}
    BY <1>1, <1>2, <2>1, <2>2
  <2>4. /\ Cardinality(Counting(t)) = Cardinality(S) + 1
        /\ Nth(Counting(t), Cardinality(S) + 1) = n + 1
        /\ \A k \in 1 .. Cardinality(S) : Nth(Counting(t), k) = Nth(S, k)
    <3>1. PICK U : U = S \cup {n + 1}
      OBVIOUS
    <3>2. Cardinality(U) = Cardinality(S) + 1
      BY <2>3, <3>1, RankAbove
    <3>3. Nth(U, Cardinality(S) + 1) = n + 1
      BY <2>3, <3>1, NthAbove
    <3>4. \A k \in 1 .. Cardinality(S) : Nth(U, k) = Nth(S, k)
      BY <2>3, <3>1, NthAbove
    <3>5. U = Counting(t)
      BY <2>3, <3>1
    <3> QED
      BY ONLY <3>2, <3>3, <3>4, <3>5
  <2> QED
    BY <2>1, <2>2, <2>4
<1> QED
  BY <1>3 DEF Rest

LEMMA ReadySame ==
  ASSUME NEW l \in Seq(Ordinary), NEW t \in Seq(Ordinary), NEW x, More(t, l, x),
         Counting(t) = Counting(l)
  PROVE  /\ Rest(t) = Rest(l)
         /\ [k \in 1 .. Rest(t) |-> Upper(t[Nth(Counting(t), k)])]
              = [k \in 1 .. Rest(l) |-> Upper(l[Nth(Counting(l), k)])]
<1>1. Rest(t) = Rest(l)
  BY DEF Rest
<1>2. ASSUME NEW k \in 1 .. Rest(l) PROVE t[Nth(Counting(t), k)] = l[Nth(Counting(l), k)]
  <2>1. Nth(Counting(l), k) \in Counting(l)
    BY CountingTyped, NthRanks DEF Rest
  <2>2. Nth(Counting(l), k) \in 1 .. Len(l)
    BY <2>1, CountingTyped
  <2> QED
    BY <2>2 DEF More
<1> QED
  BY <1>1, <1>2

LEMMA OneFurther ==
  ASSUME NEW n \in Nat
  PROVE  /\ n + 1 \in 1 .. n + 1 /\ \A k \in 1 .. n : k \in 1 .. n + 1
         /\ \A k \in 1 .. n + 1 : k = n + 1 \/ k \in 1 .. n
OBVIOUS

LEMMA Appended ==
  ASSUME NEW n \in Nat, NEW f, NEW g, NEW y,
         NEW V, f \in [1 .. n -> V], g \in [1 .. n + 1 -> V], y \in V,
         \A k \in 1 .. n : g[k] = f[k], g[n + 1] = y
  PROVE  g = Append(f, y) /\ Len(f) = n
<1>3. f \in Seq(V) /\ Len(f) = n /\ y \in V
  OBVIOUS
<1>4. PICK h : h = Append(f, y)
  OBVIOUS
<1>5. h \in Seq(V) /\ Len(h) = n + 1
  BY <1>3, <1>4
<1>6. h[n + 1] = y /\ \A k \in 1 .. n : h[k] = f[k]
  BY <1>3, <1>4
<1>7. h \in [1 .. n + 1 -> V]
  BY <1>5
<1>8. \A k \in 1 .. n + 1 : h[k] = g[k]
  BY ONLY n \in Nat, OneFurther, <1>6, g[n + 1] = y, \A k \in 1 .. n : g[k] = f[k]
<1> QED
  BY <1>3, <1>4, <1>7, <1>8

LEMMA ReadyMore ==
  ASSUME NEW l \in Seq(Ordinary), NEW t \in Seq(Ordinary), NEW x, More(t, l, x),
         ~Inside(l), ~Behind(l), x \notin {" ", "(", ";"}
  PROVE  [k \in 1 .. Rest(t) |-> Upper(t[Nth(Counting(t), k)])]
           = Append([k \in 1 .. Rest(l) |-> Upper(l[Nth(Counting(l), k)])], Upper(x))
<1>0. PICK n : n = Rest(l)
  OBVIOUS
<1> DEFINE f == [k \in 1 .. n |-> Upper(l[Nth(Counting(l), k)])]
           g == [k \in 1 .. n + 1 |-> Upper(t[Nth(Counting(t), k)])]
<1>1. /\ Rest(t) = n + 1
      /\ Nth(Counting(t), n + 1) = Len(l) + 1
      /\ \A k \in 1 .. n : Nth(Counting(t), k) = Nth(Counting(l), k)
  BY <1>0, LeftMore
<1>2. n \in Nat
  BY <1>0, CountingTyped
<1>3. ASSUME NEW k \in 1 .. n PROVE g[k] = f[k]
  <2>1. Nth(Counting(l), k) \in Counting(l)
    BY <1>0, CountingTyped, NthRanks DEF Rest
  <2>2. Nth(Counting(l), k) \in 1 .. Len(l)
    BY <2>1, CountingTyped
  <2>3. t[Nth(Counting(t), k)] = l[Nth(Counting(l), k)]
    BY <1>1, <2>2 DEF More
  <2>4. k \in 1 .. n + 1
    BY ONLY <1>2, k \in 1 .. n, OneFurther
  <2> QED
    BY <2>3, <2>4
<1>4. g[n + 1] = Upper(x)
  <2>1. n + 1 \in 1 .. n + 1
    BY ONLY <1>2, OneFurther
  <2>2. t[Nth(Counting(t), n + 1)] = x
    BY <1>1 DEF More
  <2> QED
    BY <2>1, <2>2
<1>5. PICK V : V = {f[k] : k \in 1 .. n} \cup {g[k] : k \in 1 .. n + 1}
  OBVIOUS
<1>7. f \in [1 .. n -> V] /\ g \in [1 .. n + 1 -> V]
  BY <1>5
<1>8. g[n + 1] \in V
  BY ONLY <1>2, <1>7, OneFurther
<1> HIDE DEF f, g
<1>6. g = Append(f, Upper(x))
  <2>1. \A k \in 1 .. n : g[k] = f[k]
    BY <1>3
  <2> QED
    BY ONLY <1>2, <1>4, <1>7, <1>8, <2>1, Appended
<1> QED
  BY <1>0, <1>1, <1>6 DEF f, g

LEMMA FilterKeeps ==
  ASSUME NEW l \in Seq(Ordinary), NEW t \in Seq(Ordinary), data \in Ordinary,
         More(t, l, data), Parsed(l, line, flags), Filter
  PROVE  Parsed(t, line', flags')
<1> USE SizesAssumption
<1>1. /\ Inside(t) <=> (data = "(" \/ (Inside(l) /\ data # ")"))
      /\ Behind(t) <=> (Behind(l) \/ (data = ";" /\ ~Inside(l)))
  BY InsideMore, BehindMore
<1>2. Rest(l) \in Nat /\ Rest(t) \in Nat
  BY CountingTyped
<1>3. /\ data \in {"g", "G", " ", "(", ")", ";"}
      /\ data = ";" => data # "("
  BY DEF Ordinary, Char, Realtime
<1>4. ASSUME Counting(t) = Counting(l), line' = line, Rest(l) < LineSize,
             flags' = IF Behind(t) THEN {"semicolon"} ELSE IF Inside(t) THEN {"parentheses"} ELSE {}
      PROVE  Parsed(t, line', flags')
  <2>1. /\ Rest(t) = Rest(l)
        /\ [k \in 1 .. Rest(t) |-> Upper(t[Nth(Counting(t), k)])]
              = [k \in 1 .. Rest(l) |-> Upper(l[Nth(Counting(l), k)])]
    BY <1>4, ReadySame
  <2>2. line = [k \in 1 .. Rest(l) |-> Upper(l[Nth(Counting(l), k)])]
    BY <1>2, <1>4 DEF Parsed
  <2>3. ~(Rest(t) >= LineSize)
    BY <1>2, <1>4, <2>1
  <2> QED
    BY <1>4, <2>1, <2>2, <2>3 DEF Parsed
<1>5. CASE Rest(l) >= LineSize
  <2>1. flags = {"overflow"}
    BY <1>5 DEF Parsed
  <2>2. flags' = flags
    BY <2>1 DEF Filter
  <2>3. Rest(t) >= LineSize
    <3>1. CASE ~Inside(l) /\ ~Behind(l) /\ data \notin {" ", "(", ";"}
      <4>1. Rest(t) = Rest(l) + 1
        BY <3>1, LeftMore
      <4> QED
        BY <1>2, <1>5, <4>1
    <3>2. CASE ~(~Inside(l) /\ ~Behind(l) /\ data \notin {" ", "(", ";"})
      <4>1. Counting(t) = Counting(l)
        BY <3>2, CountingMore
      <4> QED
        BY <1>5, <4>1 DEF Rest
    <3> QED
      BY <3>1, <3>2
  <2> QED
    BY <2>1, <2>2, <2>3 DEF Parsed
<1>6. CASE Rest(l) < LineSize /\ Behind(l)
  <2>1. flags = {"semicolon"}
    BY <1>2, <1>6 DEF Parsed
  <2>2. flags' = flags /\ line' = line
    BY <2>1 DEF Filter
  <2>3. Counting(t) = Counting(l)
    BY <1>6, CountingMore
  <2> QED
    BY <1>1, <1>4, <1>6, <2>1, <2>2, <2>3
<1>7. CASE Rest(l) < LineSize /\ ~Behind(l) /\ Inside(l)
  <2>1. flags = {"parentheses"}
    BY <1>2, <1>7 DEF Parsed
  <2>2. flags' = (IF data = ")" THEN {} ELSE {"parentheses"}) /\ line' = line
    BY <2>1 DEF Filter
  <2>3. Counting(t) = Counting(l)
    BY <1>7, CountingMore
  <2>4. ~Behind(t) /\ (Inside(t) <=> data # ")")
    <3>1. data = "(" => data # ")"
      OBVIOUS
    <3> QED
      BY <1>1, <1>7, <3>1
  <2> QED
    BY <1>4, <1>7, <2>2, <2>3, <2>4
<1>8. CASE Rest(l) < LineSize /\ ~Behind(l) /\ ~Inside(l) /\ data \in {" ", "(", ";"}
  <2>1. flags = {}
    <3>0. Rest(l) < LineSize
      BY <1>8
    <3>1. ~(Rest(l) >= LineSize)
      BY ONLY <1>2, <3>0, SizesAssumption
    <3>2. ~Behind(l) /\ ~Inside(l)
      BY <1>8
    <3> QED
      BY <3>1, <3>2 DEF Parsed
  <2>2. Counting(t) = Counting(l)
    BY <1>8, CountingMore
  <2>3. CASE data = " "
    <3>1. flags' = {} /\ line' = line
      BY <2>1, <2>3 DEF Filter
    <3>2. ~Behind(t) /\ ~Inside(t)
      BY <1>1, <1>8, <2>3
    <3> QED
      BY <1>4, <1>8, <2>2, <3>1, <3>2
  <2>4. CASE data = "("
    <3>1. flags' = {"parentheses"} /\ line' = line
      BY <2>1, <2>4 DEF Filter
    <3>2. ~Behind(t) /\ Inside(t)
      BY <1>1, <1>8, <2>4
    <3> QED
      BY <1>4, <1>8, <2>2, <3>1, <3>2
  <2>5. CASE data = ";"
    <3>1. flags' = {"semicolon"} /\ line' = line
      BY <2>1, <2>5 DEF Filter
    <3>2. Behind(t)
      BY <1>1, <1>8, <2>5
    <3> QED
      BY <1>4, <1>8, <2>2, <3>1, <3>2
  <2> QED
    BY <1>8, <2>3, <2>4, <2>5
<1>9. CASE Rest(l) < LineSize /\ ~Behind(l) /\ ~Inside(l) /\ data \in {"g", "G", ")"}
  <2>1. /\ flags = {}
        /\ line = [k \in 1 .. Rest(l) |-> Upper(l[Nth(Counting(l), k)])]
    BY <1>2, <1>9 DEF Parsed
  <2>2. Rest(t) = Rest(l) + 1
    BY <1>9, LeftMore
  <2>3. [k \in 1 .. Rest(t) |-> Upper(t[Nth(Counting(t), k)])] = Append(line, Upper(data))
    BY <1>9, <2>1, ReadyMore
  <2>4. Len(line) = Rest(l)
    <3>1. PICK n : n = Rest(l)
      OBVIOUS
    <3>2. line = [k \in 1 .. n |-> Upper(l[Nth(Counting(l), k)])] /\ n \in Nat
      BY <1>2, <2>1, <3>1
    <3>3. DOMAIN line = 1 .. n
      BY <3>2
    <3>4. line \in Seq({line[k] : k \in 1 .. n})
      BY <3>2
    <3> QED
      BY <3>1, <3>2, <3>3, <3>4
  <2>5. ~Behind(t) /\ ~Inside(t)
    BY <1>1, <1>9
  <2>6. IF Len(line) >= LineSize - 1
          THEN flags' = {"overflow"} /\ UNCHANGED line
          ELSE line' = Append(line, Upper(data)) /\ UNCHANGED flags
    BY <1>9, <2>1 DEF Filter
  <2>7. CASE Len(line) >= LineSize - 1
    BY <1>2, <2>2, <2>4, <2>6, <2>7 DEF Parsed
  <2>8. CASE ~(Len(line) >= LineSize - 1)
    <3>1. ~(Rest(t) >= LineSize)
      BY <1>2, <2>2, <2>4, <2>8
    <3> QED
      BY <2>1, <2>3, <2>5, <2>6, <2>8, <3>1 DEF Parsed
  <2> QED
    BY <2>7, <2>8
<1>10. Rest(l) >= LineSize \/ Rest(l) < LineSize
  BY <1>2
<1>11. data \in {" ", "(", ";"} \/ data \in {"g", "G", ")"}
  BY <1>3
<1> QED
  BY ONLY <1>5, <1>6, <1>7, <1>8, <1>9, <1>10, <1>11

-----------------------------------------------------------------------------
(* The ring between a base, from which the main program has still to read, *)
(* and its head holds the end of what was put in.                          *)
Dist(a, b) == IF a <= b THEN b - a ELSE (b - a) + RingSize
Stored == Char \ Realtime
Regs == [buffer : [Slot -> Char], head : Slot, reset : BOOLEAN, lost : BOOLEAN,
         stream : Seq(Stored)]
Holds(r, t, b) ==
  /\ Dist(b, r.head) <= Len(r.stream)
  /\ \A x \in Slot : Dist(b, x) < Dist(b, r.head) =>
       r.buffer[x] = r.stream[((Len(r.stream) - Dist(b, r.head)) + Dist(b, x)) + 1]
  /\ Dist(t, r.head) = Dist(t, b) + Dist(b, r.head)
Gone(r, b) == Len(r.stream) - Dist(b, r.head)

LEMMA DistFacts ==
  ASSUME NEW a \in Slot, NEW b \in Slot
  PROVE  /\ Dist(a, b) \in 0 .. RingSize - 1 /\ Dist(a, a) = 0
         /\ Dist(a, b) = 0 => a = b
         /\ NextSlot(b) \in Slot
         /\ NextSlot(b) # a => Dist(a, NextSlot(b)) = Dist(a, b) + 1
         /\ NextSlot(b) = a => Dist(a, b) = RingSize - 1
         /\ a # b => Dist(NextSlot(a), b) = Dist(a, b) - 1
         /\ \A c \in Slot : Dist(a, c) = Dist(a, b) => c = b
BY SizesAssumption DEF Dist, NextSlot, Slot

LEMMA DistAdds ==
  ASSUME NEW t \in Slot, NEW b \in Slot, NEW h \in Slot,
         Dist(t, h) = Dist(t, b) + Dist(b, h), NextSlot(h) # t
  PROVE  NextSlot(h) # b
BY SizesAssumption DEF Dist, NextSlot, Slot

Cost(c) == IF c \in Realtime THEN 0 ELSE 1

LEMMA CharTaken ==
  ASSUME NEW r \in Regs, NEW b \in Slot, tail \in Slot, NEW c \in Char, Holds(r, tail, b)
  PROVE  LET q == rx_char(r, c) IN
         /\ q \in Regs /\ Holds(q, tail, b) /\ Extends(q.stream, r.stream)
         /\ Gone(q, b) = Gone(r, b)
         /\ Dist(tail, q.head) <= Dist(tail, r.head) + Cost(c)
         /\ q.lost = r.lost \/ Dist(tail, r.head) + Cost(c) > RingSize - 1
<1> DEFINE q == rx_char(r, c)
<1>1. /\ r.head \in Slot /\ Len(r.stream) \in Nat /\ r.stream \in Seq(Stored)
      /\ r.buffer \in [Slot -> Char] /\ r.reset \in BOOLEAN /\ r.lost \in BOOLEAN
  BY DEF Regs
<1>2. Dist(tail, r.head) \in 0 .. RingSize - 1 /\ Dist(b, r.head) \in 0 .. RingSize - 1
  BY <1>1, DistFacts
<1>3. Extends(r.stream, r.stream)
  BY <1>1 DEF Extends
<1>4. CASE c \in Realtime
  <2>1. q = r \/ q = [r EXCEPT !.reset = TRUE]
    BY <1>4 DEF rx_char
  <2>2. q \in Regs /\ q.buffer = r.buffer /\ q.head = r.head /\ q.lost = r.lost /\ q.stream = r.stream
    BY <2>1 DEF Regs
  <2>3. Holds(q, tail, b) /\ Gone(q, b) = Gone(r, b)
    BY <2>2 DEF Holds, Gone
  <2>4. Cost(c) = 0
    BY <1>4 DEF Cost
  <2> HIDE DEF q
  <2> QED
    BY <1>2, <1>3, <2>2, <2>3, <2>4 DEF q
<1>5. CASE c \notin Realtime /\ Full(r.head)
  <2>1. q = [r EXCEPT !.lost = TRUE]
    BY <1>5 DEF rx_char, Realtime
  <2>2. q \in Regs /\ q.buffer = r.buffer /\ q.head = r.head /\ q.stream = r.stream
    BY <2>1 DEF Regs
  <2>3. Holds(q, tail, b) /\ Gone(q, b) = Gone(r, b)
    BY <2>2 DEF Holds, Gone
  <2>4. Cost(c) = 1
    BY <1>5 DEF Cost
  <2>5. Dist(tail, r.head) = RingSize - 1
    BY <1>1, <1>5, DistFacts DEF Full
  <2> HIDE DEF q
  <2>6. Dist(tail, r.head) + Cost(c) > RingSize - 1
    BY <1>2, <2>4, <2>5, SizesAssumption
  <2> QED
    BY <1>2, <1>3, <2>2, <2>3, <2>4, <2>6 DEF q
<1>6. CASE c \notin Realtime /\ ~Full(r.head)
  <2>0. c \in Stored /\ c # "reset"
    BY <1>6 DEF Stored, Realtime
  <2>1. q = [r EXCEPT !.buffer[r.head] = c, !.head = NextSlot(r.head), !.stream = Append(@, c)]
    BY <1>6, <2>0 DEF rx_char
  <2>2. /\ q.buffer = [r.buffer EXCEPT ![r.head] = c] /\ q.head = NextSlot(r.head)
        /\ q.stream = Append(r.stream, c) /\ q.lost = r.lost /\ q.reset = r.reset
    BY <2>1 DEF Regs
  <2>3. q.head \in Slot
    BY <1>1, <2>2, DistFacts
  <2>4. q.stream \in Seq(Stored) /\ Len(q.stream) = Len(r.stream) + 1
    BY <1>1, <2>0, <2>2
  <2>5. q.buffer \in [Slot -> Char]
    BY <1>1, <2>2
  <2>6. q \in Regs
    BY <2>1, <2>3, <2>4, <2>5 DEF Regs
  <2> HIDE DEF q
  <2>7. Extends(q.stream, r.stream)
    BY <1>1, <2>2, <2>4 DEF Extends
  <2>8. NextSlot(r.head) # tail /\ NextSlot(r.head) # b
    <3>1. NextSlot(r.head) # tail
      BY <1>6 DEF Full
    <3> QED
      BY <1>1, <3>1, DistAdds DEF Holds
  <2>9. Dist(tail, q.head) = Dist(tail, r.head) + 1 /\ Dist(b, q.head) = Dist(b, r.head) + 1
    <3>1. PICK h \in Slot : h = r.head
      BY <1>1
    <3>2. NextSlot(h) # tail /\ NextSlot(h) # b /\ q.head = NextSlot(h)
      BY <2>2, <2>8, <3>1
    <3>3. /\ Dist(tail, NextSlot(h)) = Dist(tail, h) + 1
          /\ Dist(b, NextSlot(h)) = Dist(b, h) + 1
      BY <3>2, DistFacts
    <3> QED
      BY <3>1, <3>2, <3>3
  <2>10. Gone(q, b) = Gone(r, b)
    <3>1. PICK n \in Nat, d \in Nat : n = Len(r.stream) /\ d = Dist(b, r.head)
      BY <1>1, <1>2
    <3>2. (n + 1) - (d + 1) = n - d
      OBVIOUS
    <3> QED
      BY <2>4, <2>9, <3>1, <3>2 DEF Gone
  <2>11. Dist(tail, b) \in Nat
    BY DistFacts
  <2>12. Holds(q, tail, b)
    <3>1. Dist(b, q.head) <= Len(q.stream)
      BY <1>1, <1>2, <2>4, <2>9 DEF Holds
    <3>2. Dist(tail, q.head) = Dist(tail, b) + Dist(b, q.head)
      BY <1>2, <2>9, <2>11 DEF Holds
    <3>3. ASSUME NEW x \in Slot, Dist(b, x) < Dist(b, q.head)
          PROVE  q.buffer[x] = q.stream[((Len(q.stream) - Dist(b, q.head)) + Dist(b, x)) + 1]
      <4>1. PICK d \in 0 .. RingSize - 1 : d = Dist(b, x)
        BY DistFacts
      <4>2. PICK m \in 0 .. RingSize - 1 : m = Dist(b, r.head)
        BY <1>2
      <4>3. PICK n \in Nat : n = Len(r.stream)
        BY <1>1
      <4>4. m <= n /\ d < m + 1 /\ Dist(b, q.head) = m + 1 /\ Len(q.stream) = n + 1
        BY <2>4, <2>9, <3>3, <4>1, <4>2, <4>3 DEF Holds
      <4>5. ((n + 1) - (m + 1)) + d = (n - m) + d
        OBVIOUS
      <4>6. CASE x = r.head
        <5>1. d = m /\ ((n - m) + d) + 1 = n + 1
          BY <4>1, <4>2, <4>3, <4>6
        <5>2. q.buffer[x] = c /\ q.stream[n + 1] = c
          BY <1>1, <2>2, <4>3, <4>6
        <5> QED
          BY <4>1, <4>4, <4>5, <5>1, <5>2
      <4>7. CASE x # r.head
        <5>1. d # m
          <6>1. \A s \in Slot : Dist(b, s) = Dist(b, r.head) => s = r.head
            BY <1>1, DistFacts
          <6> QED
            BY <4>1, <4>2, <4>7, <6>1
        <5>2. d < m /\ ((n - m) + d) + 1 \in 1 .. n
          BY <4>4, <5>1
        <5>3. r.buffer[x] = r.stream[((n - m) + d) + 1]
          BY <4>1, <4>2, <4>3, <5>2 DEF Holds
        <5>4. q.buffer[x] = r.buffer[x]
          BY <1>1, <2>2, <4>7
        <5>5. q.stream[((n - m) + d) + 1] = r.stream[((n - m) + d) + 1]
          BY <2>7, <4>3, <5>2 DEF Extends
        <5> QED
          BY <4>1, <4>4, <4>5, <5>3, <5>4, <5>5
      <4> QED
        BY <4>6, <4>7
    <3> QED
      BY <3>1, <3>2, <3>3 DEF Holds
  <2>13. Cost(c) = 1
    BY <1>6 DEF Cost
  <2>14. Dist(tail, q.head) <= Dist(tail, r.head) + Cost(c)
    BY <1>2, <2>9, <2>13
  <2> QED
    BY <2>2, <2>6, <2>7, <2>10, <2>12, <2>14 DEF q
<1> QED
  BY <1>4, <1>5, <1>6

-----------------------------------------------------------------------------
(* A frame is taken character by character.                                *)
Registers == [buffer |-> buffer, head |-> head, reset |-> reset, lost |-> lost,
              stream |-> stream]
Takes(it, p, n) ==
  it = [t \in SUBSET (1 .. n) |->
          IF t = {} THEN Registers ELSE rx_char(it[t \ {Max(t)}], p[Max(t)])]

LEMMA TakesExists ==
  ASSUME NEW p, NEW n \in Nat
  PROVE  \E it : Takes(it, p, n)
<1> DEFINE T == {k \in Nat : \E it : Takes(it, p, k)}
<1>1. 0 \in T
  <2> DEFINE it == [t \in SUBSET (1 .. 0) |-> Registers]
  <2>1. \A t \in SUBSET (1 .. 0) : t = {}
    OBVIOUS
  <2>2. Takes(it, p, 0)
    BY <2>1 DEF Takes
  <2> QED
    BY <2>2
<1>2. ASSUME NEW k \in Nat, k \in T PROVE k + 1 \in T
  <2>1. PICK f : Takes(f, p, k)
    BY <1>2
  <2> DEFINE g == [t \in SUBSET (1 .. k + 1) |->
                     IF k + 1 \in t THEN rx_char(f[t \ {k + 1}], p[k + 1]) ELSE f[t]]
             h == [t \in SUBSET (1 .. k + 1) |->
                     IF t = {} THEN Registers ELSE rx_char(g[t \ {Max(t)}], p[Max(t)])]
  <2>2. ASSUME NEW t \in SUBSET (1 .. k + 1) PROVE g[t] = h[t]
    <3>1. CASE k + 1 \in t
      <4>1. Max(t) = k + 1 /\ t # {}
        BY <3>1, MaxOfUpto
      <4>2. t \ {k + 1} \in SUBSET (1 .. k + 1) /\ k + 1 \notin t \ {k + 1}
        OBVIOUS
      <4>3. g[t \ {k + 1}] = f[t \ {k + 1}]
        BY <4>2
      <4> QED
        BY <3>1, <4>1, <4>3
    <3>2. CASE k + 1 \notin t /\ t = {}
      <4>1. f[t] = Registers
        BY <2>1, <3>2 DEF Takes
      <4> QED
        BY <3>2, <4>1
    <3>3. CASE k + 1 \notin t /\ t # {}
      <4>1. t \in SUBSET (1 .. k)
        BY <3>3
      <4>2. t \ {Max(t)} \in SUBSET (1 .. k + 1) /\ k + 1 \notin t \ {Max(t)}
        BY <3>3
      <4>3. g[t \ {Max(t)}] = f[t \ {Max(t)}]
        BY <4>2
      <4>4. f[t] = rx_char(f[t \ {Max(t)}], p[Max(t)])
        BY <2>1, <3>3, <4>1 DEF Takes
      <4> QED
        BY <3>3, <4>3, <4>4
    <3> QED
      BY <3>1, <3>2, <3>3
  <2>3. g = h
    BY <2>2
  <2>4. Takes(g, p, k + 1)
    BY <2>3 DEF Takes
  <2> QED
    BY <2>4
<1>3. Nat \subseteq T
  <2> HIDE DEF T
  <2> QED BY <1>1, <1>2, Induction
<1> QED
  BY <1>3

Taking(h, p, n) == h[0] = Registers /\ \A k \in 0 .. n - 1 : h[k + 1] = rx_char(h[k], p[k + 1])

LEMMA TakenInSteps ==
  ASSUME NEW p, NEW n \in Nat, DOMAIN p = 1 .. n
  PROVE  \E h : Taking(h, p, n) /\ FoldLeft(rx_char, Registers, p) = h[n]
<1> DEFINE it == CHOOSE f : Takes(f, p, n)
<1>1. Takes(it, p, n)
  BY TakesExists
<1>2. FoldLeft(rx_char, Registers, p) = it[1 .. n]
  BY DEF FoldLeft, MapThenFoldSet, Takes
<1> HIDE DEF it
<1> DEFINE h == [k \in 0 .. n |-> it[1 .. k]]
<1>3. h[0] = Registers
  <2>1. 1 .. 0 = {} /\ {} \in SUBSET (1 .. n) /\ 0 \in 0 .. n
    OBVIOUS
  <2>2. it[{}] = Registers
    BY <1>1, <2>1 DEF Takes
  <2> QED
    BY <2>1, <2>2
<1>4. ASSUME NEW k \in 0 .. n - 1 PROVE h[k + 1] = rx_char(h[k], p[k + 1])
  <2>1. PICK t : t = 1 .. k + 1
    OBVIOUS
  <2>0. k \in Nat /\ k + 1 <= n
    OBVIOUS
  <2>2. t \in SUBSET (1 .. n) /\ t \in SUBSET (1 .. k + 1) /\ k + 1 \in t /\ t # {}
    <3>1. \A m \in 1 .. k + 1 : m \in 1 .. n
      BY ONLY <2>0, n \in Nat
    <3>2. k + 1 \in 1 .. k + 1
      BY ONLY <2>0
    <3> QED
      BY ONLY <2>1, <3>1, <3>2
  <2>3. t \ {k + 1} = 1 .. k
    BY <2>1
  <2>4. Max(t) = k + 1
    BY <2>2, MaxOfUpto
  <2>5. it[t] = rx_char(it[t \ {Max(t)}], p[Max(t)])
    BY <1>1, <2>2 DEF Takes
  <2>6. k \in 0 .. n /\ k + 1 \in 0 .. n
    OBVIOUS
  <2> QED
    BY <2>1, <2>3, <2>4, <2>5, <2>6
<1>5. h[n] = it[1 .. n]
  OBVIOUS
<1> HIDE DEF h
<1> QED
  BY <1>2, <1>3, <1>4, <1>5 DEF Taking

Weighing(p, k) == {i \in 1 .. k : p[i] \notin Realtime}

LEMMA WeightGrows ==
  ASSUME NEW p, NEW k \in Nat
  PROVE  /\ Cardinality(Weighing(p, 0)) = 0 /\ Cardinality(Weighing(p, k)) \in Nat
         /\ Cardinality(Weighing(p, k + 1)) = Cardinality(Weighing(p, k)) + Cost(p[k + 1])
<1>1. Weighing(p, 0) = {}
  BY DEF Weighing
<1>2. Weighing(p, k) \in SUBSET (1 .. k)
  BY DEF Weighing
<1>3. Cardinality(Weighing(p, k)) \in Nat
  BY <1>2, Finite
<1>4. Weighing(p, k + 1) = IF p[k + 1] \in Realtime THEN Weighing(p, k)
                           ELSE Weighing(p, k) \cup {k + 1}
  <2>1. \A i : i \in 1 .. k + 1 <=> i \in 1 .. k \/ i = k + 1
    BY k \in Nat
  <2> QED
    BY <2>1 DEF Weighing
<1>5. Cardinality(Weighing(p, k + 1)) = Cardinality(Weighing(p, k)) + Cost(p[k + 1])
  <2>1. CASE p[k + 1] \in Realtime
    BY <1>3, <1>4, <2>1 DEF Cost
  <2>2. CASE p[k + 1] \notin Realtime
    <3>1. PICK S : S = Weighing(p, k)
      OBVIOUS
    <3>2. Cardinality(S \cup {k + 1}) = Cardinality(S) + 1
      BY <1>2, <3>1, RankAbove
    <3>3. Weighing(p, k + 1) = S \cup {k + 1}
      BY <1>4, <2>2, <3>1
    <3>4. Cost(p[k + 1]) = 1
      BY <2>2 DEF Cost
    <3> QED
      BY <3>1, <3>2, <3>3, <3>4
  <2> QED
    BY <2>1, <2>2
<1> QED
  BY <1>1, <1>3, <1>5, FS_EmptySet

LEMMA FrameTaken ==
  ASSUME Registers \in Regs, tail \in Slot, NEW b \in Slot, Holds(Registers, tail, b),
         NEW p \in Seq(Char)
  PROVE  LET r == FoldLeft(rx_char, Registers, p) IN
         /\ r \in Regs /\ Holds(r, tail, b) /\ Extends(r.stream, stream)
         /\ Gone(r, b) = Gone(Registers, b)
         /\ Dist(tail, head) + Cardinality(Weighing(p, Len(p))) <= RingSize - 1
              => r.lost = lost
<1>1. PICK n \in Nat : n = Len(p)
  OBVIOUS
<1>2. DOMAIN p = 1 .. n /\ \A k \in 1 .. n : p[k] \in Char
  BY <1>1
<1>3. PICK h : Taking(h, p, n) /\ FoldLeft(rx_char, Registers, p) = h[n]
  BY <1>2, TakenInSteps
<1> DEFINE W(k) == Cardinality(Weighing(p, k))
           Good(k) == /\ h[k] \in Regs /\ Holds(h[k], tail, b) /\ Extends(h[k].stream, stream)
                      /\ Gone(h[k], b) = Gone(Registers, b)
                      /\ Dist(tail, h[k].head) <= Dist(tail, head) + W(k)
                      /\ Dist(tail, head) + W(k) <= RingSize - 1 => h[k].lost = lost
           T == {k \in Nat : k <= n => Good(k)}
<1>4. /\ Registers.head = head /\ Registers.stream = stream /\ Registers.lost = lost
      /\ head \in Slot /\ stream \in Seq(Stored)
  BY DEF Registers, Regs
<1>5. Dist(tail, head) \in 0 .. RingSize - 1
  BY <1>4, DistFacts
<1>6. 0 \in T
  <2>1. h[0] = Registers
    BY <1>3 DEF Taking
  <2>2. W(0) = 0
    BY WeightGrows
  <2>3. Extends(stream, stream)
    BY <1>4 DEF Extends
  <2> HIDE DEF W
  <2>4. Good(0)
    BY <1>4, <1>5, <2>1, <2>2, <2>3
  <2> QED
    BY <2>4
<1>7. ASSUME NEW k \in Nat, k \in T PROVE k + 1 \in T
  <2> SUFFICES ASSUME k + 1 <= n PROVE Good(k + 1)
    OBVIOUS
  <2>1. k <= n /\ k \in 0 .. n - 1 /\ k + 1 \in 1 .. n
    BY <1>1
  <2>2. Good(k)
    BY <1>7, <2>1
  <2>3. PICK r, q, c : r = h[k] /\ q = h[k + 1] /\ c = p[k + 1]
    OBVIOUS
  <2>4. q = rx_char(r, c) /\ c \in Char
    BY <1>2, <1>3, <2>1, <2>3 DEF Taking
  <2>5. W(k) \in Nat /\ W(k + 1) = W(k) + Cost(c)
    BY <2>3, WeightGrows
  <2>6. /\ r \in Regs /\ Holds(r, tail, b) /\ Extends(r.stream, stream)
        /\ Gone(r, b) = Gone(Registers, b)
        /\ Dist(tail, r.head) <= Dist(tail, head) + W(k)
        /\ Dist(tail, head) + W(k) <= RingSize - 1 => r.lost = lost
    BY <2>2, <2>3
  <2> HIDE DEF W
  <2>7. /\ q \in Regs /\ Holds(q, tail, b) /\ Extends(q.stream, r.stream)
        /\ Gone(q, b) = Gone(r, b)
        /\ Dist(tail, q.head) <= Dist(tail, r.head) + Cost(c)
        /\ q.lost = r.lost \/ Dist(tail, r.head) + Cost(c) > RingSize - 1
    BY ONLY <2>4, <2>6, b \in Slot, tail \in Slot, CharTaken
  <2>8. Extends(q.stream, stream)
    <3>1. /\ Len(stream) \in Nat /\ Len(r.stream) \in Nat /\ Len(q.stream) \in Nat
      BY <1>4, <2>6, <2>7 DEF Regs
    <3> QED
      BY <2>6, <2>7, <3>1 DEF Extends
  <2>9. /\ Dist(tail, r.head) \in Nat /\ Dist(tail, q.head) \in Nat /\ Cost(c) \in Nat
    <3>1. r.head \in Slot /\ q.head \in Slot
      BY <2>6, <2>7 DEF Regs
    <3> QED
      BY <3>1, DistFacts DEF Cost
  <2>10. Dist(tail, q.head) <= Dist(tail, head) + W(k + 1)
    BY <1>5, <2>5, <2>6, <2>7, <2>9
  <2>11. Dist(tail, head) + W(k + 1) <= RingSize - 1 => q.lost = lost
    <3> SUFFICES ASSUME Dist(tail, head) + W(k + 1) <= RingSize - 1 PROVE q.lost = lost
      OBVIOUS
    <3>1. Dist(tail, head) + W(k) <= RingSize - 1
      BY <1>5, <2>5, <2>9, SizesAssumption
    <3>2. ~(Dist(tail, r.head) + Cost(c) > RingSize - 1)
      BY <1>5, <2>5, <2>6, <2>9, SizesAssumption
    <3> QED
      BY <2>6, <2>7, <3>1, <3>2
  <2>12. Gone(q, b) = Gone(Registers, b)
    BY <2>6, <2>7
  <2> QED
    BY ONLY <2>3, <2>7, <2>8, <2>10, <2>11, <2>12
<1>8. Nat \subseteq T
  <2> HIDE DEF T
  <2> QED BY <1>6, <1>7, Induction
<1>9. Good(n)
  BY <1>8
<1> QED
  BY <1>1, <1>3, <1>9

-----------------------------------------------------------------------------
(* The inductive invariant.                                                *)
Base == IF pc = "clear" THEN cleared ELSE tail
Past == Gone(Registers, Base)
LineStart == EndOf(stream, Len(answers))
Segment(s, from, to) == SubSeq(s, from + 1, to)

RxTyped ==
  /\ Registers \in Regs /\ tail \in Slot /\ cleared \in Slot /\ data \in Char
  /\ line \in Seq(Char) /\ answers \in Seq(Seq(Char \cup {"overflow"}))
InHand ==
  /\ Holds(Registers, tail, Base)
  /\ pc \in {"fetch", "advance"} => head # tail
  /\ pc = "advance" => data = stream[Past + 1]
  /\ pc = "clear" => Past = 0 /\ answers = <<>>
Answered ==
  /\ Len(answers) \in 0 .. Lines(stream) /\ LineStart <= Past
  /\ \A k \in DOMAIN answers : answers[k] = AnswerTo(LineOf(stream, k))
UpTo(m) == NoEnd(stream, LineStart + 1, m) /\ Parsed(Segment(stream, LineStart, m), line, flags)
InLine ==
  /\ pc \in {"read", "idle", "fetch", "advance"} => UpTo(Past)
  /\ pc \in {"line", "execute"} => /\ LineStart < Past /\ stream[Past] = EndOfLine
                                   /\ UpTo(Past - 1)
RxInv == RxTyped /\ InHand /\ Answered /\ InLine /\ CountingLosesNothing

LEMMA SegmentMore ==
  ASSUME NEW s \in Seq(Stored), NEW b \in Nat, NEW m \in Nat, b <= m, m + 1 <= Len(s),
         NoEnd(s, b + 1, m), s[m + 1] # EndOfLine
  PROVE  /\ Segment(s, b, m) \in Seq(Ordinary) /\ Segment(s, b, m + 1) \in Seq(Ordinary)
         /\ More(Segment(s, b, m + 1), Segment(s, b, m), s[m + 1])
         /\ NoEnd(s, b + 1, m + 1)
<1>1. \A i \in b + 1 .. m + 1 : i \in b + 1 .. m \/ i = m + 1
  OBVIOUS
<1>2. NoEnd(s, b + 1, m + 1)
  BY <1>1 DEF NoEnd
<1>3. \A i \in b + 1 .. m + 1 : s[i] \in Ordinary
  <2>1. \A i \in b + 1 .. m + 1 : i \in 1 .. Len(s)
    OBVIOUS
  <2> QED
    BY <1>2, <2>1 DEF NoEnd, Ordinary, Stored
<1>4. \A k \in {m, m + 1} : /\ Segment(s, b, k) \in Seq(Ordinary) /\ Len(Segment(s, b, k)) = k - b
                            /\ \A i \in 1 .. k - b : Segment(s, b, k)[i] = s[b + i]
  <2> SUFFICES ASSUME NEW k \in {m, m + 1}
               PROVE  /\ Segment(s, b, k) \in Seq(Ordinary) /\ Len(Segment(s, b, k)) = k - b
                      /\ \A i \in 1 .. k - b : Segment(s, b, k)[i] = s[b + i]
    OBVIOUS
  <2>1. k \in Nat /\ b <= k /\ k <= Len(s) /\ \A i \in b + 1 .. k : i \in b + 1 .. m + 1
    OBVIOUS
  <2>2. Len(SubSeq(s, b + 1, k)) = k - b /\ SubSeq(s, b + 1, k) \in Seq(Stored)
    BY <2>1
  <2>3. \A i \in 1 .. k - b : SubSeq(s, b + 1, k)[i] = s[b + i]
    BY <2>1
  <2>4. PICK t : t = SubSeq(s, b + 1, k)
    OBVIOUS
  <2>5. \A i \in 1 .. k - b : t[i] \in Ordinary
    <3>1. \A i \in 1 .. k - b : b + i \in b + 1 .. m + 1
      BY <2>1
    <3> QED
      BY <1>3, <2>3, <2>4, <3>1
  <2>6. t \in Seq(Stored) /\ Len(t) = k - b
    BY <2>2, <2>4
  <2>7. t \in Seq(Ordinary)
    BY <2>5, <2>6
  <2> QED
    BY <2>3, <2>4, <2>6, <2>7 DEF Segment
<1>5. Len(Segment(s, b, m + 1)) = Len(Segment(s, b, m)) + 1
  BY <1>4
<1>6. Segment(s, b, m + 1)[Len(Segment(s, b, m)) + 1] = s[m + 1]
  <2>1. (m - b) + 1 \in 1 .. (m + 1) - b /\ b + ((m - b) + 1) = m + 1
    OBVIOUS
  <2> QED
    BY <1>4, <2>1
<1>7. \A i \in 1 .. Len(Segment(s, b, m)) : Segment(s, b, m + 1)[i] = Segment(s, b, m)[i]
  <2>1. \A i \in 1 .. m - b : i \in 1 .. (m + 1) - b
    OBVIOUS
  <2> QED
    BY <1>4, <2>1
<1> QED
  BY <1>2, <1>4, <1>5, <1>6, <1>7 DEF More

LEMMA SegmentStays ==
  ASSUME NEW s \in Seq(Stored), NEW t \in Seq(Stored), Extends(t, s), NEW b \in Nat,
         NEW m \in Int, m <= Len(s)
  PROVE  /\ Segment(t, b, m) = Segment(s, b, m)
         /\ NoEnd(s, b + 1, m) => NoEnd(t, b + 1, m)
<1>1. \A i \in b + 1 .. m : t[i] = s[i]
  BY DEF Extends
<1>2. Segment(t, b, m) = Segment(s, b, m)
  BY <1>1 DEF Segment, Extends
<1> QED
  BY <1>1, <1>2 DEF NoEnd

LEMMA SegmentEmpty ==
  ASSUME NEW s \in Seq(Stored), NEW b \in Nat
  PROVE  Segment(s, b, b) = <<>> /\ NoEnd(s, b + 1, b)
BY DEF Segment, NoEnd

LEMMA StreamTyped ==
  ASSUME Registers \in Regs
  PROVE  /\ buffer \in [Slot -> Char] /\ head \in Slot /\ reset \in BOOLEAN /\ lost \in BOOLEAN
         /\ stream \in Seq(Stored) /\ stream \in Seq(Char) /\ Len(stream) \in Nat
         /\ Registers.head = head /\ Registers.stream = stream /\ Registers.buffer = buffer
         /\ Registers.lost = lost
<1>1. /\ buffer \in [Slot -> Char] /\ head \in Slot /\ reset \in BOOLEAN /\ lost \in BOOLEAN
      /\ stream \in Seq(Stored)
      /\ Registers.head = head /\ Registers.stream = stream /\ Registers.buffer = buffer
      /\ Registers.lost = lost
  BY DEF Registers, Regs
<1>2. Stored \subseteq Char
  BY DEF Stored
<1> QED
  BY <1>1, <1>2

(* What the invariant says of the numbers it is about.                     *)
LEMMA Places ==
  ASSUME RxInv
  PROVE  /\ Base \in Slot /\ Past \in 0 .. Len(stream) /\ LineStart \in 0 .. Past
         /\ Dist(Base, head) \in 0 .. RingSize - 1 /\ Dist(tail, Base) \in Nat
         /\ Past = Len(stream) - Dist(Base, head)
         /\ Dist(tail, head) = Dist(tail, Base) + Dist(Base, head)
         /\ Len(answers) \in 0 .. Lines(stream)
<1> USE DEF RxInv
<1>1. Base \in Slot
  BY DEF Base, RxTyped
<1>2. /\ Len(stream) \in Nat /\ head \in Slot /\ Registers.head = head /\ Registers.stream = stream
      /\ stream \in Seq(Char) /\ tail \in Slot
  BY StreamTyped DEF RxTyped
<1>3. Dist(Base, head) \in 0 .. RingSize - 1 /\ Dist(tail, Base) \in Nat
  BY <1>1, <1>2, DistFacts
<1>4. /\ Dist(Base, head) <= Len(stream)
      /\ Dist(tail, head) = Dist(tail, Base) + Dist(Base, head)
  BY <1>2 DEF InHand, Holds
<1>5. Past = Len(stream) - Dist(Base, head)
  BY <1>2 DEF Past, Gone
<1>6. LineStart \in 0 .. Len(stream)
  BY <1>2, EndTyped DEF LineStart, Answered
<1>7. Past \in 0 .. Len(stream)
  BY <1>2, <1>3, <1>4, <1>5
<1>8. LineStart <= Past /\ Len(answers) \in 0 .. Lines(stream)
  BY DEF Answered
<1>9. LineStart \in 0 .. Past
  BY <1>2, <1>6, <1>7, <1>8
<1> QED
  BY <1>1, <1>3, <1>4, <1>5, <1>7, <1>8, <1>9

LEMMA ReceiveStep ==
  ASSUME HostCounts <= RingSize - 1, RxInv, Receive
  PROVE  RxInv'
<1>1. PICK p \in FrameData : process_payload(p)
  BY DEF Receive
<1>2. p \in Seq(Char)
  BY FrameDataAssumption
<1>3. PICK r : r = FoldLeft(rx_char, Registers, p)
  OBVIOUS
<1>4. /\ buffer' = r.buffer /\ head' = r.head /\ reset' = r.reset
      /\ lost' = r.lost /\ stream' = r.stream
      /\ overrun' = (overrun \/ ~Counted(p))
      /\ UNCHANGED <<tail, pc, data, line, flags, cleared, answers>>
  BY <1>1, <1>3 DEF process_payload, Registers, mainVars
<1>5. /\ Registers \in Regs /\ tail \in Slot /\ Holds(Registers, tail, Base) /\ Base \in Slot
      /\ Past \in 0 .. Len(stream) /\ LineStart \in 0 .. Past
      /\ Past = Len(stream) - Dist(Base, head) /\ Dist(Base, head) \in 0 .. RingSize - 1
      /\ Len(answers) \in 0 .. Lines(stream)
  BY Places DEF RxInv, RxTyped, InHand
<1>6. /\ r \in Regs /\ Holds(r, tail, Base) /\ Extends(r.stream, stream)
      /\ Gone(r, Base) = Gone(Registers, Base)
      /\ Dist(tail, head) + Cardinality(Weighing(p, Len(p))) <= RingSize - 1
           => r.lost = lost
  BY <1>2, <1>3, <1>5, FrameTaken
<1>7. Registers' = r
  BY <1>4, <1>6 DEF Registers, Regs
<1>8. Base' = Base
  BY <1>4 DEF Base
<1>9. Past' = Past
  BY <1>6, <1>7, <1>8 DEF Past
<1>10. /\ stream \in Seq(Stored) /\ stream' \in Seq(Stored) /\ stream \in Seq(Char)
       /\ stream' \in Seq(Char) /\ head \in Slot /\ head' \in Slot
       /\ Len(stream) \in Nat /\ Len(stream') \in Nat /\ Extends(stream', stream)
       /\ Registers.head = head
  <2>1. r.stream \in Seq(Stored) /\ r.head \in Slot
    BY <1>6 DEF Regs
  <2>2. stream' \in Seq(Stored) /\ stream' \in Seq(Char) /\ head' \in Slot /\ Len(stream') \in Nat
    <3>1. Stored \subseteq Char
      BY DEF Stored
    <3> QED
      BY <1>4, <2>1, <3>1
  <2>3. Extends(stream', stream)
    BY <1>4, <1>6
  <2> QED
    BY <1>5, <2>2, <2>3, StreamTyped
<1>11. /\ LineStart' = LineStart /\ Len(answers') = Len(answers)
       /\ Len(answers) \in 0 .. Lines(stream')
  BY <1>4, <1>5, <1>10, EndsStay DEF LineStart
<1>12. RxTyped'
  BY <1>4, <1>6, <1>7 DEF RxInv, RxTyped
<1>13. InHand'
  <2>1. Holds(Registers', tail', Base')
    BY <1>4, <1>6, <1>7, <1>8
  <2>2. ASSUME pc' \in {"fetch", "advance"}
        PROVE  head' # tail' /\ Past + 1 \in 1 .. Len(stream)
    <3>1. Base = tail /\ head # tail
      BY <1>4, <2>2 DEF Base, RxInv, InHand
    <3>2. Dist(tail, head) # 0
      BY <1>5, <1>10, <3>1, DistFacts
    <3>3. Past < Len(stream)
      BY <1>5, <1>10, <3>1, <3>2
    <3>4. Dist(tail, head') = Len(stream') - Past
      <4>1. Past' = Len(stream') - Dist(Base', head')
        BY <1>4, <1>7 DEF Past, Gone
      <4>2. Dist(tail, head') \in Nat
        BY <1>5, <1>10, DistFacts
      <4>3. PICK d \in Nat : d = Dist(tail, head')
        BY <4>2
      <4>4. Past = Len(stream') - d
        BY <1>8, <1>9, <3>1, <4>1, <4>3
      <4> QED
        BY <1>5, <1>10, <4>3, <4>4
    <3>5. Dist(tail, head') # 0
      BY <1>5, <1>10, <3>3, <3>4 DEF Extends
    <3>6. head' # tail
      BY <1>5, <3>5, DistFacts
    <3> QED
      BY <1>4, <1>5, <1>10, <3>3, <3>6
  <2>3. ASSUME pc' = "advance" PROVE data' = stream'[Past' + 1]
    <3>1. Past + 1 \in 1 .. Len(stream)
      BY <2>2, <2>3
    <3>2. data = stream[Past + 1]
      BY <1>4, <2>3 DEF RxInv, InHand
    <3> QED
      BY <1>4, <1>9, <1>10, <3>1, <3>2 DEF Extends
  <2>4. pc' = "clear" => Past' = 0 /\ answers' = <<>>
    BY <1>4, <1>9 DEF RxInv, InHand
  <2> QED
    BY <2>1, <2>2, <2>3, <2>4 DEF InHand
<1>14. Answered'
  <2>1. ASSUME NEW k \in DOMAIN answers' PROVE answers'[k] = AnswerTo(LineOf(stream', k))
    <3>1. k \in 1 .. Len(answers) /\ k \in DOMAIN answers
      BY <1>4, <2>1 DEF RxInv, RxTyped
    <3>2. k \in 1 .. Lines(stream)
      BY <1>5, <1>10, <3>1, EndsTyped
    <3>3. LineOf(stream', k) = LineOf(stream, k)
      BY <1>10, <3>2, LinesStay
    <3> QED
      BY <1>4, <3>1, <3>3 DEF RxInv, Answered
  <2>2. LineStart' <= Past' /\ Len(answers') \in 0 .. Lines(stream')
    BY <1>5, <1>9, <1>11
  <2> QED
    BY <2>1, <2>2 DEF Answered
<1>15. InLine'
  <2>1. \A m \in {Past, Past - 1} : Segment(stream', LineStart, m) = Segment(stream, LineStart, m)
                              /\ (NoEnd(stream, LineStart + 1, m) => NoEnd(stream', LineStart + 1, m))
    BY <1>5, <1>10, SegmentStays
  <2>2. /\ pc' \in {"read", "idle", "fetch", "advance"} =>
             NoEnd(stream', LineStart + 1, Past) /\ Parsed(Segment(stream', LineStart, Past), line, flags)
        /\ pc' \in {"line", "execute"} =>
             /\ LineStart < Past /\ stream[Past] = EndOfLine
             /\ NoEnd(stream', LineStart + 1, Past - 1)
             /\ Parsed(Segment(stream', LineStart, Past - 1), line, flags)
    BY <1>4, <2>1 DEF RxInv, InLine, UpTo
  <2>3. LineStart < Past => stream'[Past] = stream[Past]
    BY <1>5, <1>10 DEF Extends
  <2> QED
    BY <1>4, <1>9, <1>11, <2>2, <2>3 DEF InLine, UpTo
<1>16. CountingLosesNothing'
  <2> SUFFICES ASSUME ~overrun' PROVE ~lost'
    BY DEF CountingLosesNothing
  <2>1. Counted(p) /\ ~overrun
    BY <1>4
  <2>2. ~lost
    BY <2>1 DEF RxInv, CountingLosesNothing
  <2>3. Base = tail
    BY <2>1 DEF Counted, Base
  <2>4. PICK w : w = Cardinality(Weighing(p, Len(p)))
    OBVIOUS
  <2>5. w \in Nat
    BY <1>2, <2>4, WeightGrows
  <2>6. {i \in DOMAIN p : p[i] \notin Realtime} = Weighing(p, Len(p))
    BY <1>2 DEF Weighing
  <2>7. (Len(stream) - LineStart) + w <= HostCounts
    BY <2>1, <2>4, <2>6 DEF Counted, Unanswered, LineStart
  <2>8. Dist(tail, head) + w <= RingSize - 1
    BY <1>5, <1>10, <2>3, <2>5, <2>7, SizesAssumption
  <2> QED
    BY <1>4, <1>6, <2>2, <2>4, <2>8
<1> QED
  BY <1>12, <1>13, <1>14, <1>15, <1>16 DEF RxInv

-----------------------------------------------------------------------------
(* Steps of the main program that leave ring, line and answers alone.      *)
LEMMA Unmoved ==
  ASSUME RxInv, pc # "clear", pc' # "clear", data' \in Char, reset' \in BOOLEAN,
         UNCHANGED <<buffer, head, tail, line, flags, cleared, answers, stream, lost, overrun>>
  PROVE  /\ RxTyped' /\ Answered' /\ CountingLosesNothing' /\ Holds(Registers, tail, Base)'
         /\ Past' = Past /\ LineStart' = LineStart /\ \A m : UpTo(m)' = UpTo(m)
<1>1. Base' = Base
  BY DEF Base
<1>2. /\ Registers' \in Regs /\ Registers'.head = Registers.head
      /\ Registers'.stream = Registers.stream /\ Registers'.buffer = Registers.buffer
  BY DEF RxInv, RxTyped, Registers, Regs
<1>3. Past' = Past
  BY <1>1, <1>2 DEF Past, Gone
<1>4. LineStart' = LineStart
  BY DEF LineStart
<1>5. \A m : UpTo(m)' = UpTo(m)
  BY <1>4 DEF UpTo
<1>6. Holds(Registers, tail, Base)'
  BY <1>1, <1>2 DEF Holds, RxInv, InHand
<1>7. RxTyped'
  BY <1>2 DEF RxInv, RxTyped
<1>8. Answered'
  BY <1>3, <1>4 DEF RxInv, Answered
<1>9. CountingLosesNothing'
  BY DEF RxInv, CountingLosesNothing
<1> QED
  BY <1>3, <1>4, <1>5, <1>6, <1>7, <1>8, <1>9

LEMMA QuietStep ==
  ASSUME RxInv, ReadNothing \/ Read \/ CheckPoint \/ Idle \/ Restart
  PROVE  RxInv'
<1>1. /\ pc # "clear" /\ pc' # "clear" /\ data' = data
      /\ reset' = reset \/ reset' = FALSE
      /\ UNCHANGED <<buffer, head, tail, line, flags, cleared, answers, stream, lost, overrun>>
  BY DEF ReadNothing, Read, CheckPoint, Idle, Restart, Go, ringVars, histVars
<1>2. data' \in Char /\ reset' \in BOOLEAN
  BY <1>1, StreamTyped DEF RxInv, RxTyped
<1>3. /\ RxTyped' /\ Answered' /\ CountingLosesNothing' /\ Holds(Registers, tail, Base)'
      /\ Past' = Past /\ LineStart' = LineStart /\ \A m : UpTo(m)' = UpTo(m)
  BY <1>1, <1>2, Unmoved
<1>4. InHand'
  <2>1. pc' # "advance" /\ pc' # "clear" /\ (pc' = "fetch" => head # tail)
    BY DEF ReadNothing, Read, CheckPoint, Idle, Restart, Go
  <2> QED
    BY <1>1, <1>3, <2>1 DEF InHand
<1>5. InLine'
  <2>1. \/ pc \in {"read", "idle", "fetch", "advance"} /\ pc' \in {"read", "idle", "fetch", "advance"}
        \/ pc = "line" /\ pc' = "execute"
        \/ pc' \in {"restart", "ring"}
    BY DEF ReadNothing, Read, CheckPoint, Idle, Restart, Go
  <2>2. stream' = stream
    BY <1>1
  <2> QED
    BY <1>3, <2>1, <2>2 DEF RxInv, InLine
<1> QED
  BY <1>3, <1>4, <1>5 DEF RxInv

LEMMA FetchStep ==
  ASSUME RxInv, Fetch
  PROVE  RxInv'
<1>1. /\ pc = "fetch" /\ pc' = "advance" /\ data' = buffer[tail] /\ reset' = reset
      /\ UNCHANGED <<buffer, head, tail, line, flags, cleared, answers, stream, lost, overrun>>
  BY DEF Fetch, Go, ringVars, histVars
<1>2. /\ data' \in Char /\ reset' \in BOOLEAN /\ tail \in Slot /\ head \in Slot
      /\ Registers.head = head /\ Registers.stream = stream /\ Registers.buffer = buffer
  BY <1>1, StreamTyped DEF RxInv, RxTyped
<1>3. /\ RxTyped' /\ Answered' /\ CountingLosesNothing' /\ Holds(Registers, tail, Base)'
      /\ Past' = Past /\ LineStart' = LineStart /\ \A m : UpTo(m)' = UpTo(m)
  BY <1>1, <1>2, Unmoved
<1>4. head # tail
  BY <1>1 DEF RxInv, InHand
<1>5. data' = stream[Past + 1]
  <2>1. Base = tail /\ Past = Len(stream) - Dist(tail, head)
    BY <1>1, Places DEF Base
  <2>2. Dist(tail, tail) = 0 /\ Dist(tail, head) # 0 /\ Dist(tail, head) \in 0 .. RingSize - 1
    BY <1>2, <1>4, DistFacts
  <2>3. Dist(tail, tail) < Dist(tail, head)
    BY <2>2, SizesAssumption
  <2>4. buffer[tail] = stream[((Len(stream) - Dist(tail, head)) + Dist(tail, tail)) + 1]
    BY <1>2, <2>1, <2>3 DEF RxInv, InHand, Holds
  <2>5. Past \in Nat
    BY Places
  <2>6. (Past + Dist(tail, tail)) + 1 = Past + 1
    BY <2>2, <2>5
  <2> QED
    BY <1>1, <2>1, <2>4, <2>6
<1>6. InHand'
  BY <1>1, <1>3, <1>4, <1>5 DEF InHand
<1>7. InLine'
  BY <1>1, <1>3 DEF RxInv, InLine
<1> QED
  BY <1>3, <1>6, <1>7 DEF RxInv

LEMMA AdvanceStep ==
  ASSUME RxInv, Advance
  PROVE  RxInv'
<1>1. /\ pc = "advance" /\ tail' = NextSlot(tail)
      /\ UNCHANGED <<buffer, head, reset, data, cleared, answers, stream, lost, overrun>>
  BY DEF Advance, histVars
<1>2. /\ Registers \in Regs /\ data \in Char /\ tail \in Slot /\ cleared \in Slot /\ head \in Slot
      /\ Registers.head = head /\ Registers.stream = stream /\ Registers.buffer = buffer
      /\ stream \in Seq(Stored) /\ Len(stream) \in Nat /\ line \in Seq(Char)
      /\ answers \in Seq(Seq(Char \cup {"overflow"}))
  BY StreamTyped DEF RxInv, RxTyped
<1>3. head # tail /\ data = stream[Past + 1] /\ Holds(Registers, tail, tail) /\ Base = tail
      /\ UpTo(Past) /\ pc' # "clear" /\ Base' = tail' /\ Registers' = Registers
  <2>1. pc' \in {"line", "read"}
    BY DEF Advance
  <2>2. Base = tail /\ Base' = tail' /\ pc' # "clear"
    BY <1>1, <2>1 DEF Base
  <2>3. Registers' = Registers
    BY <1>1 DEF Registers
  <2> QED
    BY <1>1, <2>2, <2>3 DEF RxInv, InHand, InLine
<1>4. PICK d \in 0 .. RingSize - 1 : d = Dist(tail, head)
  BY <1>2, DistFacts
<1>5. PICK n \in Nat : n = Len(stream)
  BY <1>2
<1>6. /\ d # 0 /\ tail' \in Slot /\ Dist(tail', head) = d - 1 /\ Past = n - d /\ d <= n
      /\ Dist(tail', tail') = 0 /\ d \in Nat
  <2>1. d # 0
    BY <1>2, <1>3, <1>4, DistFacts
  <2>2. tail' \in Slot
    BY <1>1, <1>2, DistFacts
  <2>3. Dist(NextSlot(tail), head) = Dist(tail, head) - 1
    BY <1>2, <1>3, DistFacts
  <2>4. Past = n - d /\ d <= n
    BY <1>2, <1>3, <1>4, <1>5 DEF Past, Gone, Holds
  <2>5. Dist(tail', tail') = 0
    BY <2>2, DistFacts
  <2> QED
    BY <1>1, <1>4, <2>1, <2>2, <2>3, <2>4, <2>5, SizesAssumption
<1>7. Past' = Past + 1
  <2>1. Past' = Len(stream) - Dist(tail', head)
    BY <1>2, <1>3 DEF Past, Gone
  <2>2. n - (d - 1) = (n - d) + 1
    BY <1>6
  <2> QED
    BY <1>5, <1>6, <2>1, <2>2
<1>8. Holds(Registers, tail', tail')
  <2>1. Dist(tail', head) <= Len(stream)
    BY <1>5, <1>6
  <2>2. Dist(tail', head) = Dist(tail', tail') + Dist(tail', head)
    BY <1>6
  <2>3. ASSUME NEW x \in Slot, Dist(tail', x) < Dist(tail', head)
        PROVE  buffer[x] = stream[((Len(stream) - Dist(tail', head)) + Dist(tail', x)) + 1]
    <3>1. PICK e \in Nat : e = Dist(tail', x)
      <4>1. Dist(tail', x) \in Nat
        BY <1>6, DistFacts
      <4> QED
        BY <4>1
    <3>2. x # tail
      <4>1. CASE x = tail
        <5>1. Dist(tail', tail) = RingSize - 1
          BY <1>1, <1>2, SizesAssumption DEF Dist, NextSlot, Slot
        <5> QED
          BY <1>4, <1>6, <2>3, <4>1, <5>1, SizesAssumption
      <4> QED
        BY <4>1
    <3>3. Dist(NextSlot(tail), x) = Dist(tail, x) - 1
      BY <1>2, <3>2, DistFacts
    <3>4. Dist(tail, x) = e + 1
      <4>1. Dist(tail, x) \in 0 .. RingSize - 1
        BY <1>2, DistFacts
      <4> QED
        BY <1>1, <3>1, <3>3, <4>1, SizesAssumption
    <3>5. e + 1 < d
      BY <1>6, <2>3, <3>1
    <3>6. buffer[x] = stream[((n - d) + (e + 1)) + 1]
      BY <1>2, <1>3, <1>4, <1>5, <3>4, <3>5 DEF Holds
    <3>7. (n - d) + (e + 1) = (n - (d - 1)) + e
      BY <1>6
    <3> QED
      BY <1>5, <1>6, <3>1, <3>6, <3>7
  <2> QED
    BY <1>2, <2>1, <2>2, <2>3 DEF Holds
<1>9. InHand'
  <2>1. pc' \in {"line", "read"}
    BY DEF Advance
  <2> QED
    BY <1>3, <1>8, <2>1 DEF InHand
<1>10. LineStart' = LineStart /\ LineStart \in Nat /\ Past \in Nat /\ LineStart <= Past /\ Past + 1 <= Len(stream)
  <2>1. Past + 1 <= n
    BY <1>6
  <2> QED
    BY <1>1, <1>5, <2>1, Places DEF LineStart
<1>11. Answered'
  <2>1. LineStart' <= Past' /\ Len(answers) \in 0 .. Lines(stream)
    BY <1>7, <1>10, Places
  <2> QED
    BY <1>1, <2>1 DEF RxInv, Answered
<1>12. CountingLosesNothing'
  BY <1>1 DEF RxInv, CountingLosesNothing
<1>13. CASE data = EndOfLine
  <2>1. pc' = "line" /\ UNCHANGED <<line, flags>>
    BY <1>13 DEF Advance
  <2>2. RxTyped'
    BY <1>1, <1>2, <1>3, <1>6, <2>1 DEF RxTyped
  <2>3. Past' - 1 = Past
    BY <1>7, <1>10
  <2>5. InLine'
    <3>1. LineStart' < Past' /\ stream'[Past'] = EndOfLine
      BY <1>1, <1>3, <1>7, <1>10, <1>13
    <3>2. NoEnd(stream', LineStart' + 1, Past' - 1) /\ Parsed(Segment(stream', LineStart', Past' - 1), line', flags')
      BY <1>1, <1>3, <1>10, <2>1, <2>3 DEF UpTo
    <3> QED
      BY <2>1, <3>1, <3>2 DEF InLine, UpTo
  <2> QED
    BY <1>9, <1>11, <1>12, <2>2, <2>5 DEF RxInv
<1>14. CASE data # EndOfLine
  <2>1. pc' = "read" /\ Filter
    BY <1>14 DEF Advance
  <2>2. /\ Segment(stream, LineStart, Past) \in Seq(Ordinary)
        /\ Segment(stream, LineStart, Past + 1) \in Seq(Ordinary)
        /\ More(Segment(stream, LineStart, Past + 1), Segment(stream, LineStart, Past), data)
        /\ NoEnd(stream, LineStart + 1, Past + 1)
    BY <1>2, <1>3, <1>10, <1>14, SegmentMore DEF UpTo
  <2>3. data \in Ordinary
    <3>1. Past + 1 \in 1 .. Len(stream)
      BY <1>2, <1>10
    <3>2. data \in Stored
      BY <1>2, <1>3, <3>1
    <3> QED
      BY <1>14, <3>2 DEF Ordinary, Stored
  <2>4. Parsed(Segment(stream, LineStart, Past + 1), line', flags')
    BY <1>3, <2>1, <2>2, <2>3, FilterKeeps DEF UpTo
  <2>5. line' \in Seq(Char)
    <3>1. Upper(data) \in Char
      BY <1>2 DEF Upper, Char
    <3>2. line' = line \/ line' = Append(line, Upper(data))
      BY <2>1 DEF Filter
    <3>3. Append(line, Upper(data)) \in Seq(Char)
      <4>1. PICK u \in Char : u = Upper(data)
        BY <3>1
      <4> QED
        BY <1>2, <4>1
    <3> QED
      BY <1>2, <3>2, <3>3
  <2>6. RxTyped'
    BY <1>1, <1>2, <1>3, <1>6, <2>5 DEF RxTyped
  <2>7. InLine'
    BY <1>1, <1>7, <1>10, <2>1, <2>2, <2>4 DEF InLine, UpTo
  <2> QED
    BY <1>9, <1>11, <1>12, <2>6, <2>7 DEF RxInv
<1> QED
  BY <1>13, <1>14

LEMMA ExecuteStep ==
  ASSUME RxInv, Execute
  PROVE  RxInv'
<1>1. /\ pc = "execute" /\ pc' = "read" /\ line' = <<>> /\ flags' = {}
      /\ answers' = Append(answers, IF "overflow" \in flags THEN <<"overflow">> ELSE line)
      /\ UNCHANGED <<buffer, head, tail, reset, data, cleared, stream, lost, overrun>>
  BY DEF Execute, Go, ringVars
<1>2. /\ Registers \in Regs /\ data \in Char /\ tail \in Slot /\ cleared \in Slot
      /\ Registers.stream = stream /\ Registers.head = head
      /\ stream \in Seq(Stored) /\ stream \in Seq(Char) /\ Len(stream) \in Nat /\ line \in Seq(Char)
      /\ answers \in Seq(Seq(Char \cup {"overflow"}))
  BY StreamTyped DEF RxInv, RxTyped
<1>3. /\ Registers' = Registers /\ Base' = Base /\ Base' = tail
  BY <1>1 DEF Registers, Base
<1>4. Past' = Past
  BY <1>3 DEF Past
<1>5. /\ Past \in 0 .. Len(stream) /\ LineStart \in 0 .. Past /\ Len(answers) \in 0 .. Lines(stream)
  BY Places
<1>6. LineStart < Past /\ stream[Past] = EndOfLine /\ UpTo(Past - 1)
  BY <1>1 DEF RxInv, InLine
<1>7. Len(answers) + 1 \in 0 .. Lines(stream) /\ EndOf(stream, Len(answers) + 1) = Past
  <2>1. Past \in 1 .. Len(stream)
    BY <1>5, <1>6
  <2> QED
    BY <1>2, <1>5, <1>6, <2>1, NextEnd DEF UpTo, LineStart
<1>8. PICK a : a = IF "overflow" \in flags THEN <<"overflow">> ELSE line
  OBVIOUS
<1>9. a = AnswerTo(LineOf(stream, Len(answers) + 1))
  <2>1. PICK l : l = Segment(stream, LineStart, Past - 1)
    OBVIOUS
  <2>2. LineOf(stream, Len(answers) + 1) = l
    <3>1. (Len(answers) + 1) - 1 = Len(answers)
      BY <1>5
    <3> QED
      BY <1>7, <2>1, <3>1 DEF LineOf, Segment, LineStart
  <2>3. Parsed(l, line, flags)
    BY <1>6, <2>1 DEF UpTo
  <2>4. CASE Rest(l) >= LineSize
    BY <1>8, <2>2, <2>3, <2>4 DEF Parsed, AnswerTo, Rest
  <2>5. CASE ~(Rest(l) >= LineSize)
    <3>1. "overflow" \notin flags
      BY <2>3, <2>5 DEF Parsed
    <3> QED
      BY <1>8, <2>2, <2>3, <2>5, <3>1 DEF Parsed, AnswerTo, Rest
  <2> QED
    BY <2>4, <2>5
<1>10. a \in Seq(Char \cup {"overflow"})
  <2>1. PICK V : V = Char \cup {"overflow"}
    OBVIOUS
  <2>2. <<"overflow">> \in Seq(V)
    BY <2>1
  <2>3. line \in Seq(V)
    BY <1>2, <2>1
  <2> QED
    BY <1>8, <2>1, <2>2, <2>3
<1>11. /\ answers' = Append(answers, a) /\ answers' \in Seq(Seq(Char \cup {"overflow"}))
       /\ Len(answers') = Len(answers) + 1
  BY <1>1, <1>2, <1>8, <1>10
<1>12. LineStart' = Past
  BY <1>1, <1>7, <1>11 DEF LineStart
<1>13. RxTyped'
  <2>1. <<>> \in Seq(Char)
    OBVIOUS
  <2> QED
    BY <1>1, <1>2, <1>3, <1>11, <2>1 DEF RxTyped
<1>14. InHand'
  BY <1>1, <1>3, <1>4 DEF RxInv, InHand
<1>15. Answered'
  <2>1. ASSUME NEW k \in DOMAIN answers' PROVE answers'[k] = AnswerTo(LineOf(stream, k))
    <3>1. k \in 1 .. Len(answers) + 1
      BY <1>11
    <3>2. CASE k = Len(answers) + 1
      BY <1>2, <1>9, <1>11, <3>2
    <3>3. CASE k # Len(answers) + 1
      <4>1. k \in DOMAIN answers
        BY <1>2, <3>1, <3>3
      <4> QED
        BY <1>2, <1>11, <4>1 DEF RxInv, Answered
    <3> QED
      BY <3>2, <3>3
  <2>2. LineStart' <= Past' /\ Len(answers') \in 0 .. Lines(stream')
    BY <1>1, <1>4, <1>5, <1>7, <1>11, <1>12
  <2> QED
    BY <1>1, <2>1, <2>2 DEF Answered
<1>16. InLine'
  <2>1. Segment(stream, Past, Past) = <<>> /\ NoEnd(stream, Past + 1, Past)
    BY <1>2, <1>5, SegmentEmpty
  <2> QED
    BY <1>1, <1>4, <1>12, <2>1, ParsedNothing DEF InLine, UpTo
<1>17. CountingLosesNothing'
  BY <1>1 DEF RxInv, CountingLosesNothing
<1> QED
  BY <1>13, <1>14, <1>15, <1>16, <1>17 DEF RxInv

LEMMA NoLines == Lines(<<>>) = 0 /\ EndOf(<<>>, 0) = 0
<1>1. Ends(<<>>) = {}
  BY DEF Ends
<1> QED
  BY <1>1, FS_EmptySet DEF Lines, EndOf

LEMMA ReadHeadStep ==
  ASSUME RxInv, ReadHead
  PROVE  RxInv'
<1>1. /\ pc = "ring" /\ pc' = "clear" /\ cleared' = head
      /\ answers' = <<>> /\ stream' = <<>> /\ lost' = FALSE /\ overrun' = FALSE
      /\ UNCHANGED <<buffer, head, tail, reset, data, line, flags>>
  BY DEF ReadHead, Go, ringVars
<1>2. /\ data \in Char /\ tail \in Slot /\ head \in Slot /\ line \in Seq(Char)
      /\ buffer \in [Slot -> Char] /\ reset \in BOOLEAN
  BY StreamTyped DEF RxInv, RxTyped
<1>3. /\ Registers' \in Regs /\ Registers'.head = head /\ Registers'.stream = <<>>
      /\ Registers'.buffer = buffer
  <2>1. Registers' = [buffer |-> buffer, head |-> head, reset |-> reset, lost |-> FALSE,
                      stream |-> <<>>]
    BY <1>1 DEF Registers
  <2>2. <<>> \in Seq(Stored)
    OBVIOUS
  <2> QED
    BY <1>2, <2>1, <2>2 DEF Regs
<1>4. Base' = head
  BY <1>1 DEF Base
<1>5. /\ Dist(head, head) = 0 /\ Dist(tail, head) \in Nat
      /\ \A x \in Slot : Dist(head, x) \in Nat
  BY <1>2, DistFacts
<1>6. Past' = 0
  BY <1>3, <1>4, <1>5 DEF Past, Gone
<1>7. Holds(Registers', tail', Base')
  BY <1>1, <1>3, <1>4, <1>5 DEF Holds
<1>8. LineStart' = 0 /\ Len(answers') \in 0 .. Lines(stream')
  BY <1>1, NoLines DEF LineStart
<1>9. RxTyped'
  BY <1>1, <1>2, <1>3 DEF RxTyped
<1>10. InHand'
  BY <1>1, <1>6, <1>7 DEF InHand
<1>11. Answered'
  BY <1>1, <1>6, <1>8 DEF Answered
<1>12. InLine'
  BY <1>1 DEF InLine
<1>13. CountingLosesNothing'
  BY <1>1 DEF CountingLosesNothing
<1> QED
  BY <1>9, <1>10, <1>11, <1>12, <1>13 DEF RxInv

LEMMA WriteTailStep ==
  ASSUME RxInv, WriteTail
  PROVE  RxInv'
<1>1. /\ pc = "clear" /\ pc' = "read" /\ tail' = cleared /\ line' = <<>> /\ flags' = {}
      /\ UNCHANGED <<buffer, head, reset, data, cleared, answers, stream, lost, overrun>>
  BY DEF WriteTail, Go, histVars
<1>2. /\ Registers \in Regs /\ data \in Char /\ tail \in Slot /\ cleared \in Slot /\ head \in Slot
      /\ Registers.head = head /\ Registers.stream = stream /\ stream \in Seq(Stored)
      /\ answers \in Seq(Seq(Char \cup {"overflow"}))
  BY StreamTyped DEF RxInv, RxTyped
<1>3. Registers' = Registers /\ Base = cleared /\ Base' = cleared
  BY <1>1 DEF Registers, Base
<1>4. Past = 0 /\ Past' = 0 /\ answers = <<>> /\ Holds(Registers, tail, cleared)
  BY <1>1, <1>3 DEF RxInv, InHand, Past
<1>5. LineStart' = 0 /\ LineStart = 0
  BY <1>1, <1>4 DEF LineStart, EndOf
<1>6. Holds(Registers', tail', Base')
  <2>1. Dist(cleared, cleared) = 0 /\ Dist(cleared, head) \in Nat
    BY <1>2, DistFacts
  <2> QED
    BY <1>1, <1>2, <1>3, <1>4, <2>1 DEF Holds
<1>7. RxTyped'
  <2>1. <<>> \in Seq(Char)
    OBVIOUS
  <2> QED
    BY <1>1, <1>2, <1>3, <2>1 DEF RxTyped
<1>8. InHand'
  BY <1>1, <1>6 DEF InHand
<1>9. Answered'
  BY <1>1, <1>4, <1>5 DEF RxInv, Answered
<1>10. InLine'
  <2>1. Segment(stream, 0, 0) = <<>> /\ NoEnd(stream, 1, 0)
    BY <1>2, SegmentEmpty
  <2> QED
    BY <1>1, <1>4, <1>5, <2>1, ParsedNothing DEF InLine, UpTo
<1>11. CountingLosesNothing'
  BY <1>1 DEF RxInv, CountingLosesNothing
<1> QED
  BY <1>7, <1>8, <1>9, <1>10, <1>11 DEF RxInv

LEMMA RxInvInitially == RxInit => RxInv
<1> SUFFICES ASSUME RxInit PROVE RxInv
  OBVIOUS
<1>1. /\ buffer = [s \in Slot |-> EndOfLine] /\ head = 0 /\ tail = 0
      /\ reset = FALSE /\ pc = "restart" /\ data = EndOfLine
      /\ line = <<>> /\ cleared = 0
      /\ answers = <<>> /\ stream = <<>> /\ lost = FALSE /\ overrun = FALSE
  BY DEF RxInit
<1>2. 0 \in Slot /\ EndOfLine \in Char
  BY SizesAssumption DEF Slot, Char
<1>3. /\ Registers \in Regs /\ Registers.head = 0 /\ Registers.stream = <<>>
      /\ Registers.buffer = buffer
  BY <1>1, <1>2 DEF Registers, Regs
<1>4. Base = 0
  BY <1>1 DEF Base
<1>5. /\ Dist(0, 0) = 0 /\ \A x \in Slot : Dist(0, x) \in Nat
  BY <1>2, DistFacts
<1>6. Past = 0 /\ LineStart = 0 /\ Lines(stream) = 0
  BY <1>1, <1>3, <1>4, <1>5, NoLines DEF Past, Gone, LineStart
<1>7. RxTyped
  BY <1>1, <1>2, <1>3 DEF RxTyped
<1>8. InHand
  BY <1>1, <1>3, <1>4, <1>5 DEF InHand, Holds
<1>9. Answered
  BY <1>1, <1>6 DEF Answered
<1>10. InLine
  BY <1>1 DEF InLine
<1> QED
  BY <1>1, <1>7, <1>8, <1>9, <1>10 DEF RxInv, CountingLosesNothing

LEMMA RxInvStutters ==
  ASSUME RxInv, UNCHANGED rxVars
  PROVE  RxInv'
<1>1. /\ UNCHANGED <<buffer, head, tail, reset, pc, data, line, flags, cleared, answers,
                     stream, lost, overrun>>
  BY DEF rxVars, ringVars, mainVars, histVars
<1>2. Registers' = Registers /\ Base' = Base
  BY <1>1 DEF Registers, Base
<1>3. Past' = Past /\ LineStart' = LineStart
  BY <1>1, <1>2 DEF Past, LineStart
<1>4. RxTyped' /\ InHand' /\ Answered'
  BY <1>1, <1>2, <1>3 DEF RxInv, RxTyped, InHand, Answered
<1>5. InLine' /\ CountingLosesNothing'
  BY <1>1, <1>3 DEF RxInv, InLine, UpTo, CountingLosesNothing
<1> QED
  BY <1>4, <1>5 DEF RxInv

LEMMA RxInvAnswers == RxInv => LinesAreAnswered
<1> SUFFICES ASSUME RxInv PROVE LinesAreAnswered
  OBVIOUS
<1>1. Len(answers) <= Cardinality(Ends(stream))
  <2>1. Lines(stream) \in Nat /\ Len(answers) \in 0 .. Lines(stream)
    BY Places, StreamTyped, EndsTyped DEF RxInv, RxTyped
  <2> QED
    BY <2>1 DEF Lines
<1>2. \A k \in DOMAIN answers : answers[k] = AnswerTo(LineOf(stream, k))
  BY DEF RxInv, Answered
<1>3. ASSUME pc = "read", head = tail PROVE Len(answers) = Cardinality(Ends(stream))
  <2>1. Base = tail
    BY <1>3 DEF Base
  <2>2. tail \in Slot /\ stream \in Seq(Char) /\ Len(stream) \in Nat
    BY StreamTyped DEF RxInv, RxTyped
  <2>3. Past = Len(stream)
    <3>1. Dist(Base, head) = 0
      BY <1>3, <2>1, <2>2, DistFacts
    <3>2. Past = Len(stream) - Dist(Base, head)
      BY Places
    <3> QED
      BY <2>2, <3>1, <3>2
  <2>4. NoEnd(stream, LineStart + 1, Len(stream))
    BY <1>3, <2>3 DEF RxInv, InLine, UpTo
  <2> QED
    BY <2>2, <2>4, Places, NoMoreEnds DEF LineStart, Lines
<1> QED
  BY <1>1, <1>2, <1>3 DEF LinesAreAnswered, AnsweredAsSent, RxInv

(* For a host that does not count on more room than the ring has, lines    *)
(* are answered as they were sent (llp_transport.c:60-71,                  *)
(* serial.c:116-130, protocol.c:78-149), wherever the receive interrupt    *)
(* comes between the steps of the main program, and from each reset on     *)
(* anew: for all sizes of ring and line, and whatever frames bring.        *)
THEOREM LinesTheorem ==
  ASSUME HostCounts <= RingSize - 1
  PROVE  RxSpec => []LinesAreAnswered
<1>1. ASSUME RxInv, [RxNext]_rxVars PROVE RxInv'
  <2>1. CASE UNCHANGED rxVars
    BY <1>1, <2>1, RxInvStutters
  <2>2. CASE Receive
    BY <1>1, <2>2, ReceiveStep
  <2>3. CASE ReadNothing \/ Read \/ CheckPoint \/ Idle \/ Restart
    BY <1>1, <2>3, QuietStep
  <2>4. CASE Fetch
    BY <1>1, <2>4, FetchStep
  <2>5. CASE Advance
    BY <1>1, <2>5, AdvanceStep
  <2>6. CASE Execute
    BY <1>1, <2>6, ExecuteStep
  <2>7. CASE ReadHead
    BY <1>1, <2>7, ReadHeadStep
  <2>8. CASE WriteTail
    BY <1>1, <2>8, WriteTailStep
  <2> QED
    BY <1>1, <2>1, <2>2, <2>3, <2>4, <2>5, <2>6, <2>7, <2>8 DEF RxNext
<1> QED
  BY <1>1, RxInvInitially, RxInvAnswers, PTL DEF RxSpec

=============================================================================
