------------------------------ MODULE SerialTx ------------------------------
(***************************************************************************)
(* The sending half of the link: the main program prints lines byte by     *)
(* byte (serial_write), llp_transport.c frames each line and copies the    *)
(* frame into the transmit ring, and the data register empty interrupt     *)
(* takes it out again.  The interrupt runs between any two steps of the    *)
(* main program; while a frame is being copied, at most Burst times        *)
(* between the same two.                                                   *)
(*                                                                         *)
(* A name with a suffix, such as NextIndex_TooFar, is a wrong version of   *)
(* the definition that follows it and is used by no action.                *)
(***************************************************************************)
EXTENDS LlpFrame

CONSTANTS
  TxLineSize,  \* LLP_TX_LINE_BUF_SIZE
  RingSize,    \* TX_RING_BUFFER
  Spins,       \* turns of the wait for room before it gives up, 10000
  Burst,       \* bytes the transmitter can take between two steps of a copy
  OutLines,    \* the lines the program prints
  MaxPrinted   \* bound on the lines of a behaviour

ASSUME SizesAssumption ==
  /\ TxLineSize \in Nat \ {0} /\ Spins \in Nat \ {0}
  /\ RingSize \in Nat /\ RingSize >= 3
ASSUME BurstAssumption == Burst \in Nat
ASSUME PrintAssumption == OutLines \subseteq Seq(Byte) /\ MaxPrinted \in Nat

NewLine == 10

VARIABLES
  text,      \* what the main program has still to print of a line
  line_buf,  \* llp_tx_line_buf[0 .. llp_tx_line_idx - 1]
  frame,     \* llp_tx_frame_buf[0 .. frame_len - 1]
  pos,       \* i + 1 in the copying loop
  spin,
  ring, head, tail, \* serial_tx_buffer and its two indices
  udrie,     \* UDRIE0: the transmit interrupt is enabled
  dropped,   \* llp_tx_dropped_count
  pc,        \* where the main program is
  burst,     \* bytes taken since the last step of the copy
  queued,    \* history: the bytes put into the ring
  uart,      \* history: the bytes that left
  printed    \* history: the lines printed

lineVars == <<text, line_buf, printed>>
copyVars == <<frame, pos, spin>>
ringVars == <<ring, head, tail, queued, uart>>
vars == <<lineVars, copyVars, ringVars, udrie, dropped, pc, burst>>

Index == 0 .. RingSize - 1

Init ==
  /\ text = <<>> /\ line_buf = <<>> /\ printed = <<>>
  /\ frame = <<>> /\ pos = 1 /\ spin = Spins
  /\ ring = [i \in Index |-> 0] /\ head = 0 /\ tail = 0
  /\ queued = <<>> /\ uart = <<>>
  /\ udrie = FALSE /\ dropped = 0 /\ pc = "print" /\ burst = 0

-----------------------------------------------------------------------------
NextIndex_TooFar(i) == IF i + 1 > RingSize THEN 0 ELSE i + 1
NextIndex(i) == IF i + 1 = RingSize THEN 0 ELSE i + 1
MainAt(label) == pc = label /\ burst' = 0

(* The main program begins to print a line, its line end included.         *)
PrintLine ==
  /\ MainAt("print") /\ text = <<>> /\ Len(printed) < MaxPrinted
  /\ text' \in OutLines
  /\ printed' = Append(printed, text')
  /\ UNCHANGED <<line_buf, copyVars, ringVars, udrie, dropped, pc>>

(* llp_transport_tx_flush up to its loop: a payload that is too long for   *)
(* its buffer ends the call (llp_build_final_payload).                     *)
FitsPayload(line) == Len(line) + 1 <= MaxPayload
Flush(line) ==
  /\ line_buf' = <<>>
  /\ IF FitsPayload(line)
       THEN /\ frame' = build_frame(<<0>> \o line)
            /\ pos' = 1 /\ spin' = Spins /\ pc' = "test"
       ELSE UNCHANGED <<frame, pos, spin, pc>>

(* serial_write, llp_transport_tx_byte.                                    *)
WriteByte ==
  LET b == Head(text)
      line == IF Len(line_buf) < TxLineSize THEN Append(line_buf, b) ELSE line_buf
  IN /\ MainAt("print") /\ text # <<>>
     /\ text' = Tail(text)
     /\ IF b = NewLine \/ Len(line) >= TxLineSize
          THEN Flush(line)
          ELSE line_buf' = line /\ UNCHANGED <<frame, pos, spin, pc>>
     /\ UNCHANGED <<printed, ringVars, udrie, dropped>>

(* The loop that copies the frame: is there room for the next byte?        *)
RingFull_LastSlot == FALSE
RingFull == NextIndex(head) = tail
Test ==
  /\ MainAt("test")
  /\ pc' = IF RingFull THEN "wait" ELSE "store"
  /\ UNCHANGED <<lineVars, copyVars, ringVars, udrie, dropped>>

(* A turn of the wait for room.  Each enables the interrupt; the last one  *)
(* gives the rest of the frame up.                                         *)
Wait_NoCount ==
  /\ MainAt("wait")
  /\ udrie' = TRUE
  /\ spin' = spin - 1
  /\ pc' = IF spin' = 0 THEN "print" ELSE "test"
  /\ UNCHANGED <<lineVars, frame, pos, ringVars, dropped>>
Wait_Forever ==
  /\ MainAt("wait")
  /\ udrie' = TRUE
  /\ pc' = "test"
  /\ UNCHANGED <<lineVars, copyVars, ringVars, dropped>>
Wait ==
  /\ MainAt("wait")
  /\ udrie' = TRUE
  /\ spin' = spin - 1
  /\ IF spin' = 0
       THEN pc' = "print" /\ dropped' = dropped + 1
       ELSE pc' = "test" /\ UNCHANGED dropped
  /\ UNCHANGED <<lineVars, frame, pos, ringVars>>

Store ==
  /\ MainAt("store")
  /\ ring' = [ring EXCEPT ![head] = frame[pos]]
  /\ head' = NextIndex(head)
  /\ queued' = Append(queued, frame[pos])
  /\ pos' = pos + 1 /\ spin' = Spins
  /\ pc' = IF pos = Len(frame) THEN "enable" ELSE "test"
  /\ UNCHANGED <<lineVars, frame, tail, uart, udrie, dropped>>

Enable_Forgotten ==
  /\ MainAt("enable") /\ pc' = "print"
  /\ UNCHANGED <<lineVars, copyVars, ringVars, udrie, dropped>>
Enable ==
  /\ MainAt("enable") /\ pc' = "print"
  /\ udrie' = TRUE
  /\ UNCHANGED <<lineVars, copyVars, ringVars, dropped>>

(* The data register empty interrupt.  It does not ask whether the ring    *)
(* holds anything; it turns itself off with the last byte.                 *)
Udre_KeepOn ==
  /\ udrie /\ (pc = "print" \/ burst < Burst)
  /\ uart' = Append(uart, ring[tail])
  /\ tail' = NextIndex(tail)
  /\ burst' = IF pc = "print" THEN 0 ELSE burst + 1
  /\ UNCHANGED <<lineVars, copyVars, ring, head, queued, udrie, dropped, pc>>
Udre ==
  /\ udrie /\ (pc = "print" \/ burst < Burst)
  /\ uart' = Append(uart, ring[tail])
  /\ tail' = NextIndex(tail)
  /\ udrie' = (tail' # head)
  /\ burst' = IF pc = "print" THEN 0 ELSE burst + 1
  /\ UNCHANGED <<lineVars, copyVars, ring, head, queued, dropped, pc>>

Main == PrintLine \/ WriteByte \/ Test \/ Wait \/ Store \/ Enable
Next == Main \/ Udre
Spec == Init /\ [][Next]_vars

(* Only the main program is sure to go on: the transmitter may be stuck.   *)
FairSpec == Spec /\ WF_vars(Main)

-----------------------------------------------------------------------------
(* The bytes in the ring, oldest first at tail.                            *)
Used == Len(queued) - Len(uart)
Offset(i, k) == IF i + k < RingSize THEN i + k ELSE i + k - RingSize

(* The variables keep their types.                                         *)
TypeOK ==
  /\ text \in Seq(Byte) /\ line_buf \in Seq(Byte) /\ Len(line_buf) < TxLineSize
  /\ pos \in Nat \ {0} /\ spin \in 0 .. Spins
  /\ head \in Index /\ tail \in Index
  /\ udrie \in BOOLEAN /\ dropped \in Nat /\ burst \in Nat
  /\ pc \in {"print", "test", "wait", "store", "enable"}

(* The transmitter sends what was put into the ring, each byte once and in *)
(* order, and nothing else: the interrupt that does not ask whether the    *)
(* ring is empty (serial.c:99-112) is never enabled with an empty one.     *)
Channel == INSTANCE ByteChannel WITH accepted <- queued, sent <- uart
SentAsQueued == Channel!Spec

(* No byte is left in the ring with the interrupt off once the main        *)
(* program has turned to something else (llp_transport.c:236 and 227).     *)
NothingForgotten == pc = "print" /\ head # tail => udrie

(* As long as no loss is counted (README.md:45, td), every line that was   *)
(* printed is in one whole frame, and the frames follow each other in the  *)
(* order of printing (llp_transport.c:189-237).                            *)
FrameOf(line) == build_frame(<<0>> \o line)
LinesFramed ==
  pc = "print" /\ text = <<>> /\ dropped = 0 =>
    queued = FlattenSeq([i \in DOMAIN printed |-> FrameOf(printed[i])])

(* The wait for room ends whatever the transmitter does, so that printing  *)
(* never holds the main program up for good (llp_transport.c:224-232).     *)
FlushReturns == pc # "print" ~> pc = "print"
=============================================================================
