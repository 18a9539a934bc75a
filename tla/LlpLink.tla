------------------------------ MODULE LlpLink -------------------------------
(***************************************************************************)
(* The receiving half of the link end to end: a host that frames payloads  *)
(* with llp_build_frame, a serial line that loses, damages and inserts     *)
(* bytes and pauses between them, and the firmware's receive interrupt,    *)
(* llp_transport_rx_byte, with its parser and its walk of the layers.      *)
(***************************************************************************)
EXTENDS LlpParser

CONSTANTS
  Payloads,   \* the payloads the host sends, in this order; their data differ
  Noise,      \* the bytes that damage can leave on the line
  Gaps,       \* lengths of the pauses between bytes
  MaxFaults,  \* bound on the line's faults
  MaxPauses   \* bound on the pauses

ASSUME LinkAssumption ==
  /\ Payloads \in Seq(Seq(Byte))
  /\ Noise \subseteq Byte /\ Gaps \subseteq Nat
  /\ MaxFaults \in Nat /\ MaxPauses \in Nat

VARIABLES
  sent,       \* number of payloads the host has sent
  wire,       \* bytes on the line
  now,        \* llp_ms_counter, 16 bits of it
  delivered,  \* data handed to llp_process_payload
  faults, pauses,
  intact,     \* history: no fault or long pause since the frame was begun
  silence,    \* history: the true time since the last byte
  torn        \* history: a long pause lies inside the frame in progress

linkVars == <<sent, wire, now, delivered, faults, pauses, intact, silence, torn>>
vars == <<parserVars, linkVars>>

Init ==
  /\ parser_init
  /\ sent = 0 /\ wire = <<>> /\ now = 0 /\ delivered = <<>>
  /\ faults = 0 /\ pauses = 0
  /\ intact = TRUE /\ silence = 0 /\ torn = FALSE

-----------------------------------------------------------------------------
(* The host begins a frame when the last one has left.                     *)
SendFrame ==
  /\ wire = <<>> /\ sent < Len(Payloads)
  /\ sent' = sent + 1
  /\ wire' = build_frame(Payloads[sent'])
  /\ intact' = ~escape_pending
  /\ UNCHANGED <<parserVars, now, delivered, faults, pauses, silence, torn>>

(* Faults of the line: the next byte is lost or damaged, or another one is *)
(* received before it.                                                     *)
Fault(w) ==
  /\ wire # <<>> /\ faults < MaxFaults
  /\ faults' = faults + 1 /\ wire' = w /\ intact' = FALSE
  /\ UNCHANGED <<parserVars, sent, now, delivered, pauses, silence, torn>>
Lose == Fault(Tail(wire))
Damage == \E b \in Noise : Fault(<<b>> \o Tail(wire))
Insert == \E b \in Noise : Fault(<<b>> \o wire)

Pause ==
  /\ pauses < MaxPauses /\ pauses' = pauses + 1
  /\ \E g \in Gaps : /\ now' = (now + g) % Wrap
                     /\ silence' = silence + g
                     /\ intact' = (intact /\ (silence' <= TimeoutMs \/ prev = NoByte))
  /\ UNCHANGED <<parserVars, sent, wire, delivered, faults, torn>>

(* The receive interrupt.                                                  *)
LongPause == silence > TimeoutMs
Restarts == state' \in Hunting \/ (state' = "READ_LEN_L" /\ result' = -1)
AppData(buf) == SubSeq(buf, data_offset(buf) + 1, Len(buf))
HasData(buf) == data_offset(buf) # NoData /\ AppData(buf) # <<>>
rx_byte ==
  /\ wire # <<>> /\ wire' = Tail(wire)
  /\ process_byte(Head(wire), now)
  /\ delivered' = IF result' = 1 /\ HasData(payload)
                    THEN Append(delivered, AppData(payload)) ELSE delivered
  /\ silence' = 0
  /\ torn' = (~Restarts /\ (torn \/ LongPause))
  /\ UNCHANGED <<sent, now, faults, pauses, intact>>

Next == SendFrame \/ Lose \/ Damage \/ Insert \/ Pause \/ rx_byte
Spec == Init /\ [][Next]_vars

-----------------------------------------------------------------------------
DataOf(i) == AppData(Payloads[i])

(* Whatever the line does to the bytes, the firmware acts on nothing but   *)
(* payloads the host has sent, on each at most once and in their order     *)
(* (the checksum test, llp_protocol.h:300-307).                            *)
DeliveredInOrder ==
  \E f \in [DOMAIN delivered -> 1 .. sent] :
    /\ \A i \in DOMAIN delivered : delivered[i] = DataOf(f[i])
    /\ \A i, j \in DOMAIN delivered : i < j => f[i] < f[j]

(* A frame that arrives intact is acted on, whatever was left of damaged   *)
(* frames before it (the resynchronisation, llp_protocol.h:212-227 and     *)
(* 249-260).                                                               *)
IntactFrameDelivered ==
  wire = <<>> /\ sent > 0 /\ intact =>
    delivered # <<>> /\ Last(delivered) = DataOf(sent)

(* No payload is put together from bytes that a pause longer than the      *)
(* timeout separates (config.h:687-688: the parser resets).                *)
NoTornFrame == [][delivered' # delivered => ~(torn \/ LongPause)]_vars

=============================================================================
