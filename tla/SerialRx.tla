------------------------------ MODULE SerialRx ------------------------------
(***************************************************************************)
(* The receive ring, from the application data of a frame to the lines the *)
(* main loop executes: llp_process_payload and llp_rx_buffer_write in the  *)
(* receive interrupt, serial_read, the filter of protocol_main_loop, and   *)
(* the clearing of the ring on a reset.  LlpLink ends where this module    *)
(* begins; what the realtime commands do, and the states in which a line   *)
(* is refused, are in RtExec; what an executed line does is in Gcode.      *)
(***************************************************************************)
EXTENDS Integers, Sequences, FiniteSets, SequencesExt

CONSTANTS
  RingSize,    \* RX_RING_BUFFER: one more than the ring can hold
  LineSize,    \* LINE_BUFFER_SIZE: one more than a line can hold
  HostCounts,  \* how many characters the host takes the ring to hold
  FrameData,   \* what a frame can bring
  MaxPayloads  \* bound on the frames

(* Characters, as far as the main loop tells them apart: "g" is any small  *)
(* letter and "G" its capital, " " is any character below it or "/".       *)
(* Realtime characters are "reset" and, for all others, "realtime".        *)
EndOfLine == "eol"
Realtime == {"reset", "realtime"}
Char == {"g", "G", " ", "(", ")", ";", EndOfLine} \cup Realtime

ASSUME SizesAssumption ==
  RingSize \in Nat \ {0, 1} /\ LineSize \in Nat \ {0} /\ HostCounts \in Nat
ASSUME FrameDataAssumption == FrameData \subseteq Seq(Char) /\ MaxPayloads \in Nat

VARIABLES
  buffer, head, tail,  \* serial_rx_buffer
  reset,       \* EXEC_RESET is flagged
  pc, data,    \* the main program, and the character it has in hand
  line, flags, \* the line buffer up to char_counter, and line_flags
  cleared,     \* the head read by serial_reset_read_buffer
  payloads,    \* number of frames so far
  answers,     \* history: what became of each line since the last clearing
  stream,      \* history: the characters put into the ring since then
  lost,        \* history: one was dropped since then (rd in the answer to '#')
  overrun      \* history: the host did not count since then, see Counted

ringVars == <<buffer, head, tail>>
mainVars == <<pc, data, line, flags, cleared>>
histVars == <<answers, stream, lost, overrun>>
rxVars == <<ringVars, reset, mainVars, payloads, histVars>>

Slot == 0 .. RingSize - 1
RxInit ==
  /\ buffer = [s \in Slot |-> EndOfLine] /\ head = 0 /\ tail = 0
  /\ reset = FALSE /\ pc = "restart" /\ data = EndOfLine
  /\ line = <<>> /\ flags = {} /\ cleared = 0 /\ payloads = 0
  /\ answers = <<>> /\ stream = <<>> /\ lost = FALSE /\ overrun = FALSE

-----------------------------------------------------------------------------
(* The lines of a sequence of characters, by definition and not by parsing *)
(* it: they serve the history variables and the properties.                *)
Ends(s) == {i \in DOMAIN s : s[i] = EndOfLine}
Nth(S, k) == CHOOSE i \in S : Cardinality({j \in S : j <= i}) = k
EndOf(s, k) == IF k = 0 THEN 0 ELSE Nth(Ends(s), k)
LineOf(s, k) == SubSeq(s, EndOf(s, k - 1) + 1, EndOf(s, k) - 1)

(* The host counts: it keeps the characters of the lines that have no      *)
(* answer yet within what it takes the ring to hold                        *)
(* (doc/markdown/interface.md:39), and sends nothing while it is cleared.  *)
Unanswered == Len(stream) - EndOf(stream, Len(answers))
Counted(p) ==
  /\ Unanswered + Cardinality({i \in DOMAIN p : p[i] \notin Realtime}) <= HostCounts
  /\ pc # "clear"

-----------------------------------------------------------------------------
(* The receive interrupt.                                                  *)
NextSlot(s) == IF s + 1 = RingSize THEN 0 ELSE s + 1

Full(h) == NextSlot(h) = tail

(* A frame's data are taken character by character within one interrupt:   *)
(* realtime characters are acted on, all others go to the ring.            *)
rx_char(r, c) ==
  IF c = "reset" THEN [r EXCEPT !.reset = TRUE]
  ELSE IF c \in Realtime THEN r
  ELSE IF Full(r.head) THEN [r EXCEPT !.lost = TRUE]
  ELSE [r EXCEPT !.buffer[r.head] = c, !.head = NextSlot(r.head),
                 !.stream = Append(@, c)]

process_payload(p) ==
  LET r == FoldLeft(rx_char, [buffer |-> buffer, head |-> head, reset |-> reset,
                              lost |-> lost, stream |-> stream], p)
  IN /\ payloads < MaxPayloads /\ payloads' = payloads + 1
     /\ buffer' = r.buffer /\ head' = r.head /\ reset' = r.reset
     /\ lost' = r.lost /\ stream' = r.stream
     /\ overrun' = (overrun \/ ~Counted(p))
     /\ UNCHANGED <<tail, mainVars, answers>>
Receive == \E p \in FrameData : process_payload(p)

-----------------------------------------------------------------------------
(* serial_read, in the steps between which the interrupt can come.         *)
Go(from, to) == pc = from /\ pc' = to

ReadNothing ==
  /\ Go("read", "idle") /\ head = tail
  /\ UNCHANGED <<ringVars, reset, data, line, flags, cleared, payloads, histVars>>

Read ==
  /\ Go("read", "fetch") /\ head # tail
  /\ UNCHANGED <<ringVars, reset, data, line, flags, cleared, payloads, histVars>>

Fetch ==
  /\ Go("fetch", "advance") /\ data' = buffer[tail]
  /\ UNCHANGED <<ringVars, reset, line, flags, cleared, payloads, histVars>>

(* The filter of protocol_main_loop: comments, blanks and what does not    *)
(* fit are left out, letters made capital.                                 *)
Upper(c) == IF c = "g" THEN "G" ELSE c

Filter ==
  \/ /\ flags # {}
     /\ flags' = IF data = ")" THEN flags \ {"parentheses"} ELSE flags
     /\ UNCHANGED line
  \/ /\ flags = {} /\ data = " " /\ UNCHANGED <<line, flags>>
  \/ /\ flags = {} /\ data = "(" /\ flags' = {"parentheses"} /\ UNCHANGED line
  \/ /\ flags = {} /\ data = ";" /\ flags' = {"semicolon"} /\ UNCHANGED line
  \/ /\ flags = {} /\ data \in {"g", "G", ")"}
     /\ IF Len(line) >= LineSize - 1
          THEN flags' = {"overflow"} /\ UNCHANGED line
          ELSE line' = Append(line, Upper(data)) /\ UNCHANGED flags

Advance ==
  /\ pc = "advance" /\ tail' = NextSlot(tail)
  /\ \/ data = EndOfLine /\ pc' = "line" /\ UNCHANGED <<line, flags>>
     \/ data # EndOfLine /\ pc' = "read" /\ Filter
  /\ UNCHANGED <<buffer, head, reset, data, cleared, payloads, histVars>>

(* A complete line: one check point, then it is executed and answered.     *)
CheckPoint ==
  /\ Go("line", IF reset THEN "restart" ELSE "execute")
  /\ UNCHANGED <<ringVars, reset, data, line, flags, cleared, payloads, histVars>>

Execute_KeepFlags ==
  /\ Go("execute", "read")
  /\ answers' = Append(answers, IF "overflow" \in flags THEN <<"overflow">> ELSE line)
  /\ line' = <<>>
  /\ UNCHANGED <<ringVars, reset, data, flags, cleared, payloads, stream, lost, overrun>>
Execute ==
  /\ Go("execute", "read")
  /\ answers' = Append(answers, IF "overflow" \in flags THEN <<"overflow">> ELSE line)
  /\ line' = <<>> /\ flags' = {}
  /\ UNCHANGED <<ringVars, reset, data, cleared, payloads, stream, lost, overrun>>

(* Nothing to read: the check point at the end of the loop.                *)
Idle ==
  /\ Go("idle", IF reset THEN "restart" ELSE "read")
  /\ UNCHANGED <<ringVars, reset, data, line, flags, cleared, payloads, histVars>>

-----------------------------------------------------------------------------
(* main() after a reset or at power-up: the flags are cleared, then the    *)
(* ring, whose head is read and made the tail.                             *)
Restart ==
  /\ Go("restart", "ring") /\ reset' = FALSE
  /\ UNCHANGED <<ringVars, data, line, flags, cleared, payloads, histVars>>

ReadHead ==
  /\ Go("ring", "clear") /\ cleared' = head
  /\ answers' = <<>> /\ stream' = <<>> /\ lost' = FALSE /\ overrun' = FALSE
  /\ UNCHANGED <<ringVars, reset, data, line, flags, payloads>>

WriteTail ==
  /\ Go("clear", "read") /\ tail' = cleared
  /\ line' = <<>> /\ flags' = {}
  /\ UNCHANGED <<buffer, head, reset, data, cleared, payloads, histVars>>

RxNext ==
  \/ Receive
  \/ ReadNothing \/ Read \/ Fetch \/ Advance \/ CheckPoint \/ Execute \/ Idle
  \/ Restart \/ ReadHead \/ WriteTail
RxSpec == RxInit /\ [][RxNext]_rxVars

-----------------------------------------------------------------------------
(* What is left of a line, and what becomes of it, by definition: a        *)
(* character counts that is in no comment and no blank.                    *)
InParentheses(l, j) ==
  \E i \in 1 .. j - 1 : l[i] = "(" /\ \A k \in i + 1 .. j - 1 : l[k] # ")"
AfterSemicolon(l, j) ==
  \E i \in 1 .. j - 1 : l[i] = ";" /\ ~InParentheses(l, i)
Counting(l) ==
  {j \in DOMAIN l : /\ ~InParentheses(l, j) /\ ~AfterSemicolon(l, j)
                    /\ l[j] \notin {" ", "(", ";"}}
AnswerTo(l) ==
  LET n == Cardinality(Counting(l))
  IN IF n >= LineSize THEN <<"overflow">>
     ELSE [k \in 1 .. n |-> Upper(l[Nth(Counting(l), k)])]

(* Nothing is dropped as long as the host counts: "always ensures Grbl's   *)
(* serial read buffer is filled, while never overflowing it"               *)
(* (doc/markdown/interface.md:41).                                         *)
CountingLosesNothing == lost => overrun

(* As long as nothing is dropped, lines are executed as they were sent, in *)
(* their order and each once, and one too long is refused and not executed *)
(* ("Line was not processed and executed", doc/markdown/interface.md:151). *)
(* With nothing left to read all are answered.                             *)
AnsweredAsSent ==
  ~lost =>
    /\ Len(answers) <= Cardinality(Ends(stream))
    /\ \A k \in DOMAIN answers : answers[k] = AnswerTo(LineOf(stream, k))
    /\ pc = "read" /\ head = tail => Len(answers) = Cardinality(Ends(stream))

(* What a sender can rely on (llp_transport.c:60-71, serial.c:116-130,     *)
(* protocol.c:78-149), wherever the interrupt comes between the steps of   *)
(* the main program, and from each reset on anew.                          *)
LinesAreAnswered == CountingLosesNothing /\ AnsweredAsSent
=============================================================================
