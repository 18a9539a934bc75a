----------------------------- MODULE GcodeBlock -----------------------------
(***************************************************************************)
(* How one line of g-code is read and checked (gcode.c, steps 1 to 3 of    *)
(* gc_execute_line): pure operators from the line, the parser state gc and *)
(* the coordinate data stored in EEPROM to a verdict and to the values the *)
(* execution step uses.                                                    *)
(*                                                                         *)
(* A line is [jog, words]; a word is <<"G28.1">> or <<"X", 5>>.  Positions *)
(* are vectors of whole millimetres.  Spindle, coolant, tool and line      *)
(* number are accepted words without a value in the model: this firmware   *)
(* only copies them.                                                       *)
(***************************************************************************)
EXTENDS Integers, Sequences, FiniteSets, SequencesExt

CONSTANTS
  Axes,        \* the letters of the axes
  MmPerInch,   \* MM_PER_INCH
  NCoord       \* N_COORDINATE_SYSTEM

ASSUME GcodeAssumption ==
  /\ Axes \subseteq {"X", "Y", "Z"} /\ "X" \in Axes
  /\ MmPerInch \in Nat \ {0} /\ NCoord \in 1 .. 6

Word == [1 .. 1 -> STRING] \cup (STRING \X Int)
Vector == [Axes -> Int]
Zero == [a \in Axes |-> 0]
None == "none"
Plane == Axes \cap {"X", "Y"}  \* G17, G18 and G19 all select the XY plane

(* The records of coordinate data, numbered as in EEPROM.                  *)
G28Slot == NCoord
G30Slot == NCoord + 1
Slots == 0 .. G30Slot
Torn == <<>>  \* a record whose checksum does not match has no coordinates

Arcs == {"G2", "G3"}
Probes == {"G38.2", "G38.3", "G38.4", "G38.5"}
ProbesNoError == {"G38.3", "G38.5"}
Motions == {"G0", "G1"} \cup Arcs \cup Probes
AxisNonModal == {"G10", "G28", "G30", "G92"}
NonModal == AxisNonModal \cup {"G4", "G53", "G28.1", "G30.1", "G92.1"}
CoordWords == SubSeq(<<"G54", "G55", "G56", "G57", "G58", "G59">>, 1, NCoord)

ModalGroup(c) ==
  CASE c \in NonModal -> "G0"
    [] c \in Motions \cup {"G80"} -> "G1"
    [] c \in {"G17", "G18", "G19"} -> "G2"
    [] c \in {"G90", "G91"} -> "G3"
    [] c = "G91.1" -> "G4"
    [] c \in {"G93", "G94"} -> "G5"
    [] c \in {"G20", "G21"} -> "G6"
    [] c = "G40" -> "G7"
    [] c \in ToSet(CoordWords) -> "G12"
    [] c = "G61" -> "G13"
    [] c \in {"M0", "M1", "M2", "M30"} -> "M4"
    [] c \in {"M3", "M4", "M5"} -> "M7"
    [] c \in {"M8", "M9"} -> "M8"
    [] OTHER -> None

Letters == {"F", "I", "J", "K", "L", "N", "P", "R", "S", "T", "X", "Y", "Z"}
NeverNegative == {"F", "N", "P", "S", "T"}
Offset == [a \in {"X", "Y", "Z"} |-> CASE a = "X" -> "I" [] a = "Y" -> "J" [] a = "Z" -> "K"]

-----------------------------------------------------------------------------
(* Step 1 and 2: the block starts from the modes of the parser and takes   *)
(* the words one by one.                                                   *)

FreshBlock(gc, jog) ==
  [jog |-> jog, refused |-> FALSE, groups |-> {}, words |-> {},
   non_modal |-> None, axis_command |-> None,
   modal |-> IF jog THEN [gc.modal EXCEPT !.motion = "G1", !.feed_rate = "G94"]
             ELSE gc.modal,
   value |-> [l \in Letters |-> 0]]

SetMode(modal, c) ==
  CASE ModalGroup(c) = "G1" -> [modal EXCEPT !.motion = c]
    [] ModalGroup(c) = "G3" -> [modal EXCEPT !.distance = c]
    [] ModalGroup(c) = "G5" -> [modal EXCEPT !.feed_rate = c]
    [] ModalGroup(c) = "G6" -> [modal EXCEPT !.units = c]
    [] ModalGroup(c) = "G12" ->
         [modal EXCEPT !.coord_select = CHOOSE i \in 0 .. NCoord - 1 : CoordWords[i + 1] = c]
    [] OTHER -> modal

AxisCommandOf(c) == IF c \in AxisNonModal THEN "non_modal"
                    ELSE IF c \in Motions THEN "motion" ELSE None

ReadCommand(b, c) ==
  LET axis == AxisCommandOf(c)
      group == ModalGroup(c)
  IN [b EXCEPT
        !.refused = \/ group = None
                    \/ group \in b.groups
                    \/ axis # None /\ b.axis_command # None,
        !.groups = @ \cup {group},
        !.axis_command = IF axis = None THEN @ ELSE axis,
        !.non_modal = IF group = "G0" THEN c ELSE @,
        !.modal = SetMode(@, c)]

ReadValue(b, letter, v) ==
  [b EXCEPT
     !.refused = \/ letter \notin Letters
                 \/ letter \in b.words
                 \/ letter \in NeverNegative /\ v < 0,
     !.words = @ \cup {letter},
     !.value = IF letter \in Letters THEN [@ EXCEPT ![letter] = v] ELSE @]

ReadWord(b, w) ==
  IF b.refused THEN b
  ELSE IF Len(w) = 1 THEN ReadCommand(b, w[1]) ELSE ReadValue(b, w[1], w[2])

AxisWords(b) == b.words \cap Axes

(* Axis words without a command for them belong to the motion mode.        *)
Parse(gc, line) ==
  LET block[i \in 0 .. Len(line.words)] ==
        IF i = 0 THEN FreshBlock(gc, line.jog) ELSE ReadWord(block[i - 1], line.words[i])
      b == block[Len(line.words)]
  IN IF AxisWords(b) # {} /\ b.axis_command = None
       THEN [b EXCEPT !.axis_command = "motion"] ELSE b

-----------------------------------------------------------------------------
(* Step 3: values.                                                         *)

InMm(b, v) == IF b.modal.units = "G20" THEN v * MmPerInch ELSE v

(* The feed rate of the block.  On the way from G93 back to G94 the F word *)
(* is taken as it stands.                                                  *)
Feed(gc, b) ==
  IF b.jog THEN InMm(b, b.value["F"])
  ELSE IF b.modal.feed_rate = "G93" \/ gc.modal.feed_rate = "G93" THEN b.value["F"]
  ELSE IF "F" \in b.words THEN InMm(b, b.value["F"]) ELSE gc.feed_rate

(* Another work coordinate system is selected: its offsets are read.       *)
SelectsOther(gc, b) ==
  "G12" \in b.groups /\ b.modal.coord_select # gc.modal.coord_select

Base(gc, b, stored) ==
  IF SelectsOther(gc, b) THEN stored[b.modal.coord_select] ELSE gc.coord_system

(* The record a non-modal command reads or writes.                         *)
Slot(b) ==
  CASE b.non_modal = "G10" ->
         IF b.value["P"] > 0 THEN b.value["P"] - 1 ELSE b.modal.coord_select
    [] b.non_modal \in {"G28", "G28.1"} -> G28Slot
    [] OTHER -> G30Slot

ReadsSlot(b) == b.non_modal \in {"G10", "G28", "G30"}
WritesSlot(b) == b.non_modal \in {"G10", "G28.1", "G30.1"}

(* The end of the move in machine coordinates.                             *)
Target_NoOffset(gc, b, base) ==
  [a \in Axes |->
     LET v == InMm(b, b.value[a]) IN
     IF AxisWords(b) = {} THEN 0
     ELSE IF a \notin b.words THEN gc.position[a]
     ELSE IF b.non_modal = "G53" THEN v
     ELSE IF b.modal.distance = "G90" THEN v + base[a]
     ELSE v + gc.position[a]]

Target(gc, b, base) ==
  [a \in Axes |->
     LET v == InMm(b, b.value[a]) IN
     IF AxisWords(b) = {} THEN 0
     ELSE IF a \notin b.words THEN gc.position[a]
     ELSE IF b.non_modal = "G53" THEN v
     ELSE IF b.modal.distance = "G90" THEN v + base[a] + gc.coord_offset[a]
     ELSE v + gc.position[a]]

(* G28 and G30: only the axes named in the line go home, all without one.  *)
HomeTarget(gc, b, stored) ==
  [a \in Axes |-> IF AxisWords(b) # {} /\ a \notin b.words
                    THEN gc.position[a] ELSE stored[Slot(b)][a]]

(* What G10 stores: L2 the values given, L20 what makes them the current   *)
(* position.                                                               *)
NewCoord(gc, b, stored) ==
  [a \in Axes |->
     LET v == InMm(b, b.value[a]) IN
     IF a \notin b.words THEN stored[Slot(b)][a]
     ELSE IF b.value["L"] = 20 THEN gc.position[a] - gc.coord_offset[a] - v
     ELSE v]

(* G92: the offset that makes the values the current position.             *)
NewOffset(gc, b, base) ==
  [a \in Axes |-> IF a \in b.words
                    THEN gc.position[a] - base[a] - InMm(b, b.value[a])
                    ELSE gc.coord_offset[a]]

-----------------------------------------------------------------------------
(* Step 3: error checks, in the order of the code: those before the first  *)
(* read of EEPROM, those of G10 and G92 before the second, and the rest.   *)

FeedMissing(b) ==
  /\ "F" \notin b.words
  /\ \/ b.jog
     \/ /\ b.modal.feed_rate = "G93" /\ b.axis_command = "motion"
        /\ b.modal.motion \notin {"G80", "G0"}

RefusedFirst(b) ==
  b.refused \/ FeedMissing(b) \/ (b.non_modal = "G4" /\ "P" \notin b.words)

RefusedNonModal(b) ==
  \/ b.non_modal \in {"G10", "G92"} /\ AxisWords(b) = {}
  \/ /\ b.non_modal = "G10"
     /\ \/ b.words \cap {"P", "L"} = {}
        \/ b.value["P"] > NCoord
        \/ b.value["L"] \notin {2, 20}
        \/ b.value["L"] = 2 /\ "R" \in b.words

(* The record whose read fails, if one does: it is reset and the line is   *)
(* refused.                                                                *)
TornRead(gc, b, stored) ==
  IF SelectsOther(gc, b) /\ stored[b.modal.coord_select] = Torn
    THEN {b.modal.coord_select}
  ELSE IF ~RefusedNonModal(b) /\ ReadsSlot(b) /\ stored[Slot(b)] = Torn
    THEN {Slot(b)} ELSE {}

SumOfSquares(v) == MapThenSumSet(LAMBDA a : v[a] * v[a], DOMAIN v)

(* An arc by radius needs one that reaches the target, an arc by offset a  *)
(* centre as far from the target as from the start.  Radii of up to 20     *)
(* whole millimetres that differ do so by more than the tolerance.         *)
RefusedArc(gc, b, target) ==
  LET chord == [a \in Plane |-> target[a] - gc.position[a]]
      center == [a \in Plane |-> InMm(b, b.value[Offset[a]])]
      r == InMm(b, b.value["R"])
  IN \/ AxisWords(b) \cap Plane = {}
     \/ IF "R" \in b.words
          THEN target = gc.position \/ 4 * r * r < SumOfSquares(chord)
          ELSE \/ b.words \cap {Offset[a] : a \in Plane} = {}
               \/ SumOfSquares(center) # SumOfSquares([a \in Plane |-> chord[a] - center[a]])

RefusedMotion(gc, b, target) ==
  IF b.modal.motion = "G80" THEN AxisWords(b) # {}
  ELSE /\ b.axis_command = "motion" /\ b.modal.motion # "G0"
       /\ \/ Feed(gc, b) = 0
          \/ b.modal.motion \in Arcs /\ RefusedArc(gc, b, target)
          \/ b.modal.motion \in Probes /\ (AxisWords(b) = {} \/ target = gc.position)

(* Every value word must have found a use.                                 *)
UsedWords(b) ==
  Axes \cup {"N", "F"}
    \cup (IF b.jog THEN {} ELSE {"S", "T"})
    \cup (IF b.non_modal = "G4" THEN {"P"} ELSE {})
    \cup (IF b.non_modal = "G10" THEN {"L", "P"} ELSE {})
    \cup (IF b.axis_command = "motion" /\ b.modal.motion \in Arcs
            THEN IF "R" \in b.words THEN {"R"} ELSE {"I", "J", "K"} ELSE {})

RefusedJog(b) ==
  b.jog /\ (~(b.groups \subseteq {"G0", "G3", "G6"}) \/ b.non_modal \notin {None, "G53"})

Refused(gc, b, stored) ==
  \/ RefusedFirst(b)
  \/ TornRead(gc, b, stored) # {}
  \/ RefusedNonModal(b)
  \/ b.non_modal = "G53" /\ b.modal.motion \notin {"G0", "G1"}
  \/ RefusedMotion(gc, b, Target(gc, b, Base(gc, b, stored)))
  \/ ~(b.words \subseteq UsedWords(b))
  \/ RefusedJog(b)

Repaired(gc, b, stored) == IF RefusedFirst(b) THEN {} ELSE TornRead(gc, b, stored)

=============================================================================
