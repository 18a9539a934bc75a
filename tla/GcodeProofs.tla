----------------------------- MODULE GcodeProofs ----------------------------
(***************************************************************************)
(* The parser's position is where the planner ends, its work offsets are   *)
(* those in EEPROM, and G28.1 stores a place that is reached: for all      *)
(* axes, travels, queue sizes and sets of lines.                           *)
(*                                                                         *)
(* A line is read into a block of the right type word by word (ParseReads, *)
(* by induction over the words), and a block that is accepted reads no     *)
(* torn record (AcceptedBase, AcceptedRecord).  From then on the line's    *)
(* last move ends where the parser will take the tool to be, and the       *)
(* planner gets there move by move (Position); the record still to be      *)
(* written is the selected one exactly if the offsets in use are to follow *)
(* it (Offsets); and no jog is under way while a line waits, so that the   *)
(* parser's position does not change under it (JobOK, Homes).              *)
(*                                                                         *)
(* A line that sets or goes to a work position ends there: read again from *)
(* the modes it leaves it is the same block (ParseAgain), and the position *)
(* and offsets it is going to are right from its acceptance on (Commanded).*)
(***************************************************************************)
EXTENDS Gcode, WellFoundedInduction, FiniteSetTheorems, TLAPS

(* Induction over the natural numbers, for a set in place of a predicate.  *)
LEMMA Induction ==
  ASSUME NEW T, 0 \in T, \A i \in Nat : i \in T => i + 1 \in T
  PROVE  Nat \subseteq T
<1> DEFINE Less == {ss \in Nat \X Nat : ss[1] < ss[2]}
<1>1. SUFFICES ASSUME Nat \ T # {} PROVE FALSE
  OBVIOUS
<1>2. IsWellFoundedOn(Less, Nat)
  BY NatLessThanWellFounded DEF OpToRel
<1>3. PICK x \in Nat \ T : \A y \in Nat \ T : ~ (<<y, x>> \in Less)
  <2> HIDE DEF Less
  <2> QED BY <1>1, <1>2, WFMin
<1>4. x # 0 /\ x - 1 \in Nat /\ x - 1 \notin T
  BY <1>3
<1>5. <<x - 1, x>> \in Less
  BY <1>4
<1> QED
  BY <1>3, <1>4, <1>5

(* A function may be defined by recursion: the values up to any number.    *)
Steps(V) == [Nat -> [V -> V]]
Follows(f, V, first, next, m) ==
  /\ f \in [0 .. m -> V]
  /\ \A i \in 0 .. m : f[i] = IF i = 0 THEN first ELSE next[i][f[i - 1]]
(* A function that is defined by recursion exists: step by step.           *)
LEMMA Recursion ==
  ASSUME NEW V, NEW first \in V, NEW next \in Steps(V), NEW m \in Nat
  PROVE  \E f : Follows(f, V, first, next, m)
<1> DEFINE Upto(k) == \E f \in [0 .. k -> V] :
              \A i \in 0 .. k : f[i] = IF i = 0 THEN first ELSE next[i][f[i - 1]]
           T == {k \in Nat : Upto(k)}
<1>1. 0 \in T
  <2> DEFINE f == [i \in 0 .. 0 |-> first]
  <2>1. f \in [0 .. 0 -> V] /\ \A i \in 0 .. 0 : i = 0 /\ f[i] = first
    OBVIOUS
  <2>2. Upto(0)
    <3> HIDE DEF f
    <3> QED BY <2>1
  <2> QED BY <2>2
<1>2. ASSUME NEW k \in Nat, k \in T PROVE k + 1 \in T
  <2>1. PICK f \in [0 .. k -> V] :
          \A i \in 0 .. k : f[i] = IF i = 0 THEN first ELSE next[i][f[i - 1]]
    BY <1>2
  <2> DEFINE g == [i \in 0 .. k + 1 |-> IF i = k + 1 THEN next[k + 1][f[k]] ELSE f[i]]
  <2>2. next[k + 1][f[k]] \in V
    BY <2>1 DEF Steps
  <2>3. g \in [0 .. k + 1 -> V]
    BY <2>1, <2>2
  <2>4. \A i \in 0 .. k + 1 : g[i] = IF i = 0 THEN first ELSE next[i][g[i - 1]]
    <3> TAKE i \in 0 .. k + 1
    <3>1. CASE i = k + 1
      BY <3>1
    <3>2. CASE i # k + 1
      <4>1. i \in 0 .. k /\ g[i] = f[i] /\ (i # 0 => g[i - 1] = f[i - 1])
        BY <3>2
      <4> QED BY <2>1, <4>1
    <3> QED BY <3>1, <3>2
  <2>5. Upto(k + 1)
    <3> HIDE DEF g
    <3> QED BY <2>3, <2>4
  <2> QED
    BY <2>5
<1>3. Nat \subseteq T
  <2> HIDE DEF T
  <2> QED BY <1>1, <1>2, Induction
<1> QED
  BY <1>3 DEF Follows

-----------------------------------------------------------------------------
(* Reading a line.                                                         *)

Modes == [motion : Motions \cup {"G80"}, feed_rate : {"G93", "G94"}, units : {"G20", "G21"},
          distance : {"G90", "G91"}, coord_select : 0 .. NCoord - 1]

GcState == [modal : Modes, feed_rate : Int, position : Vector,
            coord_system : Vector, coord_offset : Vector]

Groups == {"G0", "G1", "G2", "G3", "G4", "G5", "G6", "G7", "G12", "G13", "M4", "M7", "M8", None}

BlockType == [jog : BOOLEAN, refused : BOOLEAN, groups : SUBSET Groups, words : SUBSET STRING,
              non_modal : NonModal \cup {None}, axis_command : {"motion", "non_modal", None},
              modal : Modes, value : [Letters -> Int]]

(* The blocks a line can be read into: a work coordinate system other than *)
(* the parser's is selected by a word only.                                *)
Readings(g, jog) ==
  {b \in BlockType : /\ b.jog = jog
                     /\ b.modal.coord_select = g.modal.coord_select \/ "G12" \in b.groups}

(* A block starts from the parser's modes.                                 *)
LEMMA FreshReading ==
  ASSUME NEW g \in GcState, NEW jog \in BOOLEAN
  PROVE  FreshBlock(g, jog) \in Readings(g, jog)
<1>1. g.modal \in Modes
  BY DEF GcState
<1>2. [g.modal EXCEPT !.motion = "G1", !.feed_rate = "G94"] \in Modes
  BY <1>1 DEF Modes, Motions
<1>3. [g.modal EXCEPT !.motion = "G1", !.feed_rate = "G94"].coord_select = g.modal.coord_select
  BY <1>1 DEF Modes
<1>4. [l \in Letters |-> 0] \in [Letters -> Int]
  OBVIOUS
<1> QED
  BY <1>1, <1>2, <1>3, <1>4 DEF FreshBlock, Readings, BlockType, None

(* Only a word of its group selects a work coordinate system.              *)
LEMMA SetModeType ==
  ASSUME NEW m \in Modes, NEW c \in STRING
  PROVE  /\ SetMode(m, c) \in Modes
         /\ SetMode(m, c).coord_select = m.coord_select \/ ModalGroup(c) = "G12"
<1>1. CASE ModalGroup(c) \in {"G1", "G3", "G5", "G6"}
  <2>1. /\ ModalGroup(c) = "G1" => c \in Motions \cup {"G80"}
        /\ ModalGroup(c) = "G3" => c \in {"G90", "G91"}
        /\ ModalGroup(c) = "G5" => c \in {"G93", "G94"}
        /\ ModalGroup(c) = "G6" => c \in {"G20", "G21"}
    BY DEF ModalGroup, None
  <2> QED
    BY <1>1, <2>1 DEF SetMode, Modes
<1>2. CASE ModalGroup(c) = "G12"
  <2>1. c \in ToSet(CoordWords)
    BY <1>2 DEF ModalGroup, None
  <2>2. \E i \in 0 .. NCoord - 1 : CoordWords[i + 1] = c
    <3>1. NCoord \in 1 .. 6
      BY GcodeAssumption
    <3>2. DOMAIN CoordWords = 1 .. NCoord
      BY <3>1 DEF CoordWords
    <3>3. PICK i \in 1 .. NCoord : CoordWords[i] = c
      BY <2>1, <3>2 DEF ToSet
    <3>4. i - 1 \in 0 .. NCoord - 1 /\ (i - 1) + 1 = i
      BY <3>1
    <3> QED BY <3>3, <3>4
  <2>3. (CHOOSE i \in 0 .. NCoord - 1 : CoordWords[i + 1] = c) \in 0 .. NCoord - 1
    BY <2>2
  <2> DEFINE i == CHOOSE i \in 0 .. NCoord - 1 : CoordWords[i + 1] = c
  <2>4. SetMode(m, c) = [m EXCEPT !.coord_select = i]
    BY <1>2 DEF SetMode
  <2> HIDE DEF i
  <2> QED
    BY <1>2, <2>3, <2>4 DEF Modes, i
<1>3. CASE ModalGroup(c) \notin {"G1", "G3", "G5", "G6", "G12"}
  BY <1>3 DEF SetMode
<1> QED
  BY <1>1, <1>2, <1>3

(* Every command has a group, or none.                                     *)
LEMMA GroupType ==
  ASSUME NEW c
  PROVE  ModalGroup(c) \in Groups /\ (ModalGroup(c) = "G0" => c \in NonModal)
<1>1. ModalGroup(c) \in Groups
  BY DEF ModalGroup, Groups
<1>2. ModalGroup(c) = "G0" => c \in NonModal
  BY DEF ModalGroup, None
<1> QED
  BY <1>1, <1>2

(* A command changes the modes and the groups.                             *)
LEMMA ReadCommandType ==
  ASSUME NEW g, NEW jog, NEW b \in Readings(g, jog), NEW c \in STRING
  PROVE  ReadCommand(b, c) \in Readings(g, jog)
<1> DEFINE r == ReadCommand(b, c)
           n == SetMode(b.modal, c)
           group == ModalGroup(c)
<1>1. b \in BlockType /\ b.modal \in Modes
  BY DEF Readings, BlockType
<1>2. n \in Modes /\ (n.coord_select = b.modal.coord_select \/ group = "G12")
  BY <1>1, SetModeType
<1>3. /\ group \in Groups /\ AxisCommandOf(c) \in {"motion", "non_modal", None}
      /\ (IF group = "G0" THEN c ELSE b.non_modal) \in NonModal \cup {None}
  BY <1>1, GroupType DEF AxisCommandOf, BlockType
<1>4. /\ r.jog = b.jog /\ r.modal = n /\ r.groups = b.groups \cup {group}
  BY <1>1 DEF ReadCommand, BlockType
<1>5. r \in BlockType
  <2> HIDE DEF n, group
  <2>1. /\ b.groups \cup {group} \in SUBSET Groups
    BY <1>1, <1>3 DEF BlockType
  <2> QED
    BY <1>1, <1>2, <1>3, <2>1 DEF ReadCommand, BlockType, n, group
<1> HIDE DEF r, n, group
<1>6. r.modal.coord_select = g.modal.coord_select \/ "G12" \in r.groups
  BY <1>2, <1>4 DEF Readings
<1>7. r.jog = jog
  BY <1>4 DEF Readings
<1>8. r \in Readings(g, jog)
  BY <1>5, <1>6, <1>7 DEF Readings
<1> QED
  BY <1>8 DEF r

(* A value word changes the values only.                                   *)
LEMMA ReadValueType ==
  ASSUME NEW g, NEW jog, NEW b \in Readings(g, jog), NEW letter \in STRING, NEW v \in Int
  PROVE  ReadValue(b, letter, v) \in Readings(g, jog)
<1> DEFINE r == ReadValue(b, letter, v)
           values == IF letter \in Letters THEN [b.value EXCEPT ![letter] = v] ELSE b.value
<1>1. b \in BlockType /\ b.value \in [Letters -> Int]
  BY DEF Readings, BlockType
<1>2. values \in [Letters -> Int]
  BY <1>1
<1>3. b.words \cup {letter} \in SUBSET STRING
  BY <1>1 DEF BlockType
<1>4. r.jog = b.jog /\ r.modal = b.modal /\ r.groups = b.groups
  BY <1>1 DEF ReadValue, BlockType
<1>5. r \in BlockType
  BY <1>1, <1>2, <1>3 DEF ReadValue, BlockType
<1> HIDE DEF r, values
<1>6. r \in Readings(g, jog)
  BY <1>4, <1>5 DEF Readings
<1> QED
  BY <1>6 DEF r

(* Either leaves a block of the same kind.                                 *)
LEMMA ReadWordType ==
  ASSUME NEW g, NEW jog, NEW b \in Readings(g, jog), NEW w \in Word
  PROVE  ReadWord(b, w) \in Readings(g, jog)
<1>1. CASE w \in [1 .. 1 -> STRING]
  <2>1. Len(w) = 1 /\ w[1] \in STRING
    BY <1>1
  <2> QED
    BY <2>1, ReadCommandType DEF ReadWord
<1>2. CASE w \in STRING \X Int
  <2>1. Len(w) = 2 /\ w[1] \in STRING /\ w[2] \in Int
    BY <1>2
  <2>2. ReadValue(b, w[1], w[2]) \in Readings(g, jog)
    BY <2>1, ReadValueType
  <2> QED
    BY <2>1, <2>2 DEF ReadWord
<1> QED
  BY <1>1, <1>2 DEF Word

(* The blocks a line leaves word by word, and what Parse makes of the last.*)
Closed(b) == IF AxisWords(b) # {} /\ b.axis_command = None
               THEN [b EXCEPT !.axis_command = "motion"] ELSE b

Reads(f, g, line) ==
  /\ f \in [0 .. Len(line.words) -> Readings(g, line.jog)]
  /\ f[0] = FreshBlock(g, line.jog)
  /\ \A i \in 1 .. Len(line.words) : f[i] = ReadWord(f[i - 1], line.words[i])
  /\ Parse(g, line) = Closed(f[Len(line.words)])

(* A line is read into blocks of the right type, word by word.             *)
LEMMA ParseSteps ==
  ASSUME NEW g \in GcState, NEW line \in [jog : BOOLEAN, words : Seq(Word)]
  PROVE  \E f : Reads(f, g, line)
<1> DEFINE n == Len(line.words)
           V == Readings(g, line.jog)
           fresh == FreshBlock(g, line.jog)
           Is(f) == f = [i \in 0 .. Len(line.words) |->
                           IF i = 0 THEN FreshBlock(g, line.jog) ELSE ReadWord(f[i - 1], line.words[i])]
           step == [i \in Nat |-> [v \in V |-> IF i \in 1 .. n THEN ReadWord(v, line.words[i]) ELSE v]]
           block == CHOOSE f : Is(f)
           last == block[n]
<1>1. n \in Nat /\ \A i \in 1 .. n : line.words[i] \in Word
  OBVIOUS
<1>2. step \in Steps(V)
  <2>1. \A i \in 1 .. n, v \in V : ReadWord(v, line.words[i]) \in V
    BY <1>1, ReadWordType
  <2> HIDE DEF V
  <2> QED BY <2>1 DEF Steps
<1>3. fresh \in V
  BY FreshReading
<1>4. PICK f : Follows(f, V, fresh, step, n)
  <2> HIDE DEF step, V, fresh, n
  <2> QED BY <1>1, <1>2, <1>3, Recursion
<1>5. \A i \in 0 .. n : f[i] = IF i = 0 THEN fresh ELSE ReadWord(f[i - 1], line.words[i])
  <2> TAKE i \in 0 .. n
  <2>1. i # 0 => i \in 1 .. n /\ i \in Nat /\ f[i - 1] \in V
    <3> HIDE DEF step, V, fresh
    <3> QED BY <1>1, <1>4 DEF Follows
  <2> HIDE DEF V, fresh, n
  <2> QED BY <1>4, <2>1 DEF Follows
<1>6. Is(f)
  <2> HIDE DEF V
  <2> QED BY <1>4, <1>5 DEF Follows
<1>7. Is(block)
  <2> HIDE DEF Is
  <2> QED BY <1>6
<1>8. \A i \in 0 .. n : block[i] = IF i = 0 THEN fresh ELSE ReadWord(block[i - 1], line.words[i])
  <2> HIDE DEF block
  <2> QED BY <1>7
<1>9. \A i \in 0 .. n : block[i] \in V
  <2> DEFINE T == {i \in Nat : i \in 0 .. n => block[i] \in V}
  <2> HIDE DEF block, V, fresh, n
  <2>1. 0 \in T
    BY <1>3, <1>8
  <2>2. ASSUME NEW i \in Nat, i \in T PROVE i + 1 \in T
    <3> SUFFICES ASSUME i + 1 \in 0 .. n PROVE block[i + 1] \in V
      OBVIOUS
    <3>1. i \in 0 .. n /\ i + 1 \in 1 .. n /\ i + 1 # 0 /\ (i + 1) - 1 = i
      BY <1>1
    <3>2. block[i] \in V /\ block[i + 1] = ReadWord(block[i], line.words[i + 1])
      BY <1>8, <2>2, <3>1
    <3>3. line.words[i + 1] \in Word
      BY <1>1, <3>1
    <3> QED
      BY <3>2, <3>3, ReadWordType DEF V
  <2>3. Nat \subseteq T
    <3> HIDE DEF T
    <3> QED BY <2>1, <2>2, Induction
  <2> QED BY <2>3
<1>10. last \in V
  <2> HIDE DEF block, V
  <2> QED BY <1>1, <1>9
<1>11. Parse(g, line) = Closed(last)
  BY DEF Parse, Closed
<1>12. block[0] = fresh /\ \A i \in 1 .. n : block[i] = ReadWord(block[i - 1], line.words[i])
  <2> HIDE DEF block, fresh, n
  <2>1. 0 \in 0 .. n /\ \A i \in 1 .. n : i \in 0 .. n /\ i # 0
    BY <1>1
  <2> QED BY <1>8, <2>1
<1>13. block \in [0 .. n -> V]
  <2>1. DOMAIN block = 0 .. n /\ block = [i \in DOMAIN block |-> block[i]]
    <3> HIDE DEF block
    <3> QED BY <1>7
  <2> HIDE DEF block, V, n
  <2> QED BY <1>9, <2>1
<1>14. Reads(block, g, line)
  <2> HIDE DEF block
  <2> QED BY <1>11, <1>12, <1>13 DEF Reads
<1> QED
  BY <1>14

(* So is the block the line is read into.                                  *)
LEMMA ParseReads ==
  ASSUME NEW g \in GcState, NEW line \in [jog : BOOLEAN, words : Seq(Word)]
  PROVE  Parse(g, line) \in Readings(g, line.jog)
<1>1. PICK f : Reads(f, g, line)
  BY ParseSteps
<1> DEFINE last == f[Len(line.words)]
<1>2. last \in Readings(g, line.jog) /\ Parse(g, line) = Closed(last)
  BY <1>1 DEF Reads
<1> HIDE DEF last
<1>3. [last EXCEPT !.axis_command = "motion"] \in Readings(g, line.jog)
  BY <1>2 DEF Readings, BlockType
<1> QED
  BY <1>2, <1>3 DEF Closed

(* What holds of the fresh block and survives every word holds of the last:*)
(* induction over the words of a line.                                     *)
LEMMA WordInduction ==
  ASSUME NEW n \in Nat, NEW T, 0 \in T, \A i \in 1 .. n : i - 1 \in T => i \in T
  PROVE  n \in T
<1> DEFINE U == {i \in Nat : i \in 0 .. n => i \in T}
<1>1. 0 \in U
  OBVIOUS
<1>2. ASSUME NEW i \in Nat, i \in U PROVE i + 1 \in U
  <2> SUFFICES ASSUME i + 1 \in 0 .. n PROVE i + 1 \in T
    OBVIOUS
  <2>1. i + 1 \in 1 .. n /\ (i + 1) - 1 = i /\ i \in 0 .. n
    OBVIOUS
  <2> QED BY <1>2, <2>1
<1>3. Nat \subseteq U
  <2> HIDE DEF U
  <2> QED BY <1>1, <1>2, Induction
<1> QED
  BY <1>3

(* A command that uses the axis words and is not a motion excludes one.    *)
NoMotion(b) == ~b.refused /\ b.non_modal \in AxisNonModal => b.axis_command = "non_modal"

(* A word keeps it so.                                                     *)
LEMMA ReadWordNoMotion ==
  ASSUME NEW g, NEW jog, NEW b \in Readings(g, jog), NEW w \in Word, NoMotion(b)
  PROVE  NoMotion(ReadWord(b, w))
<1> DEFINE r == ReadWord(b, w)
<1>0. b \in BlockType
  BY DEF Readings
<1>1. CASE b.refused
  BY <1>1 DEF ReadWord, NoMotion
<1>2. CASE ~b.refused /\ Len(w) = 1
  <2> DEFINE c == w[1]
             axis == AxisCommandOf(c)
             group == ModalGroup(c)
  <2>1. r = ReadCommand(b, c)
    BY <1>2 DEF ReadWord
  <2> HIDE DEF r, c
  <2>2. /\ r.refused <=> \/ group = None
                         \/ group \in b.groups
                         \/ axis # None /\ b.axis_command # None
        /\ r.axis_command = (IF axis = None THEN b.axis_command ELSE axis)
        /\ r.non_modal = (IF group = "G0" THEN c ELSE b.non_modal)
    BY <1>0, <2>1 DEF ReadCommand, BlockType
  <2>3. group = "G0" /\ c \in AxisNonModal => axis = "non_modal"
    BY DEF AxisCommandOf
  <2>4. axis # None /\ ~r.refused => b.axis_command = None
    BY <2>2
  <2>5. b.non_modal \in AxisNonModal => b.axis_command = "non_modal"
    BY <1>2 DEF NoMotion
  <2> HIDE DEF axis, group
  <2>6. NoMotion(r)
    <3> SUFFICES ASSUME ~r.refused, r.non_modal \in AxisNonModal PROVE r.axis_command = "non_modal"
      BY DEF NoMotion
    <3>1. CASE group = "G0"
      BY <2>2, <2>3, <3>1 DEF None
    <3>2. CASE group # "G0"
      BY <2>2, <2>4, <2>5, <3>2 DEF None
    <3> QED BY <3>1, <3>2
  <2> QED BY <2>6 DEF r
<1>3. CASE ~b.refused /\ Len(w) # 1
  <2>1. r = ReadValue(b, w[1], w[2])
    BY <1>3 DEF ReadWord
  <2>2. r.axis_command = b.axis_command /\ r.non_modal = b.non_modal
    BY <1>0, <2>1 DEF ReadValue, BlockType
  <2> HIDE DEF r
  <2>3. NoMotion(r)
    BY <1>3, <2>2 DEF NoMotion
  <2> QED BY <2>3 DEF r
<1> QED
  BY <1>1, <1>2, <1>3

(* So it is in the block of a line.                                        *)
LEMMA ParseNoMotion ==
  ASSUME NEW g \in GcState, NEW line \in [jog : BOOLEAN, words : Seq(Word)]
  PROVE  NoMotion(Parse(g, line))
<1>1. PICK f : Reads(f, g, line)
  BY ParseSteps
<1> DEFINE n == Len(line.words)
           T == {i \in 0 .. n : NoMotion(f[i])}
<1>2. n \in Nat /\ \A i \in 1 .. n : line.words[i] \in Word /\ i - 1 \in 0 .. n /\ i \in 0 .. n
  OBVIOUS
<1>3. /\ \A i \in 0 .. n : f[i] \in Readings(g, line.jog)
      /\ f[0] = FreshBlock(g, line.jog)
      /\ \A i \in 1 .. n : f[i] = ReadWord(f[i - 1], line.words[i])
      /\ Parse(g, line) = Closed(f[n])
  BY <1>1 DEF Reads
<1> HIDE DEF n
<1>4. 0 \in T
  <2>1. NoMotion(FreshBlock(g, line.jog))
    BY DEF NoMotion, FreshBlock, AxisNonModal, None
  <2> QED BY <1>2, <1>3, <2>1
<1>5. ASSUME NEW i \in 1 .. n, i - 1 \in T PROVE i \in T
  BY <1>2, <1>3, <1>5, ReadWordNoMotion
<1>6. n \in T
  <2> HIDE DEF T
  <2> QED BY <1>2, <1>4, <1>5, WordInduction
<1> DEFINE last == f[n]
<1>7. last \in BlockType /\ NoMotion(last) /\ Parse(g, line) = Closed(last)
  BY <1>2, <1>3, <1>6 DEF Readings
<1> HIDE DEF last
<1>8. CASE AxisWords(last) # {} /\ last.axis_command = None
  <2>1. /\ Closed(last).refused = last.refused /\ Closed(last).non_modal = last.non_modal
        /\ ~(~last.refused /\ last.non_modal \in AxisNonModal)
    BY <1>7, <1>8 DEF Closed, BlockType, NoMotion, None
  <2> QED BY <1>7, <2>1 DEF NoMotion
<1>9. CASE ~(AxisWords(last) # {} /\ last.axis_command = None)
  BY <1>7, <1>9 DEF Closed
<1> QED
  BY <1>8, <1>9

(* Two readings of a line, from the modes m0 and m1, that differ in modes  *)
(* no word has set.                                                        *)
EchoesModes(m, n, m0, m1) ==
  /\ m.motion = n.motion \/ (m.motion = m0.motion /\ n.motion = m1.motion)
  /\ m.feed_rate = n.feed_rate \/ (m.feed_rate = m0.feed_rate /\ n.feed_rate = m1.feed_rate)
  /\ m.units = n.units \/ (m.units = m0.units /\ n.units = m1.units)
  /\ m.distance = n.distance \/ (m.distance = m0.distance /\ n.distance = m1.distance)
  /\ m.coord_select = n.coord_select
     \/ (m.coord_select = m0.coord_select /\ n.coord_select = m1.coord_select)

Echoes(b, c, m0, m1) ==
  /\ b.jog = c.jog /\ b.refused = c.refused /\ b.groups = c.groups /\ b.words = c.words
  /\ b.non_modal = c.non_modal /\ b.axis_command = c.axis_command /\ b.value = c.value
  /\ EchoesModes(b.modal, c.modal, m0, m1)

(* A command sets the same mode in both.                                   *)
LEMMA SetModeEchoes ==
  ASSUME NEW m \in Modes, NEW n \in Modes, NEW m0, NEW m1, EchoesModes(m, n, m0, m1), NEW c
  PROVE  EchoesModes(SetMode(m, c), SetMode(n, c), m0, m1)
<1> USE DEF EchoesModes
<1>1. CASE ModalGroup(c) = "G1"
  BY <1>1 DEF SetMode, Modes
<1>2. CASE ModalGroup(c) = "G3"
  BY <1>2 DEF SetMode, Modes
<1>3. CASE ModalGroup(c) = "G5"
  BY <1>3 DEF SetMode, Modes
<1>4. CASE ModalGroup(c) = "G6"
  BY <1>4 DEF SetMode, Modes
<1>5. CASE ModalGroup(c) = "G12"
  <2> DEFINE i == CHOOSE i \in 0 .. NCoord - 1 : CoordWords[i + 1] = c
  <2>1. SetMode(m, c) = [m EXCEPT !.coord_select = i] /\ SetMode(n, c) = [n EXCEPT !.coord_select = i]
    BY <1>5 DEF SetMode
  <2> HIDE DEF i
  <2> QED BY <2>1 DEF Modes
<1>6. CASE ModalGroup(c) \notin {"G1", "G3", "G5", "G6", "G12"}
  BY <1>6 DEF SetMode
<1> QED
  BY <1>1, <1>2, <1>3, <1>4, <1>5, <1>6

(* What is wrong with a word does not depend on the modes.                 *)
CommandRefused(b, c) ==
  \/ ModalGroup(c) = None
  \/ ModalGroup(c) \in b.groups
  \/ AxisCommandOf(c) # None /\ b.axis_command # None

ValueRefused(b, letter, v) ==
  \/ letter \notin Letters
  \/ letter \in b.words
  \/ letter \in NeverNegative /\ v < 0

(* A word keeps the two readings so.                                       *)
LEMMA ReadWordEchoes ==
  ASSUME NEW b \in BlockType, NEW c \in BlockType, NEW m0, NEW m1, Echoes(b, c, m0, m1), NEW w
  PROVE  Echoes(ReadWord(b, w), ReadWord(c, w), m0, m1)
<1> DEFINE r == ReadWord(b, w)
           s == ReadWord(c, w)
<1>0. /\ b.jog = c.jog /\ b.groups = c.groups /\ b.words = c.words /\ b.value = c.value
      /\ b.non_modal = c.non_modal /\ b.axis_command = c.axis_command
  BY DEF Echoes
<1>1. CASE b.refused
  BY <1>1 DEF ReadWord, Echoes
<1>2. CASE ~b.refused /\ Len(w) = 1
  <2>1. r = ReadCommand(b, w[1]) /\ s = ReadCommand(c, w[1])
    BY <1>2 DEF ReadWord, Echoes
  <2> HIDE DEF r, s
  <2>2. ASSUME NEW x \in BlockType, NEW y, y = ReadCommand(x, w[1])
        PROVE  /\ y.jog = x.jog /\ y.words = x.words /\ y.value = x.value
               /\ y.groups = x.groups \cup {ModalGroup(w[1])}
               /\ y.refused = CommandRefused(x, w[1])
               /\ y.axis_command = (IF AxisCommandOf(w[1]) = None THEN x.axis_command
                                    ELSE AxisCommandOf(w[1]))
               /\ y.non_modal = (IF ModalGroup(w[1]) = "G0" THEN w[1] ELSE x.non_modal)
               /\ y.modal = SetMode(x.modal, w[1])
    BY <2>2 DEF ReadCommand, CommandRefused, BlockType
  <2>3. EchoesModes(r.modal, s.modal, m0, m1)
    <3>1. r.modal = SetMode(b.modal, w[1]) /\ s.modal = SetMode(c.modal, w[1])
      BY <2>1, <2>2
    <3>2. b.modal \in Modes /\ c.modal \in Modes /\ EchoesModes(b.modal, c.modal, m0, m1)
      BY DEF BlockType, Echoes
    <3> QED BY <3>1, <3>2, SetModeEchoes
  <2>4. CommandRefused(b, w[1]) = CommandRefused(c, w[1])
    BY DEF CommandRefused, Echoes
  <2>5. r.refused = CommandRefused(b, w[1]) /\ s.refused = CommandRefused(c, w[1])
    BY <2>1, <2>2
  <2>6. r.refused = s.refused
    BY ONLY <2>4, <2>5
  <2>7. r.jog = s.jog
    <3>1. r.jog = b.jog /\ s.jog = c.jog
      BY <2>1, <2>2
    <3> QED BY ONLY <1>0, <3>1
  <2>8. r.groups = s.groups /\ r.words = s.words /\ r.value = s.value
    <3>1. /\ r.groups = b.groups \cup {ModalGroup(w[1])} /\ s.groups = c.groups \cup {ModalGroup(w[1])}
          /\ r.words = b.words /\ s.words = c.words /\ r.value = b.value /\ s.value = c.value
      BY <2>1, <2>2
    <3> QED BY ONLY <1>0, <3>1
  <2>9. r.non_modal = s.non_modal /\ r.axis_command = s.axis_command
    BY <1>0, <2>1, <2>2
  <2>10. Echoes(r, s, m0, m1)
    BY <2>3, <2>6, <2>7, <2>8, <2>9 DEF Echoes
  <2> QED BY <2>10 DEF r, s
<1>3. CASE ~b.refused /\ Len(w) # 1
  <2>1. r = ReadValue(b, w[1], w[2]) /\ s = ReadValue(c, w[1], w[2])
    BY <1>3 DEF ReadWord, Echoes
  <2> HIDE DEF r, s
  <2>2. ASSUME NEW x \in BlockType, NEW y, y = ReadValue(x, w[1], w[2])
        PROVE  /\ y.jog = x.jog /\ y.groups = x.groups /\ y.non_modal = x.non_modal
               /\ y.axis_command = x.axis_command /\ y.modal = x.modal
               /\ y.words = x.words \cup {w[1]}
               /\ y.refused = ValueRefused(x, w[1], w[2])
               /\ y.value = (IF w[1] \in Letters THEN [x.value EXCEPT ![w[1]] = w[2]] ELSE x.value)
    BY <2>2 DEF ReadValue, ValueRefused, BlockType
  <2>3. ValueRefused(b, w[1], w[2]) = ValueRefused(c, w[1], w[2])
    BY DEF ValueRefused, Echoes
  <2>4. r.refused = ValueRefused(b, w[1], w[2]) /\ s.refused = ValueRefused(c, w[1], w[2])
    BY <2>1, <2>2
  <2>5. r.refused = s.refused
    BY ONLY <2>3, <2>4
  <2>6. r.jog = s.jog
    <3>1. r.jog = b.jog /\ s.jog = c.jog
      BY <2>1, <2>2
    <3> QED BY ONLY <1>0, <3>1
  <2>7. r.groups = s.groups /\ r.words = s.words /\ r.value = s.value
    <3>1. /\ r.groups = b.groups /\ s.groups = c.groups
          /\ r.words = b.words \cup {w[1]} /\ s.words = c.words \cup {w[1]}
      BY <2>1, <2>2
    <3>2. /\ r.value = IF w[1] \in Letters THEN [b.value EXCEPT ![w[1]] = w[2]] ELSE b.value
          /\ s.value = IF w[1] \in Letters THEN [c.value EXCEPT ![w[1]] = w[2]] ELSE c.value
      BY <2>1, <2>2
    <3> QED BY ONLY <1>0, <3>1, <3>2
  <2>8. /\ r.non_modal = s.non_modal /\ r.axis_command = s.axis_command
        /\ r.modal = b.modal /\ s.modal = c.modal
    BY <1>0, <2>1, <2>2
  <2>9. Echoes(r, s, m0, m1)
    BY <2>5, <2>6, <2>7, <2>8 DEF Echoes
  <2> QED BY <2>9 DEF r, s
<1> QED
  BY <1>1, <1>2, <1>3

(* The block a line of g-code is read into is the one it is read into from *)
(* the modes that it leaves.                                               *)
LEMMA ParseAgain ==
  ASSUME NEW g \in GcState, NEW h \in GcState,
         NEW line \in [jog : BOOLEAN, words : Seq(Word)], ~line.jog,
         h.modal = Parse(g, line).modal
  PROVE  Parse(h, line) = Parse(g, line)
<1>1. PICK f : Reads(f, g, line)
  BY ParseSteps
<1>2. PICK e : Reads(e, h, line)
  BY ParseSteps
<1> DEFINE n == Len(line.words)
           T == {i \in 0 .. n : Echoes(f[i], e[i], g.modal, h.modal)}
<1>3. n \in Nat /\ \A i \in 1 .. n : i - 1 \in 0 .. n /\ i \in 0 .. n
  OBVIOUS
<1>4. /\ \A i \in 0 .. n : f[i] \in BlockType
      /\ f[0] = FreshBlock(g, line.jog) /\ Parse(g, line) = Closed(f[n])
      /\ \A i \in 1 .. n : f[i] = ReadWord(f[i - 1], line.words[i])
  BY <1>1 DEF Reads, Readings
<1>5. /\ \A i \in 0 .. n : e[i] \in BlockType
      /\ e[0] = FreshBlock(h, line.jog) /\ Parse(h, line) = Closed(e[n])
      /\ \A i \in 1 .. n : e[i] = ReadWord(e[i - 1], line.words[i])
  BY <1>2 DEF Reads, Readings
<1> HIDE DEF n
<1>6. 0 \in T
  <2>1. Echoes(FreshBlock(g, line.jog), FreshBlock(h, line.jog), g.modal, h.modal)
    BY DEF Echoes, EchoesModes, FreshBlock
  <2> QED BY <1>3, <1>4, <1>5, <2>1
<1>7. ASSUME NEW i \in 1 .. n, i - 1 \in T PROVE i \in T
  BY <1>3, <1>4, <1>5, <1>7, ReadWordEchoes
<1>8. n \in T
  <2> HIDE DEF T
  <2> QED BY <1>3, <1>6, <1>7, WordInduction
<1> DEFINE x == f[n]
           y == e[n]
<1>9. x \in BlockType /\ y \in BlockType /\ Echoes(x, y, g.modal, h.modal)
  BY <1>3, <1>4, <1>5, <1>8
<1>10. Parse(g, line) = Closed(x) /\ Parse(h, line) = Closed(y)
  BY <1>4, <1>5
<1> HIDE DEF x, y
<1>11. Closed(x).modal = x.modal
  BY <1>9 DEF Closed, BlockType
<1>12. x.modal = y.modal
  <2>1. x.modal \in Modes /\ y.modal \in Modes /\ EchoesModes(x.modal, y.modal, g.modal, x.modal)
    BY <1>9, <1>10, <1>11 DEF BlockType, Echoes
  <2> QED BY <2>1 DEF EchoesModes, Modes
<1>13. x = y
  BY <1>9, <1>12 DEF Echoes, BlockType
<1> QED
  BY <1>10, <1>13

-----------------------------------------------------------------------------
(* The values of an accepted block.                                        *)

Records == [Slots -> Vector \cup {Torn}]

(* The constants of this firmware.                                         *)
LEMMA Constants == /\ NCoord \in Nat \ {0} /\ G28Slot = NCoord /\ G30Slot = NCoord + 1
                   /\ Slots = 0 .. NCoord + 1 /\ 0 .. NCoord - 1 \subseteq Slots
                   /\ G28Slot \in Slots /\ G30Slot \in Slots /\ 0 \in Slots
                   /\ Axes \subseteq Letters /\ Axes # {} /\ Zero \in Vector
BY GcodeAssumption DEF G28Slot, G30Slot, Slots, Letters, Zero, Vector

(* A torn record has no coordinates.                                       *)
LEMMA TornIsNone == Torn \notin Vector
<1>1. \A v \in Vector : DOMAIN v = Axes
  BY DEF Vector
<1>2. DOMAIN Torn = {}
  BY DEF Torn
<1> QED
  BY <1>1, <1>2, Constants

(* Values, feed rates, targets and offsets are whole numbers.              *)
LEMMA InMmType ==
  ASSUME NEW b \in BlockType, NEW v \in Int
  PROVE  InMm(b, v) \in Int
<1>1. v * MmPerInch \in Int
  BY GcodeAssumption
<1> QED
  BY <1>1 DEF InMm

(* So is every value of a block.                                           *)
LEMMA ValueType ==
  ASSUME NEW b \in BlockType, NEW a \in Letters
  PROVE  b.value[a] \in Int /\ InMm(b, b.value[a]) \in Int
<1>1. b.value[a] \in Int
  BY DEF BlockType
<1> QED
  BY <1>1, InMmType

(* The feed rate of a block is a number.                                   *)
LEMMA FeedType ==
  ASSUME NEW g \in GcState, NEW b \in BlockType
  PROVE  Feed(g, b) \in Int
<1>1. "F" \in Letters
  BY DEF Letters
<1>2. b.value["F"] \in Int /\ InMm(b, b.value["F"]) \in Int
  BY <1>1, ValueType
<1> QED
  BY <1>2 DEF Feed, GcState

(* The target of a block is a position.                                    *)
LEMMA TargetType ==
  ASSUME NEW g \in GcState, NEW b \in BlockType, NEW base \in Vector
  PROVE  Target(g, b, base) \in Vector
<1>1. ASSUME NEW a \in Axes
      PROVE  /\ InMm(b, b.value[a]) \in Int /\ g.position[a] \in Int
             /\ g.coord_offset[a] \in Int /\ base[a] \in Int
  BY ValueType, Constants DEF GcState, Vector
<1> DEFINE t(a) == LET v == InMm(b, b.value[a]) IN
                   IF AxisWords(b) = {} THEN 0
                   ELSE IF a \notin b.words THEN g.position[a]
                   ELSE IF b.non_modal = "G53" THEN v
                   ELSE IF b.modal.distance = "G90" THEN v + base[a] + g.coord_offset[a]
                   ELSE v + g.position[a]
<1>2. \A a \in Axes : t(a) \in Int
  BY <1>1
<1>3. Target(g, b, base) = [a \in Axes |-> t(a)]
  BY DEF Target
<1> QED
  BY <1>2, <1>3 DEF Vector

(* G92 sets an offset.                                                     *)
LEMMA NewOffsetType ==
  ASSUME NEW g \in GcState, NEW b \in BlockType, NEW base \in Vector
  PROVE  NewOffset(g, b, base) \in Vector
<1>1. ASSUME NEW a \in Axes
      PROVE  /\ InMm(b, b.value[a]) \in Int /\ g.position[a] \in Int
             /\ g.coord_offset[a] \in Int /\ base[a] \in Int
  BY ValueType, Constants DEF GcState, Vector
<1>2. \A a \in Axes : (IF a \in b.words THEN g.position[a] - base[a] - InMm(b, b.value[a])
                       ELSE g.coord_offset[a]) \in Int
  BY <1>1
<1> QED
  BY <1>2 DEF NewOffset, Vector

(* An accepted block reads no record that is torn.                         *)
LEMMA AcceptedBase ==
  ASSUME NEW g \in GcState, NEW st \in Records, NEW b \in BlockType, ~Refused(g, b, st)
  PROVE  Base(g, b, st) \in Vector
<1>1. b.modal.coord_select \in Slots
  BY Constants DEF BlockType, Modes
<1>2. CASE SelectsOther(g, b)
  <2>1. st[b.modal.coord_select] # Torn
    BY <1>2 DEF Refused, TornRead
  <2> QED
    BY <1>1, <1>2, <2>1 DEF Base, Records
<1>3. CASE ~SelectsOther(g, b)
  BY <1>3 DEF Base, GcState
<1> QED
  BY <1>2, <1>3

(* The record a block names exists, and is no home unless it asks for one. *)
LEMMA AcceptedSlot ==
  ASSUME NEW g \in GcState, NEW st \in Records, NEW b \in BlockType, ~RefusedNonModal(b)
  PROVE  /\ b.non_modal = "G10" => Slot(b) \in 0 .. NCoord - 1
         /\ b.non_modal \in {"G28", "G28.1"} => Slot(b) = G28Slot
         /\ b.non_modal \in {"G30", "G30.1"} => Slot(b) = G30Slot
         /\ Slot(b) \in Slots
<1>1. "P" \in Letters
  BY DEF Letters
<1>2. b.value["P"] \in Int
  BY <1>1, ValueType
<1>3. b.modal.coord_select \in 0 .. NCoord - 1
  BY DEF BlockType, Modes
<1>4. b.non_modal = "G10" => Slot(b) \in 0 .. NCoord - 1
  <2> SUFFICES ASSUME b.non_modal = "G10" PROVE Slot(b) \in 0 .. NCoord - 1
    OBVIOUS
  <2>1. b.value["P"] <= NCoord
    BY <1>2, Constants DEF RefusedNonModal
  <2>2. Slot(b) = IF b.value["P"] > 0 THEN b.value["P"] - 1 ELSE b.modal.coord_select
    BY DEF Slot
  <2> QED
    BY <1>2, <1>3, <2>1, <2>2, Constants
<1>5. b.non_modal \in {"G28", "G28.1"} => Slot(b) = G28Slot
  BY DEF Slot
<1>6. b.non_modal \notin {"G10", "G28", "G28.1"} => Slot(b) = G30Slot
  BY DEF Slot
<1> QED
  BY <1>4, <1>5, <1>6, Constants

(* The record an accepted block reads is whole.                            *)
LEMMA AcceptedRecord ==
  ASSUME NEW g \in GcState, NEW st \in Records, NEW b \in BlockType, ~Refused(g, b, st), ReadsSlot(b)
  PROVE  st[Slot(b)] \in Vector
<1>1. ~RefusedNonModal(b)
  BY DEF Refused
<1>2. Slot(b) \in Slots
  BY <1>1, AcceptedSlot
<1>3. st[Slot(b)] # Torn
  <2>1. TornRead(g, b, st) = {}
    BY DEF Refused
  <2>2. ~(SelectsOther(g, b) /\ st[b.modal.coord_select] = Torn)
    BY <2>1 DEF TornRead
  <2> QED
    BY <1>1, <2>1, <2>2 DEF TornRead
<1> QED
  BY <1>2, <1>3 DEF Records

(* The way home ends at a position.                                        *)
LEMMA HomeType ==
  ASSUME NEW g \in GcState, NEW b \in BlockType, NEW st, st[Slot(b)] \in Vector
  PROVE  HomeTarget(g, b, st) \in Vector
<1>1. \A a \in Axes : g.position[a] \in Int /\ st[Slot(b)][a] \in Int
  BY DEF GcState, Vector
<1> QED
  BY <1>1 DEF HomeTarget, Vector

(* G10 stores coordinates.                                                 *)
LEMMA NewCoordType ==
  ASSUME NEW g \in GcState, NEW b \in BlockType, NEW st, st[Slot(b)] \in Vector
  PROVE  NewCoord(g, b, st) \in Vector
<1>1. ASSUME NEW a \in Axes
      PROVE  /\ InMm(b, b.value[a]) \in Int /\ g.position[a] \in Int
             /\ g.coord_offset[a] \in Int /\ st[Slot(b)][a] \in Int
  BY ValueType, Constants DEF GcState, Vector
<1> DEFINE c(a) == LET v == InMm(b, b.value[a]) IN
                   IF a \notin b.words THEN st[Slot(b)][a]
                   ELSE IF b.value["L"] = 20 THEN g.position[a] - g.coord_offset[a] - v
                   ELSE v
<1>2. \A a \in Axes : c(a) \in Int
  BY <1>1
<1>3. NewCoord(g, b, st) = [a \in Axes |-> c(a)]
  BY DEF NewCoord
<1> QED
  BY <1>2, <1>3 DEF Vector

(* The offsets an accepted block works with are those of the work          *)
(* coordinate system it selects, if those of the parser were.              *)
LEMMA BaseOfSelected ==
  ASSUME NEW g \in GcState, NEW st, NEW jog, NEW b \in Readings(g, jog),
         g.coord_system = st[g.modal.coord_select]
  PROVE  Base(g, b, st) = st[b.modal.coord_select]
BY DEF Base, SelectsOther, Readings

(* A record is repaired only if it is torn.                                *)
LEMMA RepairedTorn ==
  ASSUME NEW g \in GcState, NEW st \in Records, NEW b \in BlockType, NEW s \in Repaired(g, b, st)
  PROVE  s \in Slots /\ st[s] = Torn
<1>1. s \in TornRead(g, b, st)
  BY DEF Repaired
<1>2. b.modal.coord_select \in Slots
  BY Constants DEF BlockType, Modes
<1>3. ~RefusedNonModal(b) => Slot(b) \in Slots
  BY AcceptedSlot
<1> QED
  BY <1>1, <1>2, <1>3 DEF TornRead

-----------------------------------------------------------------------------
(* Sequences.                                                              *)

(* The last element stays when the first is taken away.                    *)
LEMMA LastTail ==
  ASSUME NEW S, NEW s \in Seq(S), s # <<>>
  PROVE  /\ Tail(s) \in Seq(S) /\ Head(s) \in S /\ Last(s) \in S
         /\ Tail(s) = <<>> => Len(s) = 1 /\ Last(s) = Head(s)
         /\ Tail(s) # <<>> => Last(Tail(s)) = Last(s)
<1>1. Len(s) \in Nat /\ Len(s) >= 1
  OBVIOUS
<1>2. Tail(s) \in Seq(S) /\ Head(s) = s[1] /\ Len(Tail(s)) = Len(s) - 1
  BY <1>1
<1>3. \A i \in 1 .. Len(s) - 1 : Tail(s)[i] = s[i + 1]
  BY <1>1
<1>4. Tail(s) = <<>> => Len(s) = 1
  <2>1. PICK t \in Seq(S) : t = Tail(s)
    BY <1>2
  <2>2. t = <<>> => Len(t) = 0
    OBVIOUS
  <2>3. Len(t) = Len(s) - 1
    BY <1>2, <2>1
  <2>4. t = <<>> => Len(s) = 1
    BY <1>1, <2>2, <2>3
  <2> QED BY ONLY <2>1, <2>4
<1>5. Tail(s) # <<>> => Len(s) - 1 \in 1 .. Len(s) - 1
  BY <1>1, <1>2
<1> QED
  BY <1>1, <1>2, <1>3, <1>4, <1>5 DEF Last

(* What is appended is the last.                                           *)
LEMMA LastAppend ==
  ASSUME NEW S, NEW s \in Seq(S), NEW e \in S
  PROVE  Append(s, e) \in Seq(S) /\ Append(s, e) # <<>> /\ Last(Append(s, e)) = e
BY DEF Last

(* The last of one.                                                        *)
LEMMA LastOne == ASSUME NEW e PROVE <<e>> # <<>> /\ Last(<<e>>) = e
BY DEF Last

-----------------------------------------------------------------------------
(* The inductive invariant.                                                *)

Move == [target : Vector, rapid : BOOLEAN, jog : BOOLEAN]
Write == Slots \X Vector
JobType == [line : Lines \cup {NoLine}, writes : Seq(Write), active : BOOLEAN, moves : Seq(Move),
            probe : BOOLEAN, ends : SUBSET Vector, reset : BOOLEAN]

TypeOK ==
  /\ gc \in GcState /\ stored \in Records
  /\ queue \in Seq(Move) /\ machine \in Vector
  /\ state \in {"IDLE", "ALARM", "CHECK_MODE", "CYCLE", "JOG"}
  /\ stopped \in BOOLEAN /\ abort \in BOOLEAN
  /\ pc \in {"ready", "sync", "store", "move", "probe", "probing"}
  /\ job \in JobType

(* What a line needs before its motion begins.                             *)
JobOK ==
  /\ pc = "ready" => job = NoJob
  /\ pc = "store" => job.writes # <<>>
  /\ pc \in {"probe", "probing"} => job.probe
  /\ job.reset => ~job.probe
  /\ ~abort /\ stopped => state \in {"CYCLE", "JOG"}
  /\ ~abort /\ pc \in {"sync", "store", "probe", "probing"} =>
       /\ job.probe => job.moves # <<>> /\ state \in {"IDLE", "CYCLE"}
       /\ job.line # NoLine => state \in {"IDLE", "CYCLE", "CHECK_MODE"}
  /\ ~abort /\ pc \in {"store", "probe"} => queue = <<>> /\ state # "CYCLE"

(* The planner gets to where the parser takes the tool to be: it is there  *)
(* until a line begins to move, and again when its last move is planned.   *)
Position ==
  ~abort /\ state # "CHECK_MODE" =>
    /\ pc \in {"ready", "sync", "store", "probe"} => gc.position = Planned
    /\ pc \in {"sync", "store", "probe", "move"} /\ job.moves # <<>> =>
         job.ends = {Last(job.moves).target}
    /\ pc \in {"sync", "store", "probe"} /\ job.moves = <<>> => job.ends = {}
    /\ pc = "move" /\ job.moves = <<>> =>
         job.ends = {Planned} \/ (job.ends = {} /\ gc.position = Planned)
    /\ pc = "probing" => job.ends = {Planned}

(* A write that is still to come changes the selected offsets only if they *)
(* are to follow it.                                                       *)
Offsets ==
  ~abort /\ ~job.reset =>
    /\ gc.coord_system = stored[gc.modal.coord_select]
    /\ pc \in {"sync", "store"} =>
         \A i \in DOMAIN job.writes :
           i = 1 /\ ((job.writes[i][1] = gc.modal.coord_select) <=> job.active)

(* What a line is to write as a home is where the parser is.               *)
Homes ==
  ~abort /\ job.line # NoLine /\ pc \in {"sync", "store"} =>
    \A i \in DOMAIN job.writes :
      job.writes[i][1] \in {G28Slot, G30Slot} => job.writes[i][2] = gc.position

IInv == TypeOK /\ JobOK /\ Position /\ Offsets /\ Homes

-----------------------------------------------------------------------------
(* An accepted line.                                                       *)

(* The block of a line the host sends.                                     *)
LEMMA BlockReads ==
  ASSUME TypeOK, NEW line \in Lines
  PROVE  Block(line) \in Readings(gc, line.jog) /\ Block(line) \in BlockType /\ line.jog \in BOOLEAN
         /\ Block(line).jog = line.jog
<1>1. line \in [jog : BOOLEAN, words : Seq(Word)]
  BY LinesAssumption
<1>2. Block(line) \in Readings(gc, line.jog)
  BY <1>1, ParseReads DEF Block, TypeOK
<1> QED
  BY <1>1, <1>2 DEF Readings

(* Where an accepted line starts from and goes to.                         *)
LEMMA AcceptedValues ==
  ASSUME TypeOK, NEW line \in Lines, NEW b, b = Block(line), Accepted(line, b)
  PROVE  /\ BaseOf(b) \in Vector /\ TargetOf(b) \in Vector
         /\ GoesHome(b) => HomeTarget(gc, b, stored) \in Vector
         /\ b.non_modal = "G10" => NewCoord(gc, b, stored) \in Vector
<1>1. gc \in GcState /\ stored \in Records /\ b \in BlockType
  BY BlockReads DEF TypeOK
<1>2. ~Refused(gc, b, stored)
  BY DEF Accepted
<1>3. BaseOf(b) \in Vector
  BY <1>1, <1>2, AcceptedBase DEF BaseOf
<1>4. TargetOf(b) \in Vector
  BY <1>1, <1>3, TargetType DEF TargetOf
<1>5. ReadsSlot(b) => stored[Slot(b)] \in Vector
  BY <1>1, <1>2, AcceptedRecord
<1>6. GoesHome(b) => HomeTarget(gc, b, stored) \in Vector
  BY <1>1, <1>5, HomeType DEF GoesHome, ReadsSlot
<1>7. b.non_modal = "G10" => NewCoord(gc, b, stored) \in Vector
  BY <1>1, <1>5, NewCoordType DEF ReadsSlot
<1> QED
  BY <1>3, <1>4, <1>6, <1>7

(* What it makes of the parser state.                                      *)
LEMMA AcceptedGc ==
  ASSUME TypeOK, NEW line \in Lines, NEW b, b = Block(line), Accepted(line, b)
  PROVE  /\ NewGc(b) \in GcState
         /\ NewGc(b).modal = b.modal /\ NewGc(b).position = gc.position
         /\ NewGc(b).coord_system = BaseOf(b)
<1>1. gc \in GcState /\ b \in BlockType /\ BaseOf(b) \in Vector /\ b.modal \in Modes
  BY BlockReads, AcceptedValues DEF TypeOK, BlockType
<1>2. Feed(gc, b) \in Int
  BY <1>1, FeedType
<1> DEFINE offset == CASE b.non_modal = "G92" -> NewOffset(gc, b, BaseOf(b))
                       [] b.non_modal = "G92.1" -> Zero
                       [] OTHER -> gc.coord_offset
<1>3. offset \in Vector
  <2>1. NewOffset(gc, b, BaseOf(b)) \in Vector /\ Zero \in Vector /\ gc.coord_offset \in Vector
    BY <1>1, NewOffsetType, Constants DEF GcState
  <2> QED BY <2>1
<1>4. NewGc(b) = [gc EXCEPT !.modal = b.modal, !.feed_rate = Feed(gc, b),
                            !.coord_system = BaseOf(b), !.coord_offset = offset]
  BY <1>1 DEF NewGc, GcState
<1> HIDE DEF offset
<1> QED
  BY <1>1, <1>2, <1>3, <1>4 DEF GcState

(* What it is to write.                                                    *)
LEMMA AcceptedWrites ==
  ASSUME TypeOK, NEW line \in Lines, NEW b, b = Block(line), Accepted(line, b)
  PROVE  /\ Written(b) \in Seq(Write)
         /\ \A i \in DOMAIN Written(b) :
              /\ i = 1 /\ WritesSlot(b) /\ Written(b)[i][1] = Slot(b)
              /\ Slot(b) \in {G28Slot, G30Slot} => Written(b)[i][2] = gc.position
              /\ b.non_modal # "G10" => Slot(b) \in {G28Slot, G30Slot}
<1>1. gc \in GcState /\ stored \in Records /\ b \in BlockType /\ ~RefusedNonModal(b)
  BY BlockReads DEF TypeOK, Accepted, Refused
<1>2. CASE WritesSlot(b)
  <2> DEFINE data == IF b.non_modal = "G10" THEN NewCoord(gc, b, stored) ELSE gc.position
  <2>1. data \in Vector
    BY <1>1, AcceptedValues DEF GcState
  <2>2. Slot(b) \in Slots
    BY <1>1, AcceptedSlot
  <2>3. b.non_modal = "G10" => Slot(b) \notin {G28Slot, G30Slot}
    BY <1>1, AcceptedSlot, Constants
  <2>4. b.non_modal # "G10" => Slot(b) \in {G28Slot, G30Slot}
    BY <1>1, <1>2, AcceptedSlot DEF WritesSlot
  <2>5. Written(b) = << <<Slot(b), data>> >>
    BY <1>2 DEF Written
  <2>6. <<Slot(b), data>> \in Write /\ (Slot(b) \in {G28Slot, G30Slot} => data = gc.position)
    BY <2>1, <2>2, <2>3 DEF Write
  <2> HIDE DEF data
  <2>7. Written(b) \in Seq(Write) /\ DOMAIN Written(b) = {1} /\ Written(b)[1] = <<Slot(b), data>>
    BY <2>5, <2>6
  <2> QED
    BY <1>2, <2>4, <2>6, <2>7
<1>3. CASE ~WritesSlot(b)
  BY <1>3 DEF Written
<1> QED
  BY <1>2, <1>3

(* Where its moves end.                                                    *)
LEMMA AcceptedMoves ==
  ASSUME TypeOK, NEW line \in Lines, NEW b, b = Block(line), Accepted(line, b)
  PROVE  /\ Moves(b) \in Seq(Move) /\ Ends(b) \subseteq Vector
         /\ Moves(b) # <<>> => Ends(b) = {Last(Moves(b)).target}
         /\ Moves(b) = <<>> /\ state # "CHECK_MODE" => Ends(b) = {}
         /\ Probing(b) => Moves(b) # <<>>
<1> DEFINE move(target, rapid) == [target |-> target, rapid |-> rapid, jog |-> b.jog]
           home == HomeTarget(gc, b, stored)
<1>1. b.jog \in BOOLEAN /\ TargetOf(b) \in Vector /\ (GoesHome(b) => home \in Vector)
  BY BlockReads, AcceptedValues DEF BlockType
<1>2. \A v \in Vector : \A r \in BOOLEAN : move(v, r) \in Move /\ move(v, r).target = v
  BY <1>1 DEF Move
<1>3. CASE GoesHome(b)
  <2> DEFINE first == IF AxisWords(b) = {} THEN <<>> ELSE <<move(TargetOf(b), TRUE)>>
             m == move(home, TRUE)
  <2>1. Moves(b) = first \o <<m>> /\ Ends(b) = {home}
    BY <1>3 DEF Moves, Ends
  <2>2. first \in Seq(Move) /\ m \in Move /\ m.target = home
    <3> DEFINE x == move(TargetOf(b), TRUE)
    <3>1. x \in Move /\ m \in Move /\ m.target = home
      BY <1>1, <1>2, <1>3
    <3>2. first = <<>> \/ first = <<x>>
      OBVIOUS
    <3> HIDE DEF x, m, first
    <3>3. <<>> \in Seq(Move) /\ <<x>> \in Seq(Move)
      BY <3>1
    <3> QED BY <3>1, <3>2, <3>3
  <2> HIDE DEF first, m, home, move
  <2>3. Moves(b) = Append(first, m)
    BY <2>1, <2>2
  <2>4. Moves(b) \in Seq(Move) /\ Moves(b) # <<>> /\ Last(Moves(b)) = m
    BY <2>2, <2>3, LastAppend
  <2> QED
    BY <1>1, <1>3, <2>1, <2>2, <2>4
<1>4. CASE ~GoesHome(b) /\ (b.jog \/ (HasMotion(b) /\ (b.modal.motion \notin Probes \/ Probing(b))))
  <2>1. Ends(b) = {TargetOf(b)}
    BY <1>4 DEF Ends
  <2>2. PICK r \in BOOLEAN : Moves(b) = <<move(TargetOf(b), r)>>
    BY <1>4 DEF Moves
  <2>3. move(TargetOf(b), r) \in Move /\ move(TargetOf(b), r).target = TargetOf(b)
    BY <1>1, <1>2
  <2> HIDE DEF move
  <2>4. Moves(b) \in Seq(Move) /\ Moves(b) # <<>> /\ Last(Moves(b)) = move(TargetOf(b), r)
    BY <2>2, <2>3, LastOne
  <2> QED
    BY <1>1, <2>1, <2>3, <2>4
<1>5. CASE ~GoesHome(b) /\ ~b.jog /\ ~(HasMotion(b) /\ (b.modal.motion \notin Probes \/ Probing(b)))
  <2>1. Moves(b) = <<>> /\ ~Probing(b)
    BY <1>5 DEF Moves, Probing
  <2>2. state # "CHECK_MODE" => ~HasMotion(b)
    BY <1>5, <2>1 DEF Probing
  <2>3. Ends(b) \in {{}, {TargetOf(b)}} /\ (~HasMotion(b) => Ends(b) = {})
    BY <1>5 DEF Ends
  <2> QED
    BY <1>1, <2>1, <2>2, <2>3
<1> QED
  BY <1>3, <1>4, <1>5

-----------------------------------------------------------------------------
(* The planner's end.                                                      *)

(* A motion stops at a position.                                           *)
LEMMA StopsType == ASSUME TypeOK PROVE Stops \subseteq Vector
<1>1. CASE queue = <<>> \/ stopped \/ state \notin {"CYCLE", "JOG"}
  BY <1>1 DEF Stops, TypeOK
<1>2. CASE ~(queue = <<>> \/ stopped \/ state \notin {"CYCLE", "JOG"})
  <2>1. Head(queue) \in Move
    BY <1>2, LastTail DEF TypeOK
  <2> DEFINE end == Head(queue).target
             half == [a \in Axes |-> (machine[a] + end[a]) \div 2]
  <2>2. end \in Vector /\ machine \in Vector
    BY <2>1 DEF TypeOK, Move
  <2> HIDE DEF end
  <2>3. \A a \in Axes : (machine[a] + end[a]) \div 2 \in Int
    BY <2>2 DEF Vector
  <2>4. half \in Vector
    BY <2>3 DEF Vector
  <2>5. Stops = {machine, end, half}
    BY <1>2 DEF Stops, end
  <2> HIDE DEF half
  <2> QED
    BY <2>2, <2>4, <2>5
<1> QED
  BY <1>1, <1>2

(* The machine doing the first move does not change where the last ends.   *)
LEMMA PlannedRun ==
  ASSUME TypeOK, Run
  PROVE  Planned' = Planned /\ queue' \in Seq(Move) /\ machine' \in Vector
<1>1. queue # <<>> /\ queue \in Seq(Move) /\ queue' = Tail(queue) /\ machine' = Head(queue).target
  BY DEF Run, TypeOK
<1>2. /\ Tail(queue) \in Seq(Move) /\ Head(queue) \in Move
      /\ Tail(queue) = <<>> => Last(queue) = Head(queue)
      /\ Tail(queue) # <<>> => Last(Tail(queue)) = Last(queue)
  BY <1>1, LastTail
<1>3. Head(queue).target \in Vector
  BY <1>2 DEF Move
<1> QED
  BY <1>1, <1>2, <1>3 DEF Planned

(* A move planned ends where the planner then does.                        *)
LEMMA PlannedMove ==
  ASSUME TypeOK, PlanMove
  PROVE  /\ Planned' = Head(job.moves).target
         /\ queue' \in Seq(Move) /\ Tail(job.moves) \in Seq(Move) /\ Head(job.moves) \in Move
         /\ Tail(job.moves) = <<>> => Last(job.moves) = Head(job.moves)
         /\ Tail(job.moves) # <<>> => Last(Tail(job.moves)) = Last(job.moves)
<1>1. /\ job.moves # <<>> /\ job.moves \in Seq(Move) /\ queue \in Seq(Move)
      /\ queue' = IF Head(job.moves).target = Planned THEN queue ELSE Append(queue, Head(job.moves))
      /\ machine' = machine
  BY DEF PlanMove, TypeOK, JobType
<1>2. /\ Tail(job.moves) \in Seq(Move) /\ Head(job.moves) \in Move
      /\ Tail(job.moves) = <<>> => Last(job.moves) = Head(job.moves)
      /\ Tail(job.moves) # <<>> => Last(Tail(job.moves)) = Last(job.moves)
  BY <1>1, LastTail
<1>3. CASE Head(job.moves).target = Planned
  <2>1. queue' = queue
    BY <1>1, <1>3
  <2> QED
    BY <1>1, <1>2, <1>3, <2>1 DEF Planned
<1>4. CASE Head(job.moves).target # Planned
  <2> DEFINE q == Append(queue, Head(job.moves))
  <2>1. q \in Seq(Move) /\ q # <<>> /\ Last(q) = Head(job.moves)
    BY <1>1, <1>2, LastAppend
  <2>2. queue' = q
    BY <1>1, <1>4
  <2> HIDE DEF q
  <2> QED
    BY <1>1, <1>2, <2>1, <2>2 DEF Planned
<1> QED
  BY <1>3, <1>4

-----------------------------------------------------------------------------
(* Types.                                                                  *)

(* Nothing is left to do between lines.                                    *)
LEMMA NoJobType == NoJob \in JobType /\ NoJob.line = NoLine /\ NoJob.writes = <<>>
                   /\ NoJob.moves = <<>> /\ NoJob.ends = {} /\ NoJob.probe = FALSE
                   /\ NoJob.reset = FALSE
BY DEF NoJob, JobType

(* The parser state after a start.                                         *)
LEMMA FreshGcType ==
  ASSUME NEW system \in Vector, NEW position \in Vector
  PROVE  /\ FreshGc(system, position) \in GcState
         /\ FreshGc(system, position).coord_system = system
         /\ FreshGc(system, position).position = position
         /\ FreshGc(system, position).modal.coord_select = 0
<1>1. DefaultModes \in Modes /\ DefaultModes.coord_select = 0
  BY Constants DEF DefaultModes, Modes, Motions
<1>2. Zero \in Vector
  BY Constants
<1> QED
  BY <1>1, <1>2 DEF FreshGc, GcState

(* The line that AcceptLine leaves to be done.                             *)
JobOf(line, b) ==
  [NoJob EXCEPT
     !.line = line, !.writes = Written(b), !.moves = Moves(b), !.ends = Ends(b),
     !.active = b.non_modal = "G10" /\ Slot(b) = b.modal.coord_select,
     !.probe = Probing(b)]

(* Its parts.                                                              *)
LEMMA JobOfType ==
  ASSUME TypeOK, NEW line \in Lines, NEW b, b = Block(line), Accepted(line, b)
  PROVE  /\ JobOf(line, b) \in JobType
         /\ JobOf(line, b).line = line /\ JobOf(line, b).writes = Written(b)
         /\ JobOf(line, b).moves = Moves(b) /\ JobOf(line, b).ends = Ends(b)
         /\ JobOf(line, b).active <=> b.non_modal = "G10" /\ Slot(b) = b.modal.coord_select
         /\ JobOf(line, b).probe = Probing(b) /\ JobOf(line, b).reset = FALSE
<1>1. Written(b) \in Seq(Write) /\ Moves(b) \in Seq(Move) /\ Ends(b) \subseteq Vector
  BY AcceptedWrites, AcceptedMoves
<1>2. Probing(b) \in BOOLEAN /\ (b.non_modal = "G10" /\ Slot(b) = b.modal.coord_select) \in BOOLEAN
  BY DEF Probing
<1> QED
  BY <1>1, <1>2 DEF JobOf, NoJob, JobType

(* The records $RST=# clears.                                              *)
LEMMA ZeroWrites ==
  LET writes == [i \in 1 .. Cardinality(Slots) |-> <<i - 1, Zero>>]
  IN  writes \in Seq(Write) /\ writes # <<>>
<1>1. Cardinality(Slots) = NCoord + 2
  <2>1. Cardinality(0 .. NCoord + 1) = (NCoord + 1) - 0 + 1
    BY Constants, FS_Interval
  <2> QED BY <2>1, Constants
<1>2. \A i \in 1 .. NCoord + 2 : <<i - 1, Zero>> \in Write
  BY Constants DEF Write
<1>3. [i \in 1 .. NCoord + 2 |-> <<i - 1, Zero>>] \in Seq(Write)
  BY <1>2, Constants
<1>4. PICK w : w = [i \in 1 .. NCoord + 2 |-> <<i - 1, Zero>>]
  OBVIOUS
<1>5. 1 \in DOMAIN w
  BY <1>4, Constants
<1>6. w # <<>>
  BY <1>5
<1> QED
  BY <1>1, <1>3, <1>4, <1>6

(* Every step keeps the types.                                             *)
LEMMA TypeStep == ASSUME IInv, [Next]_vars PROVE TypeOK'
<1> USE DEF TypeOK
<1>0. TypeOK
  BY DEF IInv
<1>1. CASE UNCHANGED vars
  BY <1>0, <1>1 DEF vars
<1>2. ASSUME NEW line \in Lines, AcceptLine(line) PROVE TypeOK'
  <2> DEFINE b == Block(line)
  <2>1. Accepted(line, b) /\ job' = JobOf(line, b) /\ gc' \in {gc, NewGc(b)}
    BY <1>2 DEF AcceptLine, JobOf
  <2> HIDE DEF b
  <2>2. gc' \in GcState /\ job' \in JobType
    <3>1. b = Block(line)
      BY DEF b
    <3>2. NewGc(b) \in GcState /\ JobOf(line, b) \in JobType
      BY <1>0, <2>1, <3>1, AcceptedGc, JobOfType
    <3> QED BY <1>0, <2>1, <3>2
  <2>3. /\ pc' \in {"sync", "move"}
        /\ UNCHANGED <<stored, queue, machine, state, stopped, abort>>
    BY <1>2 DEF AcceptLine
  <2> QED BY <1>0, <2>2, <2>3
<1>3. ASSUME NEW line \in Lines, RefuseLine(line) PROVE TypeOK'
  <2> DEFINE s == CHOOSE s \in Repaired(gc, Block(line), stored) : TRUE
  <2>1. s \in Slots
    BY <1>0, <1>3, BlockReads, RepairedTorn DEF RefuseLine
  <2>2. job' = [NoJob EXCEPT !.writes = << <<s, Zero>> >>] /\ pc' = "sync"
        /\ UNCHANGED <<gc, stored, queue, machine, state, stopped, abort>>
    BY <1>3 DEF RefuseLine
  <2> HIDE DEF s
  <2>3. << <<s, Zero>> >> \in Seq(Write)
    BY <2>1, Constants DEF Write
  <2>4. job' \in JobType
    BY <2>2, <2>3, NoJobType DEF JobType
  <2> QED BY <1>0, <2>2, <2>4
<1>4. CASE RestoreParameters
  <2> DEFINE w == [i \in 1 .. Cardinality(Slots) |-> <<i - 1, Zero>>]
  <2>1. w \in Seq(Write)
    BY ZeroWrites
  <2>2. job' = [NoJob EXCEPT !.writes = w, !.reset = TRUE] /\ pc' = "sync"
        /\ UNCHANGED <<gc, stored, queue, machine, state, stopped, abort>>
    BY <1>4 DEF RestoreParameters
  <2> HIDE DEF w
  <2>3. job' \in JobType
    BY <2>1, <2>2, NoJobType DEF JobType
  <2> QED BY <1>0, <2>2, <2>3
<1>5. CASE CheckMode
  BY <1>0, <1>5 DEF CheckMode
<1>6. CASE Unlock
  BY <1>0, <1>6 DEF Unlock
<1>7. CASE Sync
  BY <1>0, <1>7 DEF Sync
<1>8. CASE Store
  <2>1. job.writes # <<>> /\ job.writes \in Seq(Write)
    BY <1>0, <1>8 DEF IInv, JobOK, Store, JobType
  <2> DEFINE slot == Head(job.writes)[1]
             data == Head(job.writes)[2]
  <2>2. slot \in Slots /\ data \in Vector /\ Tail(job.writes) \in Seq(Write)
    BY <2>1, LastTail DEF Write
  <2>3. /\ stored' = [stored EXCEPT ![slot] = data]
        /\ gc' = IF job.active THEN [gc EXCEPT !.coord_system = data] ELSE gc
        /\ job' = [job EXCEPT !.writes = Tail(@)] /\ pc' \in {"move", "sync"}
        /\ UNCHANGED <<queue, machine, state, stopped, abort, lines>>
    BY <1>8 DEF Store
  <2> HIDE DEF slot, data
  <2>4. stored' \in Records
    BY <1>0, <2>2, <2>3 DEF Records
  <2>5. gc' \in GcState
    BY <1>0, <2>2, <2>3 DEF GcState
  <2>6. job' \in JobType
    BY <1>0, <2>2, <2>3 DEF JobType
  <2> QED BY <1>0, <2>3, <2>4, <2>5, <2>6
<1>9. CASE MoveBeyond
  BY <1>0, <1>9, StopsType DEF MoveBeyond, Alarm
<1>10. CASE PlanMove
  <2>1. queue' \in Seq(Move) /\ Tail(job.moves) \in Seq(Move)
    BY <1>0, <1>10, PlannedMove
  <2>2. job' = [job EXCEPT !.moves = Tail(@)] /\ state' \in {"JOG", state}
        /\ UNCHANGED <<gc, stored, machine, stopped, abort, pc>>
    BY <1>10 DEF PlanMove
  <2>3. job' \in JobType
    BY <1>0, <2>1, <2>2 DEF JobType
  <2> QED BY <1>0, <2>1, <2>2, <2>3
<1>11. CASE SkipMove
  <2>1. job.moves # <<>> /\ job' = [job EXCEPT !.moves = Tail(@)]
        /\ UNCHANGED <<gc, stored, queue, machine, state, stopped, abort, pc>>
    BY <1>11 DEF SkipMove
  <2>2. Tail(job.moves) \in Seq(Move)
    BY <1>0, <2>1, LastTail DEF JobType
  <2>3. job' \in JobType
    BY <1>0, <2>1, <2>2 DEF JobType
  <2> QED BY <1>0, <2>1, <2>3
<1>12. ASSUME NEW p \in Vector, LineOver(p)
       PROVE  gc' \in GcState /\ stored' \in Records /\ job' \in JobType /\ pc' = "ready"
  BY <1>0, <1>12, NoJobType DEF LineOver, GcState
<1>13. gc.position \in Vector
  BY <1>0 DEF GcState
<1>14. job.ends # {} => (CHOOSE p \in job.ends : TRUE) \in Vector
  BY <1>0 DEF JobType
<1>15. <<>> \in Seq(Move)
  OBVIOUS
<1>16. CASE ProbeBegin
  BY <1>0, <1>16 DEF ProbeBegin, JobType
<1>17. CASE ProbeTouching
  BY <1>0, <1>12, <1>13, <1>17 DEF ProbeTouching
<1>18. CASE ProbeBeyond
  BY <1>0, <1>18, StopsType DEF ProbeBeyond, Alarm
<1>19. CASE ProbeContact
  <2>1. machine' \in Vector /\ LineOver(machine') /\ queue' = <<>> /\ state' = "IDLE"
        /\ stopped' = FALSE /\ UNCHANGED abort
    BY <1>0, <1>19, StopsType DEF ProbeContact
  <2>2. gc' \in GcState /\ stored' \in Records /\ job' \in JobType /\ pc' = "ready"
    BY <1>12, <2>1
  <2> QED BY <1>0, <1>15, <2>1, <2>2
<1>20. CASE ProbeMissed
  <2>1. pc = "probing" /\ LineOver(CHOOSE p \in job.ends : TRUE) /\ state' \in {"IDLE", "ALARM"}
        /\ ~abort /\ state = "IDLE" /\ UNCHANGED <<queue, machine, stopped, abort>>
    BY <1>20 DEF ProbeMissed
  <2>2. job.ends # {}
    BY <2>1 DEF IInv, Position
  <2>3. gc' \in GcState /\ stored' \in Records /\ job' \in JobType /\ pc' = "ready"
    BY <1>12, <1>14, <2>1, <2>2
  <2> QED BY <1>0, <2>1, <2>3
<1>21. CASE ProbeAborted
  BY <1>0, <1>12, <1>13, <1>21 DEF ProbeAborted
<1>22. CASE LineDone
  <2> DEFINE p == IF job.ends = {} THEN gc.position ELSE CHOOSE p \in job.ends : TRUE
  <2>1. p \in Vector
    BY <1>13, <1>14
  <2>2. LineOver(p) /\ abort' = (abort \/ job.reset) /\ UNCHANGED <<queue, machine, state, stopped>>
    BY <1>22 DEF LineDone
  <2> HIDE DEF p
  <2>3. gc' \in GcState /\ stored' \in Records /\ job' \in JobType /\ pc' = "ready"
    BY <1>12, <2>1, <2>2
  <2> QED BY <1>0, <2>2, <2>3
<1>23. CASE CycleStart
  BY <1>0, <1>23 DEF CycleStart
<1>24. CASE Run
  BY <1>0, <1>24, PlannedRun DEF Run
<1>25. CASE CycleStop
  BY <1>0, <1>25 DEF CycleStop
<1>26. CASE JogCancel
  <2>1. machine' \in Vector /\ gc' = [gc EXCEPT !.position = machine'] /\ queue' = <<>>
        /\ state' = "IDLE" /\ stopped' = FALSE /\ UNCHANGED <<stored, abort, pc, job>>
    BY <1>0, <1>26, StopsType DEF JogCancel
  <2>2. gc' \in GcState
    BY <1>0, <2>1 DEF GcState
  <2> QED BY <1>0, <1>15, <2>1, <2>2
<1>27. CASE Reset
  BY <1>0, <1>27, StopsType DEF Reset
<1>28. CASE Reinit
  <2>1. stored' \in Records /\ stored'[0] \in Vector
    BY <1>0, <1>28, Constants DEF Reinit, Records
  <2>2. gc' \in GcState
    BY <1>0, <1>28, <2>1, FreshGcType DEF Reinit
  <2> QED BY <1>0, <1>28, <1>15, <2>1, <2>2 DEF Reinit
<1>29. CASE PowerLoss
  <2>1. stored' \in Records
    <3>1. CASE pc # "store"
      BY <1>0, <1>29, <3>1 DEF PowerLoss
    <3>2. CASE pc = "store"
      <4>1. job.writes # <<>> /\ job.writes \in Seq(Write)
        BY <1>0, <3>2 DEF IInv, JobOK, JobType
      <4> DEFINE slot == Head(job.writes)[1]
                 data == Head(job.writes)[2]
      <4>2. slot \in Slots /\ data \in Vector
        BY <4>1, LastTail DEF Write
      <4>3. PICK r \in Garbage \cup {stored[slot], data} : stored' = [stored EXCEPT ![slot] = r]
        BY <1>29, <3>2 DEF PowerLoss
      <4> HIDE DEF slot, data
      <4>4. r \in Vector \cup {Torn}
        BY <1>0, <4>2, <4>3, MachineAssumption DEF Records
      <4> QED BY <1>0, <4>2, <4>3, <4>4 DEF Records
    <3> QED BY <3>1, <3>2
  <2> QED BY <1>0, <1>29, <1>15, <2>1, NoJobType, Constants DEF PowerLoss
<1> QED
  BY <1>1, <1>2, <1>3, <1>4, <1>5, <1>6, <1>7, <1>8, <1>9, <1>10, <1>11, <1>16, <1>17, <1>18,
     <1>19, <1>20, <1>21, <1>22, <1>23, <1>24, <1>25, <1>26, <1>27, <1>28, <1>29
  DEF Next, FromHost, Motion, Probe, System, Interrupted

-----------------------------------------------------------------------------
(* The rest of the invariant.                                              *)

(* A line that waits is one that may wait, in every step.                  *)
LEMMA JobStep == ASSUME IInv, [Next]_vars PROVE JobOK'
<1>0. TypeOK /\ JobOK
  BY DEF IInv
<1> USE DEF JobOK
<1>1. CASE UNCHANGED vars
  BY <1>0, <1>1 DEF vars
<1>2. ASSUME NEW line \in Lines, AcceptLine(line) PROVE JobOK'
  <2> DEFINE b == Block(line)
  <2>1. /\ Accepted(line, b) /\ job' = JobOf(line, b) /\ Unlocked(line)
        /\ pc' = IF ~line.jog /\ Synchronises(b) THEN "sync" ELSE "move"
        /\ UNCHANGED <<state, stopped, abort>>
    BY <1>2 DEF AcceptLine, JobOf
  <2> HIDE DEF b
  <2>2. b = Block(line)
    BY DEF b
  <2>3. /\ job'.line = line /\ job'.moves = Moves(b) /\ job'.probe = Probing(b) /\ job'.reset = FALSE
        /\ Probing(b) => Moves(b) # <<>>
    BY <1>0, <2>1, <2>2, JobOfType, AcceptedMoves
  <2>4. Probing(b) => state # "CHECK_MODE"
    BY DEF Probing
  <2>5. ~line.jog => state \in {"IDLE", "CYCLE", "CHECK_MODE"}
    BY <1>0, <2>1 DEF Unlocked, TypeOK
  <2> QED BY <1>0, <2>1, <2>3, <2>4, <2>5
<1>3. ASSUME NEW line \in Lines, RefuseLine(line) PROVE JobOK'
  <2> DEFINE s == CHOOSE s \in Repaired(gc, Block(line), stored) : TRUE
  <2>1. job' = [NoJob EXCEPT !.writes = << <<s, Zero>> >>] /\ pc' = "sync"
        /\ UNCHANGED <<queue, state, stopped, abort>>
    BY <1>3 DEF RefuseLine
  <2> HIDE DEF s
  <2>2. job'.line = NoLine /\ job'.probe = FALSE
    BY <2>1 DEF NoJob
  <2> QED BY <1>0, <2>1, <2>2
<1>4. CASE RestoreParameters
  <2>1. job'.line = NoLine /\ job'.probe = FALSE
    BY <1>4 DEF RestoreParameters, NoJob
  <2> QED BY <1>0, <1>4, <2>1 DEF RestoreParameters
<1>5. CASE CheckMode
  BY <1>0, <1>5 DEF CheckMode
<1>6. CASE Unlock
  BY <1>0, <1>6 DEF Unlock
<1>7. CASE Sync
  BY <1>0, <1>7 DEF Sync
<1>8. CASE Store
  <2>1. /\ job' = [job EXCEPT !.writes = Tail(@)] /\ pc = "store" /\ pc' \in {"move", "sync"}
        /\ UNCHANGED <<queue, state, stopped, abort>>
    BY <1>8 DEF Store
  <2>2. job'.line = job.line /\ job'.probe = job.probe /\ job'.reset = job.reset /\ job'.moves = job.moves
    BY <1>0, <2>1 DEF TypeOK, JobType
  <2> QED BY <1>0, <2>1, <2>2
<1>9. CASE MoveBeyond
  BY <1>0, <1>9 DEF MoveBeyond, Alarm
<1>10. CASE PlanMove
  <2>1. job'.reset = job.reset /\ job'.probe = job.probe /\ pc = "move" /\ pc' = pc
        /\ UNCHANGED <<stopped, abort>> /\ state' \in {state, "JOG"}
    BY <1>0, <1>10 DEF PlanMove, TypeOK, JobType
  <2> QED BY <1>0, <2>1
<1>11. CASE SkipMove
  <2>1. job'.reset = job.reset /\ job'.probe = job.probe /\ pc = "move" /\ pc' = pc
        /\ UNCHANGED <<stopped, abort, state>>
    BY <1>0, <1>11 DEF SkipMove, TypeOK, JobType
  <2> QED BY <1>0, <2>1
<1>12. ASSUME NEW p, LineOver(p) PROVE pc' = "ready" /\ job' = NoJob /\ ~job'.probe
  BY <1>12, NoJobType DEF LineOver
<1>13. CASE ProbeBegin
  BY <1>0, <1>13 DEF ProbeBegin
<1>14. CASE ProbeTouching
  BY <1>0, <1>12, <1>14 DEF ProbeTouching
<1>15. CASE ProbeBeyond
  BY <1>0, <1>15 DEF ProbeBeyond, Alarm
<1>16. CASE ProbeContact
  BY <1>0, <1>12, <1>16 DEF ProbeContact
<1>17. CASE ProbeMissed
  BY <1>0, <1>12, <1>17 DEF ProbeMissed
<1>18. CASE ProbeAborted
  BY <1>0, <1>12, <1>18 DEF ProbeAborted
<1>19. CASE LineDone
  BY <1>0, <1>12, <1>19 DEF LineDone
<1>20. CASE CycleStart
  BY <1>0, <1>20 DEF CycleStart
<1>21. CASE Run
  BY <1>0, <1>21 DEF Run
<1>22. CASE CycleStop
  BY <1>0, <1>22 DEF CycleStop
<1>23. CASE JogCancel
  BY <1>0, <1>23 DEF JogCancel
<1>24. CASE Reset
  BY <1>0, <1>24 DEF Reset
<1>25. CASE Reinit
  BY <1>0, <1>25 DEF Reinit
<1>26. CASE PowerLoss
  BY <1>0, <1>26, NoJobType DEF PowerLoss
<1> QED
  BY <1>1, <1>2, <1>3, <1>4, <1>5, <1>6, <1>7, <1>8, <1>9, <1>10, <1>11, <1>13, <1>14, <1>15, <1>16,
     <1>17, <1>18, <1>19, <1>20, <1>21, <1>22, <1>23, <1>24, <1>25, <1>26
  DEF Next, FromHost, Motion, Probe, System, Interrupted

(* Every step keeps the planner on its way to where the parser is.         *)
LEMMA PositionStep == ASSUME IInv, [Next]_vars PROVE Position'
<1>0. TypeOK /\ JobOK /\ Position
  BY DEF IInv
<1> USE DEF Position
<1>1. CASE UNCHANGED vars
  BY <1>0, <1>1 DEF vars, Planned
<1>2. ASSUME NEW line \in Lines, AcceptLine(line) PROVE Position'
  <2> DEFINE b == Block(line)
  <2>1. /\ Accepted(line, b) /\ job' = JobOf(line, b) /\ gc' \in {gc, NewGc(b)}
        /\ pc = "ready" /\ pc' \in {"sync", "move"}
        /\ UNCHANGED <<queue, machine, state, abort>>
    BY <1>2 DEF AcceptLine, JobOf
  <2> HIDE DEF b
  <2>2. b = Block(line)
    BY DEF b
  <2>3. /\ job'.moves = Moves(b) /\ job'.ends = Ends(b)
        /\ Moves(b) # <<>> => Ends(b) = {Last(Moves(b)).target}
        /\ Moves(b) = <<>> /\ state # "CHECK_MODE" => Ends(b) = {}
    BY <1>0, <2>1, <2>2, JobOfType, AcceptedMoves
  <2>4. gc'.position = gc.position
    BY <1>0, <2>1, <2>2, AcceptedGc
  <2>5. Planned' = Planned
    BY <2>1 DEF Planned
  <2> QED BY <1>0, <2>1, <2>3, <2>4, <2>5
<1>3. ASSUME NEW line \in Lines, RefuseLine(line) PROVE Position'
  <2> DEFINE s == CHOOSE s \in Repaired(gc, Block(line), stored) : TRUE
  <2>1. job' = [NoJob EXCEPT !.writes = << <<s, Zero>> >>] /\ pc = "ready" /\ pc' = "sync"
        /\ UNCHANGED <<gc, queue, machine, state, abort>>
    BY <1>3 DEF RefuseLine
  <2> HIDE DEF s
  <2>2. job'.moves = <<>> /\ job'.ends = {} /\ Planned' = Planned
    BY <2>1 DEF NoJob, Planned
  <2> QED BY <1>0, <2>1, <2>2
<1>4. CASE RestoreParameters
  <2>1. job'.moves = <<>> /\ job'.ends = {} /\ Planned' = Planned
    BY <1>4 DEF RestoreParameters, NoJob, Planned
  <2> QED BY <1>0, <1>4, <2>1 DEF RestoreParameters
<1>5. CASE CheckMode
  BY <1>0, <1>5 DEF CheckMode
<1>6. CASE Unlock
  BY <1>0, <1>6 DEF Unlock, Planned
<1>7. CASE Sync
  <2>1. /\ pc = "sync" /\ pc' \in {"store", "probe", "move"} /\ Planned' = Planned
        /\ UNCHANGED <<gc, state, abort, job>>
    BY <1>7 DEF Sync, Planned
  <2> QED BY <1>0, <2>1
<1>8. CASE Store
  <2> DEFINE data == Head(job.writes)[2]
  <2>1. /\ job' = [job EXCEPT !.writes = Tail(@)] /\ pc = "store" /\ pc' \in {"move", "sync"}
        /\ gc' \in {gc, [gc EXCEPT !.coord_system = data]}
        /\ UNCHANGED <<queue, machine, state, abort>>
    BY <1>8 DEF Store
  <2> HIDE DEF data
  <2>2. job'.moves = job.moves /\ job'.ends = job.ends
    BY <1>0, <2>1 DEF TypeOK, JobType
  <2>3. gc'.position = gc.position
    BY <1>0, <2>1 DEF TypeOK, GcState
  <2>4. Planned' = Planned
    BY <2>1 DEF Planned
  <2> QED BY <1>0, <2>1, <2>2, <2>3, <2>4
<1>9. CASE MoveBeyond
  BY <1>9 DEF MoveBeyond, Alarm
<1>10. CASE PlanMove
  <2>1. /\ pc = "move" /\ job.moves # <<>> /\ ~abort /\ state # "CHECK_MODE"
        /\ job' = [job EXCEPT !.moves = Tail(@)] /\ UNCHANGED <<gc, abort, pc>>
    BY <1>10 DEF PlanMove
  <2>2. job'.moves = Tail(job.moves) /\ job'.ends = job.ends
    BY <1>0, <2>1 DEF TypeOK, JobType
  <2>3. job.ends = {Last(job.moves).target}
    BY <1>0, <2>1
  <2>4. /\ Planned' = Head(job.moves).target
        /\ Tail(job.moves) = <<>> => Last(job.moves) = Head(job.moves)
        /\ Tail(job.moves) # <<>> => Last(Tail(job.moves)) = Last(job.moves)
    BY <1>0, <1>10, PlannedMove
  <2> QED BY <2>1, <2>2, <2>3, <2>4
<1>11. CASE SkipMove
  <2>1. abort \/ state = "CHECK_MODE"
    BY <1>11 DEF SkipMove
  <2> QED BY <1>11, <2>1 DEF SkipMove
<1>12. ASSUME NEW p, LineOver(p), Planned' = p PROVE Position'
  <2>1. gc'.position = p
    BY <1>0, <1>12 DEF LineOver, TypeOK, GcState
  <2> QED BY <1>12, <2>1 DEF LineOver
<1>13. CASE ProbeBegin
  <2>1. /\ pc = "probe" /\ ~abort /\ queue' = job.moves /\ state' = "CYCLE" /\ pc' = "probing"
        /\ UNCHANGED <<machine, abort, job>>
    BY <1>13 DEF ProbeBegin
  <2>2. job.moves # <<>> /\ state # "CHECK_MODE"
    BY <1>0, <2>1 DEF JobOK
  <2>3. job.ends = {Last(job.moves).target}
    BY <1>0, <2>1, <2>2
  <2>4. Planned' = Last(job.moves).target
    BY <2>1, <2>2 DEF Planned
  <2> QED BY <2>1, <2>3, <2>4
<1>14. CASE ProbeTouching
  <2>1. pc = "probe" /\ ~abort /\ LineOver(gc.position) /\ UNCHANGED <<queue, machine>>
    BY <1>14 DEF ProbeTouching
  <2>2. state # "CHECK_MODE"
    BY <1>0, <2>1 DEF JobOK
  <2>3. Planned' = gc.position
    BY <1>0, <2>1, <2>2 DEF Planned
  <2> QED BY <1>12, <2>1, <2>3
<1>15. CASE ProbeBeyond
  BY <1>15 DEF ProbeBeyond, Alarm
<1>16. CASE ProbeContact
  <2>1. LineOver(machine') /\ queue' = <<>>
    BY <1>16 DEF ProbeContact
  <2> QED BY <1>12, <2>1 DEF Planned
<1>17. CASE ProbeMissed
  <2> DEFINE p == CHOOSE p \in job.ends : TRUE
  <2>1. /\ pc = "probing" /\ ~abort /\ state = "IDLE" /\ LineOver(p) /\ UNCHANGED <<queue, machine>>
    BY <1>17 DEF ProbeMissed
  <2>2. job.ends = {Planned}
    BY <1>0, <2>1
  <2>3. p = Planned
    BY <2>2
  <2>4. Planned' = Planned
    BY <2>1 DEF Planned
  <2> HIDE DEF p
  <2> QED BY <1>12, <2>1, <2>3, <2>4
<1>18. CASE ProbeAborted
  BY <1>18 DEF ProbeAborted
<1>19. CASE LineDone
  <2> SUFFICES ASSUME ~abort', state' # "CHECK_MODE" PROVE Position'
    OBVIOUS
  <2> DEFINE p == IF job.ends = {} THEN gc.position ELSE CHOOSE p \in job.ends : TRUE
  <2>1. /\ pc = "move" /\ job.moves = <<>> /\ LineOver(p) /\ ~abort /\ state # "CHECK_MODE"
        /\ UNCHANGED <<queue, machine>>
    BY <1>19 DEF LineDone
  <2>2. job.ends = {Planned} \/ (job.ends = {} /\ gc.position = Planned)
    BY <1>0, <2>1
  <2>3. p = Planned
    BY <2>2
  <2>4. Planned' = Planned
    BY <2>1 DEF Planned
  <2> HIDE DEF p
  <2>5. Planned' = p
    BY <2>3, <2>4
  <2> QED BY ONLY <1>12, <2>1, <2>5
<1>20. CASE CycleStart
  BY <1>0, <1>20 DEF CycleStart, Planned
<1>21. CASE Run
  <2>1. Planned' = Planned
    BY <1>0, <1>21, PlannedRun
  <2> QED BY <1>0, <1>21, <2>1 DEF Run
<1>22. CASE CycleStop
  <2>1. state # "CHECK_MODE" /\ ~abort
    BY <1>0, <1>22 DEF CycleStop, Polls, JobOK
  <2> QED BY <1>0, <1>22, <2>1 DEF CycleStop, Planned
<1>23. CASE JogCancel
  <2>1. /\ state = "JOG" /\ ~abort /\ queue' = <<>> /\ gc' = [gc EXCEPT !.position = machine']
        /\ UNCHANGED <<abort, pc, job>> /\ (pc = "move" => job.moves # <<>>)
    BY <1>23 DEF JogCancel, Polls
  <2>2. gc'.position = machine' /\ Planned' = machine'
    BY <1>0, <2>1 DEF TypeOK, GcState, Planned
  <2>3. pc # "probing"
    BY <1>0, <2>1 DEF JobOK
  <2> QED BY <1>0, <2>1, <2>2, <2>3
<1>24. CASE Reset
  BY <1>24 DEF Reset
<1>25. CASE Reinit
  <2>1. /\ pc = "ready" /\ gc' = FreshGc(stored'[0], machine) /\ queue' = <<>>
        /\ UNCHANGED <<machine, pc, job>>
    BY <1>25 DEF Reinit
  <2>2. gc'.position = machine /\ Planned' = machine
    BY <2>1 DEF FreshGc, Planned
  <2> QED BY <2>1, <2>2
<1>26. CASE PowerLoss
  BY <1>26 DEF PowerLoss
<1> QED
  BY <1>1, <1>2, <1>3, <1>4, <1>5, <1>6, <1>7, <1>8, <1>9, <1>10, <1>11, <1>13, <1>14, <1>15, <1>16,
     <1>17, <1>18, <1>19, <1>20, <1>21, <1>22, <1>23, <1>24, <1>25, <1>26
  DEF Next, FromHost, Motion, Probe, System, Interrupted

(* Only a write, another selection and a restart touch the offsets.        *)
LEMMA OffsetsStep == ASSUME IInv, [Next]_vars PROVE Offsets'
<1>0. TypeOK /\ JobOK /\ Offsets
  BY DEF IInv
<1> USE DEF Offsets
<1>1. CASE UNCHANGED vars
  BY <1>0, <1>1 DEF vars
<1>2. ASSUME NEW line \in Lines, AcceptLine(line) PROVE Offsets'
  <2> DEFINE b == Block(line)
  <2>1. /\ Accepted(line, b) /\ job' = JobOf(line, b) /\ pc = "ready"
        /\ gc' = (IF line.jog THEN gc ELSE NewGc(b))
        /\ pc' = IF ~line.jog /\ Synchronises(b) THEN "sync" ELSE "move"
        /\ UNCHANGED <<stored, abort>>
    BY <1>2 DEF AcceptLine, JobOf
  <2> HIDE DEF b
  <2>2. b = Block(line)
    BY DEF b
  <2> SUFFICES ASSUME ~abort PROVE Offsets'
    BY <2>1
  <2>3. gc.coord_system = stored[gc.modal.coord_select]
    BY <1>0, <2>1, NoJobType DEF JobOK
  <2>4. BaseOf(b) = stored[b.modal.coord_select]
    BY <1>0, <2>2, <2>3, BlockReads, BaseOfSelected DEF TypeOK, BaseOf
  <2>5. NewGc(b).modal = b.modal /\ NewGc(b).coord_system = BaseOf(b)
    BY <1>0, <2>1, <2>2, AcceptedGc
  <2>6. gc'.coord_system = stored'[gc'.modal.coord_select]
    BY <2>1, <2>3, <2>4, <2>5
  <2>7. ASSUME pc' = "sync", NEW i \in DOMAIN job'.writes
        PROVE  i = 1 /\ ((job'.writes[i][1] = gc'.modal.coord_select) <=> job'.active)
    <3>1. gc' = NewGc(b)
      BY <2>1, <2>7
    <3>2. /\ job'.writes = Written(b)
          /\ job'.active <=> b.non_modal = "G10" /\ Slot(b) = b.modal.coord_select
      <4>1. /\ JobOf(line, b).writes = Written(b)
            /\ JobOf(line, b).active <=> b.non_modal = "G10" /\ Slot(b) = b.modal.coord_select
        BY <1>0, <2>1, <2>2, JobOfType
      <4> QED BY ONLY <2>1, <4>1
    <3>3. /\ i = 1 /\ Written(b)[i][1] = Slot(b)
          /\ b.non_modal # "G10" => Slot(b) \in {G28Slot, G30Slot}
      BY <1>0, <2>1, <2>2, <2>7, <3>2, AcceptedWrites
    <3>4. b.modal.coord_select \notin {G28Slot, G30Slot}
      BY <1>0, <2>2, BlockReads, Constants DEF BlockType, Modes
    <3> QED BY <2>5, <3>1, <3>2, <3>3, <3>4
  <2> QED BY <2>1, <2>6, <2>7
<1>3. ASSUME NEW line \in Lines, RefuseLine(line) PROVE Offsets'
  <2> DEFINE s == CHOOSE s \in Repaired(gc, Block(line), stored) : TRUE
  <2>1. job' = [NoJob EXCEPT !.writes = << <<s, Zero>> >>] /\ pc = "ready"
        /\ UNCHANGED <<gc, stored, abort>> /\ s \in Repaired(gc, Block(line), stored)
    BY <1>3 DEF RefuseLine
  <2> HIDE DEF s
  <2>2. stored[s] = Torn
    BY <1>0, <2>1, BlockReads, RepairedTorn DEF TypeOK
  <2>3. gc.coord_system # Torn
    BY <1>0, TornIsNone DEF TypeOK, GcState
  <2>4. ~abort => gc.coord_system = stored[gc.modal.coord_select] /\ s # gc.modal.coord_select
    BY <1>0, <2>1, <2>2, <2>3, NoJobType DEF JobOK
  <2>5. job'.writes = << <<s, Zero>> >> /\ job'.active = FALSE
    BY <2>1 DEF NoJob
  <2>6. \A i \in DOMAIN job'.writes : i = 1 /\ job'.writes[i][1] = s
    BY <2>5
  <2> QED BY <2>1, <2>4, <2>5, <2>6
<1>4. CASE RestoreParameters
  <2>1. job'.reset
    BY <1>4 DEF RestoreParameters, NoJob
  <2> QED BY <2>1
<1>5. CASE CheckMode
  BY <1>0, <1>5 DEF CheckMode
<1>6. CASE Unlock
  BY <1>0, <1>6 DEF Unlock
<1>7. CASE Sync
  BY <1>0, <1>7 DEF Sync
<1>8. CASE Store
  <2> DEFINE slot == Head(job.writes)[1]
             data == Head(job.writes)[2]
  <2>1. /\ pc = "store" /\ stored' = [stored EXCEPT ![slot] = data]
        /\ gc' = IF job.active THEN [gc EXCEPT !.coord_system = data] ELSE gc
        /\ job' = [job EXCEPT !.writes = Tail(@)] /\ UNCHANGED abort
    BY <1>8 DEF Store
  <2>2. job.writes # <<>> /\ job.writes \in Seq(Write)
    BY <1>0, <2>1 DEF JobOK, TypeOK, JobType
  <2>3. Head(job.writes) = job.writes[1] /\ 1 \in DOMAIN job.writes /\ slot \in Slots
    BY <2>2, LastTail DEF Write
  <2>4. job'.reset = job.reset /\ job'.active = job.active /\ job'.writes = Tail(job.writes)
    BY <1>0, <2>1 DEF TypeOK, JobType
  <2> SUFFICES ASSUME ~abort, ~job.reset PROVE Offsets'
    BY <2>1, <2>4
  <2>5. (slot = gc.modal.coord_select) <=> job.active
    BY <1>0, <2>1, <2>3
  <2>6. \A i \in DOMAIN job.writes : i = 1
    BY <1>0, <2>1
  <2>7. DOMAIN job'.writes = {}
    <3>1. PICK w \in Seq(Write) : w = job.writes
      BY <2>2
    <3>2. w # <<>> /\ \A i \in DOMAIN w : i = 1
      BY <2>2, <2>6, <3>1
    <3>3. Len(w) <= 1
      <4> SUFFICES ASSUME Len(w) > 1 PROVE FALSE
        OBVIOUS
      <4> 2 \in DOMAIN w
        OBVIOUS
      <4> QED BY <3>2
    <3>4. DOMAIN Tail(w) = {}
      BY <3>2, <3>3
    <3> QED BY <2>4, <3>1, <3>4
  <2>8. gc.coord_system = stored[gc.modal.coord_select]
    BY <1>0
  <2> HIDE DEF slot, data
  <2>9. gc'.modal = gc.modal /\ gc'.coord_system = IF job.active THEN data ELSE gc.coord_system
    BY <1>0, <2>1 DEF TypeOK, GcState
  <2>10. gc.modal.coord_select \in Slots
    BY <1>0, Constants DEF TypeOK, GcState, Modes
  <2>11. gc'.coord_system = stored'[gc'.modal.coord_select]
    BY <1>0, <2>1, <2>3, <2>5, <2>8, <2>9, <2>10 DEF TypeOK, Records
  <2> QED BY <2>7, <2>11
<1>9. CASE MoveBeyond
  BY <1>9 DEF MoveBeyond, Alarm
<1>10. CASE PlanMove
  <2>1. pc = "move" /\ job'.reset = job.reset /\ UNCHANGED <<gc, stored, abort, pc>>
    BY <1>0, <1>10 DEF PlanMove, TypeOK, JobType
  <2> QED BY <1>0, <2>1
<1>11. CASE SkipMove
  <2>1. pc = "move" /\ job'.reset = job.reset /\ UNCHANGED <<gc, stored, abort, pc>>
    BY <1>0, <1>11 DEF SkipMove, TypeOK, JobType
  <2> QED BY <1>0, <2>1
<1>12. ASSUME NEW p, LineOver(p), ~abort' => ~abort /\ ~job.reset PROVE Offsets'
  <2>1. gc'.modal = gc.modal /\ gc'.coord_system = gc.coord_system
        /\ stored' = stored /\ pc' = "ready"
    BY <1>0, <1>12 DEF LineOver, TypeOK, GcState
  <2> QED BY <1>0, <1>12, <2>1
<1>13. CASE ProbeBegin
  BY <1>0, <1>13 DEF ProbeBegin
<1>14. CASE ProbeTouching
  BY <1>0, <1>12, <1>14 DEF ProbeTouching, JobOK
<1>15. CASE ProbeBeyond
  BY <1>15 DEF ProbeBeyond, Alarm
<1>16. CASE ProbeContact
  BY <1>0, <1>12, <1>16 DEF ProbeContact, JobOK
<1>17. CASE ProbeMissed
  BY <1>0, <1>12, <1>17 DEF ProbeMissed, JobOK
<1>18. CASE ProbeAborted
  BY <1>18 DEF ProbeAborted
<1>19. CASE LineDone
  BY <1>0, <1>12, <1>19 DEF LineDone
<1>20. CASE CycleStart
  BY <1>0, <1>20 DEF CycleStart
<1>21. CASE Run
  BY <1>0, <1>21 DEF Run
<1>22. CASE CycleStop
  BY <1>0, <1>22 DEF CycleStop
<1>23. CASE JogCancel
  <2>1. gc'.modal = gc.modal /\ gc'.coord_system = gc.coord_system
    BY <1>0, <1>23 DEF JogCancel, TypeOK, GcState
  <2> QED BY <1>0, <1>23, <2>1 DEF JogCancel
<1>24. CASE Reset
  BY <1>24 DEF Reset
<1>25. CASE Reinit
  <2>1. gc' = FreshGc(stored'[0], machine) /\ pc = "ready" /\ pc' = pc
    BY <1>25 DEF Reinit
  <2>2. gc'.coord_system = stored'[0] /\ gc'.modal.coord_select = 0
    BY <2>1 DEF FreshGc, DefaultModes
  <2> QED BY <2>1, <2>2
<1>26. CASE PowerLoss
  BY <1>26 DEF PowerLoss
<1> QED
  BY <1>1, <1>2, <1>3, <1>4, <1>5, <1>6, <1>7, <1>8, <1>9, <1>10, <1>11, <1>13, <1>14, <1>15, <1>16,
     <1>17, <1>18, <1>19, <1>20, <1>21, <1>22, <1>23, <1>24, <1>25, <1>26
  DEF Next, FromHost, Motion, Probe, System, Interrupted

(* A line's own position does not change while its write waits.            *)
LEMMA HomesStep == ASSUME IInv, [Next]_vars PROVE Homes'
<1>0. TypeOK /\ JobOK /\ Homes
  BY DEF IInv
<1> USE DEF Homes
<1>1. CASE UNCHANGED vars
  BY <1>0, <1>1 DEF vars
<1>2. ASSUME NEW line \in Lines, AcceptLine(line) PROVE Homes'
  <2> DEFINE b == Block(line)
  <2>1. Accepted(line, b) /\ job' = JobOf(line, b) /\ gc' \in {gc, NewGc(b)}
    BY <1>2 DEF AcceptLine, JobOf
  <2> HIDE DEF b
  <2>2. b = Block(line)
    BY DEF b
  <2>3. gc'.position = gc.position
    BY <1>0, <2>1, <2>2, AcceptedGc
  <2>4. job'.writes = Written(b)
    BY <1>0, <2>1, <2>2, JobOfType
  <2>5. \A i \in DOMAIN Written(b) :
          Written(b)[i][1] \in {G28Slot, G30Slot} => Written(b)[i][2] = gc.position
    BY <1>0, <2>1, <2>2, AcceptedWrites
  <2> QED BY <2>3, <2>4, <2>5
<1>3. ASSUME NEW line \in Lines, RefuseLine(line) PROVE Homes'
  <2>1. job'.line = NoLine
    BY <1>3 DEF RefuseLine, NoJob
  <2> QED BY <2>1
<1>4. CASE RestoreParameters
  <2>1. job'.line = NoLine
    BY <1>4 DEF RestoreParameters, NoJob
  <2> QED BY <2>1
<1>5. CASE CheckMode
  BY <1>0, <1>5 DEF CheckMode
<1>6. CASE Unlock
  BY <1>0, <1>6 DEF Unlock
<1>7. CASE Sync
  BY <1>0, <1>7 DEF Sync
<1>8. CASE Store
  <2> DEFINE data == Head(job.writes)[2]
  <2>1. /\ pc = "store" /\ gc' \in {gc, [gc EXCEPT !.coord_system = data]}
        /\ job' = [job EXCEPT !.writes = Tail(@)] /\ UNCHANGED abort
    BY <1>8 DEF Store
  <2> HIDE DEF data
  <2>2. gc'.position = gc.position
    BY <1>0, <2>1 DEF TypeOK, GcState
  <2>3. job'.line = job.line /\ job'.writes = Tail(job.writes)
    BY <1>0, <2>1 DEF TypeOK, JobType
  <2>4. job.writes # <<>> /\ job.writes \in Seq(Write)
    BY <1>0, <2>1 DEF JobOK, TypeOK, JobType
  <2>5. \A i \in DOMAIN Tail(job.writes) :
          i + 1 \in DOMAIN job.writes /\ Tail(job.writes)[i] = job.writes[i + 1]
    BY <2>4
  <2> QED BY <1>0, <2>1, <2>2, <2>3, <2>5
<1>9. CASE MoveBeyond
  BY <1>9 DEF MoveBeyond, Alarm
<1>10. CASE PlanMove
  BY <1>10 DEF PlanMove
<1>11. CASE SkipMove
  BY <1>11 DEF SkipMove
<1>13. CASE ProbeBegin
  BY <1>13 DEF ProbeBegin
<1>14. CASE ProbeTouching
  BY <1>14 DEF ProbeTouching, LineOver
<1>15. CASE ProbeBeyond
  BY <1>15 DEF ProbeBeyond, Alarm
<1>16. CASE ProbeContact
  BY <1>16 DEF ProbeContact, LineOver
<1>17. CASE ProbeMissed
  BY <1>17 DEF ProbeMissed, LineOver
<1>18. CASE ProbeAborted
  BY <1>18 DEF ProbeAborted, LineOver
<1>19. CASE LineDone
  BY <1>19 DEF LineDone, LineOver
<1>20. CASE CycleStart
  BY <1>0, <1>20 DEF CycleStart
<1>21. CASE Run
  BY <1>0, <1>21 DEF Run
<1>22. CASE CycleStop
  BY <1>0, <1>22 DEF CycleStop
<1>23. CASE JogCancel
  <2>1. pc \in {"sync", "store"} /\ ~abort => job.line = NoLine
    BY <1>0, <1>23 DEF JogCancel, JobOK
  <2> QED BY <1>23, <2>1 DEF JogCancel
<1>24. CASE Reset
  BY <1>24 DEF Reset
<1>25. CASE Reinit
  BY <1>25 DEF Reinit
<1>26. CASE PowerLoss
  BY <1>26 DEF PowerLoss
<1> QED
  BY <1>1, <1>2, <1>3, <1>4, <1>5, <1>6, <1>7, <1>8, <1>9, <1>10, <1>11, <1>13, <1>14, <1>15, <1>16,
     <1>17, <1>18, <1>19, <1>20, <1>21, <1>22, <1>23, <1>24, <1>25, <1>26
  DEF Next, FromHost, Motion, Probe, System, Interrupted

-----------------------------------------------------------------------------
(* Where a line ends.                                                      *)

(* What is left of the line will take the parser to this position, and the *)
(* work offsets to this record.                                            *)
EndPosition(g, j) == IF j.ends = {} THEN g.position ELSE CHOOSE p \in j.ends : TRUE
EndSystem(g, j) == IF j.active /\ j.writes # <<>> THEN j.writes[1][2] ELSE g.coord_system

(* There the axes of a line that sets or goes to a work position have the  *)
(* values of the line.                                                     *)
Arrives(g, j) ==
  LET b == Parse(g, j.line) IN
  SetsPosition(b) =>
    \A a \in AxisWords(b) :
      EndPosition(g, j)[a] - EndSystem(g, j)[a] - g.coord_offset[a] = InMm(b, b.value[a])

(* So it is from the moment the line is accepted, and no jog cancel can    *)
(* move the parser before it is done.                                      *)
Commanded ==
  pc # "ready" /\ ~abort /\ job.line # NoLine /\ ~job.line.jog =>
    /\ state # "JOG"
    /\ \A i \in DOMAIN job.writes : i = 1
    /\ pc = "move" => job.writes = <<>>
    /\ Arrives(gc, job)

(* An offset to be set excludes a motion.                                  *)
LEMMA SettingOffsets ==
  ASSUME TypeOK, NEW line \in Lines, NEW b, b = Block(line), Accepted(line, b),
         b.non_modal \in AxisNonModal
  PROVE  ~HasMotion(b)
<1>1. ~b.refused
  BY DEF Accepted, Refused, RefusedFirst
<1>2. NoMotion(b)
  BY ParseNoMotion, LinesAssumption DEF Block, TypeOK
<1> QED
  BY <1>1, <1>2 DEF NoMotion, HasMotion

(* A line that waits for the planner is the only one that writes.          *)
LEMMA AcceptedWaits ==
  ASSUME NEW b, Written(b) # <<>>
  PROVE  Synchronises(b)
BY DEF Written, Synchronises

(* An accepted line will arrive.                                           *)
LEMMA AcceptedArrives ==
  ASSUME TypeOK, NEW line \in Lines, NEW b, b = Block(line), Accepted(line, b), ~line.jog
  PROVE  Arrives(NewGc(b), JobOf(line, b))
<1> DEFINE g == NewGc(b)
           j == JobOf(line, b)
<1>1. /\ gc \in GcState /\ b \in BlockType /\ g \in GcState
      /\ g.modal = b.modal /\ g.position = gc.position /\ g.coord_system = BaseOf(b)
  BY BlockReads, AcceptedGc DEF TypeOK
<1>2. Parse(g, line) = b
  <2> HIDE DEF g
  <2>1. b = Parse(gc, line) /\ line \in [jog : BOOLEAN, words : Seq(Word)]
    BY LinesAssumption DEF Block
  <2> QED BY <1>1, <2>1, ParseAgain
<1>3. /\ j.line = line /\ j.writes = Written(b) /\ j.ends = Ends(b)
      /\ j.active <=> b.non_modal = "G10" /\ Slot(b) = b.modal.coord_select
  BY JobOfType
<1>4. g.coord_offset = CASE b.non_modal = "G92" -> NewOffset(gc, b, BaseOf(b))
                         [] b.non_modal = "G92.1" -> Zero
                         [] OTHER -> gc.coord_offset
  BY <1>1 DEF NewGc, GcState
<1>5. ~b.jog
  BY BlockReads
<1> HIDE DEF g, j
<1> SUFFICES ASSUME SetsPosition(b), NEW a \in AxisWords(b)
             PROVE  EndPosition(g, j)[a] - EndSystem(g, j)[a] - g.coord_offset[a] = InMm(b, b.value[a])
  BY <1>2, <1>3 DEF Arrives, g, j
<1>6. a \in Axes /\ a \in b.words
  BY DEF AxisWords
<1>7. /\ BaseOf(b)[a] \in Int /\ gc.position[a] \in Int /\ gc.coord_offset[a] \in Int
      /\ InMm(b, b.value[a]) \in Int
  <2>1. BaseOf(b) \in Vector
    BY AcceptedValues
  <2> QED BY <1>1, <1>6, <2>1, ValueType, Constants DEF GcState, Vector
<1>8. CASE b.non_modal = "G92"
  <2>1. Ends(b) = {}
    BY <1>5, <1>8, SettingOffsets DEF Ends, GoesHome, AxisNonModal
  <2>2. EndPosition(g, j) = gc.position /\ EndSystem(g, j) = BaseOf(b)
    BY <1>1, <1>3, <1>8, <2>1 DEF EndPosition, EndSystem
  <2>3. g.coord_offset[a] = gc.position[a] - BaseOf(b)[a] - InMm(b, b.value[a])
    BY <1>4, <1>6, <1>8 DEF NewOffset
  <2> QED BY <1>7, <2>2, <2>3
<1>9. CASE b.non_modal = "G10" /\ b.value["L"] = 20 /\ Slot(b) = b.modal.coord_select
  <2>1. Ends(b) = {}
    BY <1>5, <1>9, SettingOffsets DEF Ends, GoesHome, AxisNonModal
  <2>2. Written(b) = << <<Slot(b), NewCoord(gc, b, stored)>> >>
    BY <1>9 DEF Written, WritesSlot
  <2>3. EndPosition(g, j) = gc.position /\ EndSystem(g, j) = NewCoord(gc, b, stored)
    BY <1>1, <1>3, <1>9, <2>1, <2>2 DEF EndPosition, EndSystem
  <2>4. NewCoord(gc, b, stored)[a] = gc.position[a] - gc.coord_offset[a] - InMm(b, b.value[a])
    BY <1>6, <1>9 DEF NewCoord
  <2>5. g.coord_offset = gc.coord_offset
    BY <1>4, <1>9
  <2> QED BY <1>7, <2>3, <2>4, <2>5
<1>10. CASE /\ HasMotion(b) /\ b.modal.motion \notin Probes /\ b.modal.distance = "G90"
            /\ b.non_modal \notin {"G53", "G92.1"}
  <2>1. b.non_modal \notin AxisNonModal
    BY <1>10, SettingOffsets
  <2>2. Ends(b) = {TargetOf(b)}
    BY <1>10, <2>1 DEF Ends, GoesHome, AxisNonModal
  <2>3. EndPosition(g, j) = TargetOf(b) /\ EndSystem(g, j) = BaseOf(b)
    BY <1>1, <1>3, <2>1, <2>2 DEF EndPosition, EndSystem, AxisNonModal
  <2>4. TargetOf(b)[a] = InMm(b, b.value[a]) + BaseOf(b)[a] + gc.coord_offset[a]
    BY <1>6, <1>10 DEF TargetOf, Target
  <2>5. g.coord_offset = gc.coord_offset
    BY <1>4, <1>10, <2>1 DEF AxisNonModal
  <2> QED BY <1>7, <2>3, <2>4, <2>5
<1> QED
  BY <1>8, <1>9, <1>10 DEF SetsPosition

(* The block of a line depends on the parser's modes only.                 *)
LEMMA ParseModes ==
  ASSUME NEW g, NEW h, NEW line, g.modal = h.modal
  PROVE  Parse(h, line) = Parse(g, line)
<1>1. FreshBlock(h, line.jog) = FreshBlock(g, line.jog)
  BY DEF FreshBlock
<1> QED
  BY <1>1 DEF Parse

(* What is written is then in use.                                         *)
LEMMA StoreArrives ==
  ASSUME TypeOK, JobOK, Store, Arrives(gc, job), \A i \in DOMAIN job.writes : i = 1
  PROVE  Arrives(gc', job') /\ job'.writes = <<>> /\ job'.line = job.line
<1> DEFINE slot == Head(job.writes)[1]
           data == Head(job.writes)[2]
<1>1. /\ pc = "store" /\ job' = [job EXCEPT !.writes = Tail(@)]
      /\ gc' = IF job.active THEN [gc EXCEPT !.coord_system = data] ELSE gc
  BY DEF Store
<1>2. job.writes # <<>> /\ job.writes \in Seq(Write)
  BY <1>1 DEF JobOK, TypeOK, JobType
<1>3. data = job.writes[1][2]
  BY <1>2
<1>4. Tail(job.writes) = <<>>
  <2>1. PICK w \in Seq(Write) : w = job.writes
    BY <1>2
  <2>2. w # <<>> /\ \A i \in DOMAIN w : i = 1
    BY <1>2, <2>1
  <2>3. Len(w) <= 1
    <3> SUFFICES ASSUME Len(w) > 1 PROVE FALSE
      OBVIOUS
    <3> 2 \in DOMAIN w
      OBVIOUS
    <3> QED BY <2>2
  <2>4. Tail(w) = <<>>
    BY <2>2, <2>3
  <2> QED BY <2>1, <2>4
<1> HIDE DEF slot, data
<1>5. /\ job'.writes = <<>> /\ job'.line = job.line /\ job'.ends = job.ends
      /\ job'.active = job.active
  BY <1>1, <1>4 DEF TypeOK, JobType
<1>6. /\ gc'.modal = gc.modal /\ gc'.position = gc.position /\ gc'.coord_offset = gc.coord_offset
      /\ gc'.coord_system = IF job.active THEN data ELSE gc.coord_system
  BY <1>1 DEF TypeOK, GcState
<1>7. EndPosition(gc', job') = EndPosition(gc, job)
  BY <1>5, <1>6 DEF EndPosition
<1>8. EndSystem(gc', job') = EndSystem(gc, job)
  BY <1>2, <1>3, <1>5, <1>6 DEF EndSystem
<1>9. Parse(gc', job'.line) = Parse(gc, job.line)
  BY <1>5, <1>6, ParseModes
<1>10. Arrives(gc', job')
  BY <1>6, <1>7, <1>8, <1>9 DEF Arrives
<1> QED
  BY <1>5, <1>10

(* Planning a move does not change where the line ends.                    *)
LEMMA MoveArrives ==
  ASSUME TypeOK, job' = [job EXCEPT !.moves = Tail(@)], gc' = gc
  PROVE  /\ job'.line = job.line /\ job'.writes = job.writes
         /\ Arrives(gc, job) => Arrives(gc', job')
<1>1. /\ job'.line = job.line /\ job'.writes = job.writes /\ job'.ends = job.ends
      /\ job'.active = job.active
  BY DEF TypeOK, JobType
<1> QED
  BY <1>1 DEF Arrives, EndPosition, EndSystem

(* Every step keeps a line on its way.                                     *)
LEMMA CommandedStep == ASSUME IInv, Commanded, [Next]_vars PROVE Commanded'
<1>0. TypeOK /\ JobOK /\ Commanded
  BY DEF IInv
<1> USE DEF Commanded
<1>1. CASE UNCHANGED vars
  BY <1>0, <1>1 DEF vars
<1>2. ASSUME NEW line \in Lines, AcceptLine(line) PROVE Commanded'
  <2> DEFINE b == Block(line)
  <2>1. /\ Accepted(line, b) /\ job' = JobOf(line, b) /\ Unlocked(line)
        /\ gc' = (IF line.jog THEN gc ELSE NewGc(b))
        /\ pc' = (IF ~line.jog /\ Synchronises(b) THEN "sync" ELSE "move")
        /\ UNCHANGED <<state, abort>>
    BY <1>2 DEF AcceptLine, JobOf
  <2> HIDE DEF b
  <2>2. b = Block(line)
    BY DEF b
  <2>3. job'.line = line /\ job'.writes = Written(b)
    BY <1>0, <2>1, <2>2, JobOfType
  <2> SUFFICES ASSUME ~line.jog
               PROVE  /\ state' # "JOG" /\ \A i \in DOMAIN job'.writes : i = 1
                      /\ pc' = "move" => job'.writes = <<>>
                      /\ Arrives(gc', job')
    BY <2>3
  <2>4. state' # "JOG"
    BY <2>1 DEF Unlocked
  <2>5. \A i \in DOMAIN job'.writes : i = 1
    BY <1>0, <2>1, <2>2, <2>3, AcceptedWrites
  <2>6. pc' = "move" => job'.writes = <<>>
    BY <2>1, <2>3, AcceptedWaits
  <2>7. Arrives(gc', job')
    BY <1>0, <2>1, <2>2, AcceptedArrives
  <2> QED BY <2>4, <2>5, <2>6, <2>7
<1>3. ASSUME NEW line \in Lines, RefuseLine(line) PROVE Commanded'
  <2>1. job'.line = NoLine
    BY <1>3 DEF RefuseLine, NoJob
  <2> QED BY <2>1
<1>4. CASE RestoreParameters
  <2>1. job'.line = NoLine
    BY <1>4 DEF RestoreParameters, NoJob
  <2> QED BY <2>1
<1>5. CASE CheckMode
  BY <1>0, <1>5 DEF CheckMode
<1>6. CASE Unlock
  BY <1>0, <1>6 DEF Unlock
<1>7. CASE Sync
  BY <1>0, <1>7 DEF Sync
<1>8. CASE Store
  <2>1. pc = "store" /\ UNCHANGED <<state, abort>>
    BY <1>8 DEF Store
  <2> SUFFICES ASSUME ~abort, job'.line # NoLine, ~job'.line.jog
               PROVE  /\ state # "JOG" /\ \A i \in DOMAIN job'.writes : i = 1
                      /\ job'.writes = <<>> /\ Arrives(gc', job')
    BY <2>1
  <2>2. job'.line = job.line
    BY <1>0, <1>8 DEF Store, TypeOK, JobType
  <2>3. state # "JOG" /\ Arrives(gc, job) /\ \A i \in DOMAIN job.writes : i = 1
    BY <1>0, <2>1, <2>2
  <2>4. Arrives(gc', job') /\ job'.writes = <<>>
    BY <1>0, <1>8, <2>3, StoreArrives
  <2> QED BY <2>3, <2>4
<1>9. CASE MoveBeyond
  BY <1>9 DEF MoveBeyond, Alarm
<1>10. CASE PlanMove
  <2>1. /\ pc = "move" /\ state' = (IF job.line.jog /\ state = "IDLE" /\ queue' # <<>> THEN "JOG" ELSE state)
        /\ job' = [job EXCEPT !.moves = Tail(@)] /\ UNCHANGED <<gc, abort, pc>>
    BY <1>10 DEF PlanMove
  <2>2. job'.line = job.line /\ job'.writes = job.writes /\ (Arrives(gc, job) => Arrives(gc', job'))
    BY <1>0, <2>1, MoveArrives
  <2> QED BY <1>0, <2>1, <2>2
<1>11. CASE SkipMove
  <2>1. job' = [job EXCEPT !.moves = Tail(@)] /\ UNCHANGED <<gc, state, abort, pc>>
    BY <1>11 DEF SkipMove
  <2>2. job'.line = job.line /\ job'.writes = job.writes /\ (Arrives(gc, job) => Arrives(gc', job'))
    BY <1>0, <2>1, MoveArrives
  <2> QED BY <1>0, <2>1, <2>2
<1>13. CASE ProbeBegin
  BY <1>0, <1>13 DEF ProbeBegin
<1>14. CASE ProbeTouching
  BY <1>14 DEF ProbeTouching, LineOver
<1>15. CASE ProbeBeyond
  BY <1>15 DEF ProbeBeyond, Alarm
<1>16. CASE ProbeContact
  BY <1>16 DEF ProbeContact, LineOver
<1>17. CASE ProbeMissed
  BY <1>17 DEF ProbeMissed, LineOver
<1>18. CASE ProbeAborted
  BY <1>18 DEF ProbeAborted, LineOver
<1>19. CASE LineDone
  BY <1>19 DEF LineDone, LineOver
<1>20. CASE CycleStart
  BY <1>0, <1>20 DEF CycleStart
<1>21. CASE Run
  BY <1>0, <1>21 DEF Run
<1>22. CASE CycleStop
  BY <1>0, <1>22 DEF CycleStop
<1>23. CASE JogCancel
  <2>1. state = "JOG" /\ UNCHANGED <<abort, pc, job>>
    BY <1>23 DEF JogCancel
  <2> QED BY <1>0, <2>1
<1>24. CASE Reset
  BY <1>24 DEF Reset
<1>25. CASE Reinit
  BY <1>25 DEF Reinit
<1>26. CASE PowerLoss
  BY <1>26 DEF PowerLoss
<1> QED
  BY <1>1, <1>2, <1>3, <1>4, <1>5, <1>6, <1>7, <1>8, <1>9, <1>10, <1>11, <1>13, <1>14, <1>15, <1>16,
     <1>17, <1>18, <1>19, <1>20, <1>21, <1>22, <1>23, <1>24, <1>25, <1>26
  DEF Next, FromHost, Motion, Probe, System, Interrupted

-----------------------------------------------------------------------------
(* The theorems.                                                           *)

(* It holds at the start.                                                  *)
LEMMA InitInv == Init => IInv
<1> SUFFICES ASSUME Init PROVE IInv
  OBVIOUS
<1>1. /\ gc = FreshGc(Zero, Zero) /\ stored = [s \in Slots |-> Zero]
      /\ queue = <<>> /\ machine = Zero /\ state = "IDLE" /\ stopped = FALSE
      /\ abort = FALSE /\ pc = "ready" /\ job = NoJob
  BY DEF Init
<1>2. Zero \in Vector /\ 0 \in Slots
  BY Constants
<1>3. /\ gc \in GcState /\ gc.coord_system = Zero /\ gc.position = Zero
      /\ gc.modal.coord_select = 0
  BY <1>1, <1>2, FreshGcType
<1>4. TypeOK
  <2>1. stored \in Records /\ queue \in Seq(Move)
    BY <1>1, <1>2 DEF Records
  <2> QED BY <1>1, <1>2, <1>3, <2>1, NoJobType DEF TypeOK
<1>5. JobOK /\ Homes
  BY <1>1, NoJobType DEF JobOK, Homes
<1>6. Position
  BY <1>1, <1>3 DEF Position, Planned
<1>7. Offsets
  BY <1>1, <1>2, <1>3 DEF Offsets
<1> QED
  BY <1>4, <1>5, <1>6, <1>7 DEF IInv

(* The inductive invariant holds in every reachable state.                 *)
THEOREM Invariance == Spec => []IInv
<1>1. IInv /\ [Next]_vars => IInv'
  BY TypeStep, JobStep, PositionStep, OffsetsStep, HomesStep DEF IInv
<1> QED
  BY <1>1, InitInv, PTL DEF Spec

(* Whatever cuts a motion short - a jog cancel, a probe, an alarm, a reset *)
(* or a power loss - the next line starts from where the planner ends.     *)
THEOREM PositionAlwaysAgrees == Spec => []PositionAgrees
<1>1. IInv => PositionAgrees
  BY DEF IInv, Position, PositionAgrees
<1> QED
  BY <1>1, Invariance, PTL

(* The work offsets in use are the record of the selected system, also     *)
(* after a record was changed, repaired or torn by a power loss.           *)
THEOREM OffsetsAlwaysAgree == Spec => []OffsetsAgree
<1>1. IInv => OffsetsAgree
  BY DEF IInv, Offsets, OffsetsAgree
<1> QED
  BY <1>1, Invariance, PTL

(* The write of a home waits for the machine to stand at the position the  *)
(* parser has.                                                             *)
THEOREM HomesAreReached == Spec => HomeIsReached
<1> DEFINE Reached ==
      Store /\ ~abort /\ state # "CHECK_MODE" /\ job.line # NoLine =>
        \A s \in {G28Slot, G30Slot} : stored'[s] # stored[s] => stored'[s] = machine
<1>1. ASSUME IInv, Store, ~abort, state # "CHECK_MODE", job.line # NoLine,
             NEW s \in {G28Slot, G30Slot}, stored'[s] # stored[s]
      PROVE  stored'[s] = machine
  <2> DEFINE slot == Head(job.writes)[1]
             data == Head(job.writes)[2]
  <2>1. pc = "store" /\ stored' = [stored EXCEPT ![slot] = data] /\ TypeOK /\ JobOK
    BY <1>1 DEF Store, IInv
  <2>2. job.writes # <<>> /\ job.writes \in Seq(Write) /\ queue = <<>>
    BY <1>1, <2>1 DEF JobOK, TypeOK, JobType
  <2>3. Head(job.writes) = job.writes[1] /\ 1 \in DOMAIN job.writes
    BY <2>2
  <2>4. slot \in {G28Slot, G30Slot} => data = gc.position
    BY <1>1, <2>1, <2>3 DEF IInv, Homes
  <2>5. gc.position = machine
    BY <1>1, <2>1, <2>2 DEF IInv, Position, Planned
  <2> HIDE DEF slot, data
  <2>6. s = slot /\ stored'[s] = data
    BY <1>1, <2>1, Constants DEF TypeOK, Records
  <2> QED BY <1>1, <2>4, <2>5, <2>6
<1>2. IInv /\ [Next]_vars => [Reached]_vars
  BY <1>1
<1> QED
  BY <1>2, Invariance, PTL DEF Spec, HomeIsReached

(* A line that sets or goes to a work position ends there, whatever modes, *)
(* offsets and units it came to (gc_execute_line()): read again from the   *)
(* modes it left, it is the same block (ParseAgain), and the way it has to *)
(* go was right when it was accepted and is when it is done (Arrives).     *)
THEOREM WorkPositionsAreCommanded == Spec => WorkPositionIsCommanded
<1> DEFINE Done ==
      LineDone /\ ~abort /\ job.line # NoLine /\ ~job.line.jog =>
        LET b == Block(job.line) IN
        SetsPosition(b) =>
          \A a \in AxisWords(b) :
            gc'.position[a] - gc'.coord_system[a] - gc'.coord_offset[a] = InMm(b, b.value[a])
<1>1. Init => Commanded
  BY NoJobType DEF Init, Commanded
<1>2. IInv /\ Commanded /\ [Next]_vars => Commanded'
  BY CommandedStep
<1>3. ASSUME IInv, Commanded PROVE Done
  <2> SUFFICES ASSUME LineDone, ~abort, job.line # NoLine, ~job.line.jog, SetsPosition(Block(job.line)),
                      NEW a \in AxisWords(Block(job.line))
               PROVE  gc'.position[a] - gc'.coord_system[a] - gc'.coord_offset[a]
                        = InMm(Block(job.line), Block(job.line).value[a])
    OBVIOUS
  <2>1. pc = "move" /\ gc' = [gc EXCEPT !.position = EndPosition(gc, job)]
    BY DEF LineDone, LineOver, EndPosition
  <2>2. /\ gc'.position = EndPosition(gc, job) /\ gc'.coord_system = gc.coord_system
        /\ gc'.coord_offset = gc.coord_offset
    BY <1>3, <2>1 DEF IInv, TypeOK, GcState
  <2>3. job.writes = <<>> /\ Arrives(gc, job)
    BY <1>3, <2>1 DEF Commanded
  <2>4. EndSystem(gc, job) = gc.coord_system
    BY <2>3 DEF EndSystem
  <2> QED BY <2>2, <2>3, <2>4 DEF Arrives, Block
<1>4. IInv /\ Commanded /\ [Next]_vars => [Done]_vars
  BY <1>3
<1> QED
  BY <1>1, <1>2, <1>4, Invariance, PTL DEF Spec, WorkPositionIsCommanded

=============================================================================
