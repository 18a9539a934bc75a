------------------------------- MODULE Gcode --------------------------------
(***************************************************************************)
(* The g-code interpreter at work (gcode.c, jog.c, motion_control.c): the  *)
(* execution of accepted lines, the coordinate data in EEPROM, the planner *)
(* as a queue of moves, the machine, and what interrupts them: resets, jog *)
(* cancels and power losses.                                               *)
(*                                                                         *)
(* A line is checked in one step, waits for the queue to run empty where   *)
(* the code synchronises, writes its record, and plans its moves one by    *)
(* one.  Holds and overrides are left to RtExec, blocks to Planner.        *)
(***************************************************************************)
EXTENDS GcodeBlock

CONSTANTS
  Lines,      \* the lines the host sends
  MaxTravel,  \* settings.max_travel, the same for every axis; soft limits are on
  QueueSize,  \* moves the planner holds
  MaxOffset,  \* bound: no offset beyond this is asked for
  MaxLines,   \* bound: lines the host sends
  Garbage     \* what a record interrupted while written may hold and still be taken

ASSUME MachineAssumption ==
  /\ {MaxTravel, MaxOffset, MaxLines} \subseteq Nat /\ QueueSize \in Nat \ {0}
  /\ Garbage \subseteq Vector \cup {Torn}

ASSUME LinesAssumption == Lines \subseteq [jog : BOOLEAN, words : Seq(Word)]

VARIABLES
  gc,       \* gc_state
  stored,   \* the coordinate data in EEPROM
  queue,    \* the moves planned and not yet done
  machine,  \* sys_position
  state,    \* sys.state
  stopped,  \* EXEC_CYCLE_STOP is set and not yet seen
  abort,    \* sys.abort: on the way back to main()
  pc,       \* where the main program is
  job,      \* what is left to do of the line
  lines     \* lines sent so far

vars == <<gc, stored, queue, machine, state, stopped, abort, pc, job, lines>>

NoLine == [jog |-> FALSE, words |-> <<>>]

NoJob == [line |-> NoLine, writes |-> <<>>, active |-> FALSE, moves |-> <<>>,
          probe |-> FALSE, ends |-> {}, reset |-> FALSE]

DefaultModes == [motion |-> "G0", feed_rate |-> "G94", units |-> "G21",
                 distance |-> "G90", coord_select |-> 0]

(* gc_init() and gc_sync_position().                                       *)
FreshGc(system, position) ==
  [modal |-> DefaultModes, feed_rate |-> 0, position |-> position,
   coord_system |-> system, coord_offset |-> Zero]

Init ==
  /\ gc = FreshGc(Zero, Zero) /\ stored = [s \in Slots |-> Zero]
  /\ queue = <<>> /\ machine = Zero /\ state = "IDLE" /\ stopped = FALSE
  /\ abort = FALSE /\ pc = "ready" /\ job = NoJob /\ lines = 0

InTravel(target) == \A a \in Axes : target[a] \in -MaxTravel .. 0

(* Where the planner's last move ends.                                     *)
Planned == IF queue = <<>> THEN machine ELSE Last(queue).target

(* Where a motion may be stopped: at its start, on the way, at its end.    *)
Stops ==
  IF queue = <<>> \/ stopped \/ state \notin {"CYCLE", "JOG"} THEN {machine}
  ELSE LET end == Head(queue).target
       IN {machine, end, [a \in Axes |-> (machine[a] + end[a]) \div 2]}

-----------------------------------------------------------------------------
(* A line from the host.  G-code is locked out in ALARM and JOG, a jog in  *)
(* all states but IDLE and JOG.                                            *)

Unlocked(line) == IF line.jog THEN state \in {"IDLE", "JOG"} ELSE state \notin {"ALARM", "JOG"}

Block(line) == Parse(gc, line)
BaseOf(b) == Base(gc, b, stored)
TargetOf(b) == Target(gc, b, BaseOf(b))

HasMotion(b) == b.axis_command = "motion" /\ b.modal.motion # "G80" /\ AxisWords(b) # {}
GoesHome(b) == b.non_modal \in {"G28", "G30"}

(* A jog beyond the travel is an error, not an alarm.                      *)
Accepted(line, b) ==
  /\ ~Refused(gc, b, stored)
  /\ line.jog => InTravel(TargetOf(b))

(* The planner is emptied before a dwell, a write to EEPROM, a change of   *)
(* offsets and a probing cycle.                                            *)
ChangesOffsets(b) == SelectsOther(gc, b) \/ b.non_modal \in {"G92", "G92.1"}
Probing(b) == HasMotion(b) /\ b.modal.motion \in Probes /\ state # "CHECK_MODE"
Synchronises(b) ==
  \/ b.non_modal = "G4" /\ state # "CHECK_MODE"
  \/ ChangesOffsets(b) \/ WritesSlot(b) \/ Probing(b)

Written(b) ==
  IF ~WritesSlot(b) THEN <<>>
  ELSE << <<Slot(b), IF b.non_modal = "G10" THEN NewCoord(gc, b, stored) ELSE gc.position>> >>

Moves(b) ==
  LET move(target, rapid) ==
        [target |-> target, rapid |-> rapid, jog |-> b.jog]
      home == HomeTarget(gc, b, stored)
  IN IF GoesHome(b)
       THEN (IF AxisWords(b) = {} THEN <<>> ELSE <<move(TargetOf(b), TRUE)>>) \o <<move(home, TRUE)>>
     ELSE IF b.jog \/ (HasMotion(b) /\ b.modal.motion \notin Probes)
       THEN <<move(TargetOf(b), b.modal.motion = "G0")>>
     ELSE IF Probing(b) THEN <<move(TargetOf(b), FALSE)>> ELSE <<>>

(* Where the parser takes the tool to be after the line, if it moved.      *)
Ends(b) ==
  IF GoesHome(b) THEN {HomeTarget(gc, b, stored)}
  ELSE IF b.jog \/ HasMotion(b) THEN {TargetOf(b)} ELSE {}

NewGc(b) ==
  [gc EXCEPT
     !.modal = b.modal, !.feed_rate = Feed(gc, b), !.coord_system = BaseOf(b),
     !.coord_offset = CASE b.non_modal = "G92" -> NewOffset(gc, b, BaseOf(b))
                        [] b.non_modal = "G92.1" -> Zero
                        [] OTHER -> @]

(* Every line counts, also the commands $RST=#, $C and $X.                 *)
Sent == lines < MaxLines /\ lines' = lines + 1

Small(v) == \A a \in Axes : v[a] \in -MaxOffset .. MaxOffset

AcceptLine(line) ==
  LET b == Block(line) IN
  /\ Sent /\ pc = "ready" /\ ~abort /\ Unlocked(line) /\ Accepted(line, b)
  /\ gc' = IF line.jog THEN gc ELSE NewGc(b)
  /\ Small(gc'.coord_offset) /\ \A i \in DOMAIN Written(b) : Small(Written(b)[i][2])
  /\ job' = [NoJob EXCEPT
               !.line = line, !.writes = Written(b), !.moves = Moves(b), !.ends = Ends(b),
               !.active = b.non_modal = "G10" /\ Slot(b) = b.modal.coord_select,
               !.probe = Probing(b)]
  /\ pc' = IF ~line.jog /\ Synchronises(b) THEN "sync" ELSE "move"
  /\ UNCHANGED <<stored, queue, machine, state, stopped, abort>>

(* A refused line changes nothing, unless a record could not be read: that *)
(* one is reset to zero.                                                   *)
RefuseLine(line) ==
  LET repaired == Repaired(gc, Block(line), stored) IN
  /\ Sent /\ pc = "ready" /\ ~abort /\ Unlocked(line) /\ repaired # {}
  /\ job' = [NoJob EXCEPT !.writes = << <<CHOOSE s \in repaired : TRUE, Zero>> >>]
  /\ pc' = "sync"
  /\ UNCHANGED <<gc, stored, queue, machine, state, stopped, abort>>

(* $RST=#: all records are zeroed and the system reset.                    *)
RestoreParameters ==
  /\ Sent /\ pc = "ready" /\ ~abort /\ state \in {"IDLE", "ALARM"}
  /\ job' = [NoJob EXCEPT !.writes = [i \in 1 .. Cardinality(Slots) |-> <<i - 1, Zero>>],
                          !.reset = TRUE]
  /\ pc' = "sync"
  /\ UNCHANGED <<gc, stored, queue, machine, state, stopped, abort>>

-----------------------------------------------------------------------------
(* The rest of the line.                                                   *)

(* protocol_buffer_synchronize() returns when the planner is empty and the *)
(* cycle over, or at once on an abort: the write then still takes place.   *)
Sync_NoWait ==
  /\ pc = "sync"
  /\ pc' = IF job.writes # <<>> THEN "store" ELSE IF job.probe THEN "probe" ELSE "move"
  /\ UNCHANGED <<gc, stored, queue, machine, state, stopped, abort, job, lines>>

Sync ==
  /\ pc = "sync" /\ (abort \/ (queue = <<>> /\ state # "CYCLE"))
  /\ pc' = IF job.writes # <<>> THEN "store" ELSE IF job.probe THEN "probe" ELSE "move"
  /\ UNCHANGED <<gc, stored, queue, machine, state, stopped, abort, job, lines>>

Store_Stale ==
  /\ pc = "store"
  /\ stored' = [stored EXCEPT ![Head(job.writes)[1]] = Head(job.writes)[2]]
  /\ job' = [job EXCEPT !.writes = Tail(@)]
  /\ pc' = IF Len(job.writes) = 1 /\ ~job.probe THEN "move" ELSE "sync"
  /\ UNCHANGED <<gc, queue, machine, state, stopped, abort, lines>>

Store ==
  LET slot == Head(job.writes)[1]
      data == Head(job.writes)[2]
  IN
  /\ pc = "store"
  /\ stored' = [stored EXCEPT ![slot] = data]
  /\ gc' = IF job.active THEN [gc EXCEPT !.coord_system = data] ELSE gc
  /\ job' = [job EXCEPT !.writes = Tail(@)]
  /\ pc' = IF Len(job.writes) = 1 /\ ~job.probe THEN "move" ELSE "sync"
  /\ UNCHANGED <<queue, machine, state, stopped, abort, lines>>

(* The machine is stopped, wherever it is, and the system will be reset.   *)
Alarm ==
  /\ abort' = TRUE /\ state' = "ALARM" /\ machine' \in Stops
  /\ UNCHANGED <<gc, stored, queue, stopped, job, lines>>

(* mc_line(): the soft limit check, the check mode, the wait for room.     *)
Checked == state = "JOG" \/ InTravel(Head(job.moves).target)

MoveBeyond ==
  /\ pc = "move" /\ job.moves # <<>> /\ ~Checked /\ ~(abort /\ state = "ALARM")
  /\ Alarm /\ UNCHANGED pc

PlanMove ==
  /\ pc = "move" /\ job.moves # <<>> /\ ~abort /\ state # "CHECK_MODE" /\ Checked
  /\ Len(queue) < QueueSize
  /\ queue' = IF Head(job.moves).target = Planned THEN queue ELSE Append(queue, Head(job.moves))
  /\ state' = IF job.line.jog /\ state = "IDLE" /\ queue' # <<>> THEN "JOG" ELSE state
  /\ job' = [job EXCEPT !.moves = Tail(@)]
  /\ UNCHANGED <<gc, stored, machine, stopped, abort, pc, lines>>

SkipMove ==
  /\ pc = "move" /\ job.moves # <<>>
  /\ IF Checked THEN abort \/ state = "CHECK_MODE" ELSE abort /\ state = "ALARM"
  /\ job' = [job EXCEPT !.moves = Tail(@)]
  /\ UNCHANGED <<gc, stored, queue, machine, state, stopped, abort, pc, lines>>

(* The probing cycle.  It does not begin on a touching probe; when it ends *)
(* the rest of the motion is removed.                                      *)
LineOver(position) ==
  /\ gc' = [gc EXCEPT !.position = position]
  /\ pc' = "ready" /\ job' = NoJob
  /\ UNCHANGED <<stored, lines>>

ProbeBegin ==
  /\ pc = "probe" /\ ~abort /\ InTravel(Head(job.moves).target)
  /\ queue' = job.moves /\ state' = "CYCLE" /\ pc' = "probing"
  /\ UNCHANGED <<gc, stored, machine, stopped, abort, job, lines>>

ProbeTouching ==
  /\ pc = "probe" /\ ~abort
  /\ state' = "ALARM" /\ LineOver(gc.position)
  /\ UNCHANGED <<queue, machine, stopped, abort>>

ProbeBeyond ==
  /\ pc = "probe" /\ ~abort /\ ~InTravel(Head(job.moves).target)
  /\ Alarm /\ UNCHANGED pc

ProbeContact ==
  /\ pc = "probing" /\ ~abort /\ state = "CYCLE"
  /\ machine' \in Stops /\ queue' = <<>> /\ state' = "IDLE" /\ stopped' = FALSE
  /\ LineOver(machine')
  /\ UNCHANGED abort

ProbeMissed ==
  /\ pc = "probing" /\ ~abort /\ state = "IDLE" /\ queue = <<>>
  /\ state' = IF Block(job.line).modal.motion \in ProbesNoError THEN "IDLE" ELSE "ALARM"
  /\ LineOver(CHOOSE p \in job.ends : TRUE)
  /\ UNCHANGED <<queue, machine, stopped, abort>>

ProbeAborted ==
  /\ pc \in {"probe", "probing"} /\ abort
  /\ LineOver(gc.position)
  /\ UNCHANGED <<queue, machine, state, stopped, abort>>

LineDone ==
  /\ pc = "move" /\ job.moves = <<>>
  /\ LineOver(IF job.ends = {} THEN gc.position ELSE CHOOSE p \in job.ends : TRUE)
  /\ abort' = (abort \/ job.reset)
  /\ UNCHANGED <<queue, machine, state, stopped>>

-----------------------------------------------------------------------------
(* The machine, and what interrupts it.                                    *)

(* What a real-time command or a flag does, it does where the main program *)
(* polls: in the main loop and in the waits, not while a line is parsed or *)
(* a record is written.                                                    *)
Polls == ~abort /\ (pc \in {"ready", "sync", "probe", "probing"} \/ (pc = "move" /\ job.moves # <<>>))

CycleStart ==
  /\ Polls /\ state = "IDLE" /\ queue # <<>>
  /\ state' = "CYCLE"
  /\ UNCHANGED <<gc, stored, queue, machine, stopped, abort, pc, job, lines>>

(* The stepper interrupt flags the end of the last move and stops.         *)
Run ==
  /\ state \in {"CYCLE", "JOG"} /\ queue # <<>> /\ ~stopped /\ ~abort
  /\ machine' = Head(queue).target /\ queue' = Tail(queue)
  /\ stopped' = (Len(queue) = 1)
  /\ UNCHANGED <<gc, stored, state, abort, pc, job, lines>>

CycleStop ==
  /\ Polls /\ stopped
  /\ stopped' = FALSE /\ state' = "IDLE"
  /\ UNCHANGED <<gc, stored, queue, machine, abort, pc, job, lines>>

(* A jog is cut short: the buffers are emptied, the positions synchronised.*)
JogCancel_Unsynced ==
  /\ Polls /\ state = "JOG"
  /\ machine' \in Stops /\ queue' = <<>> /\ state' = "IDLE" /\ stopped' = FALSE
  /\ UNCHANGED <<gc, stored, abort, pc, job, lines>>

JogCancel ==
  /\ Polls /\ state = "JOG"
  /\ machine' \in Stops /\ queue' = <<>> /\ state' = "IDLE" /\ stopped' = FALSE
  /\ gc' = [gc EXCEPT !.position = machine']
  /\ UNCHANGED <<stored, abort, pc, job, lines>>

(* mc_reset(): the steppers are killed; in motion, the position is lost.   *)
Reset ==
  /\ Polls
  /\ abort' = TRUE /\ machine' \in Stops
  /\ state' = IF state \in {"CYCLE", "JOG"} THEN "ALARM" ELSE state
  /\ UNCHANGED <<gc, stored, queue, stopped, pc, job, lines>>

(* main(): everything is initialised again, positions from sys_position.   *)
Reinit ==
  /\ abort /\ pc = "ready"
  /\ stored' = IF stored[0] = Torn THEN [stored EXCEPT ![0] = Zero] ELSE stored
  /\ gc' = FreshGc(stored'[0], machine)
  /\ queue' = <<>> /\ stopped' = FALSE /\ abort' = FALSE
  /\ state' = IF state = "ALARM" THEN "ALARM" ELSE "IDLE"
  /\ UNCHANGED <<machine, pc, job, lines>>

PowerLoss ==
  /\ stored' \in
       IF pc # "store" THEN {stored}
       ELSE LET slot == Head(job.writes)[1]
            IN {[stored EXCEPT ![slot] = r] : r \in Garbage \cup {stored[slot], Head(job.writes)[2]}}
  /\ machine' = Zero /\ queue' = <<>> /\ stopped' = FALSE
  /\ abort' = TRUE /\ state' \in {"IDLE", "ALARM"}
  /\ pc' = "ready" /\ job' = NoJob
  /\ UNCHANGED <<gc, lines>>

(* $C and $X.                                                              *)
CheckMode ==
  /\ Sent /\ pc = "ready" /\ ~abort /\ state \in {"IDLE", "CHECK_MODE"}
  /\ state' = "CHECK_MODE" /\ abort' = (state = "CHECK_MODE")
  /\ UNCHANGED <<gc, stored, queue, machine, stopped, pc, job>>

Unlock ==
  /\ Sent /\ pc = "ready" /\ ~abort /\ state = "ALARM"
  /\ state' = "IDLE"
  /\ UNCHANGED <<gc, stored, queue, machine, stopped, abort, pc, job>>

FromHost ==
  \/ \E line \in Lines : AcceptLine(line) \/ RefuseLine(line)
  \/ RestoreParameters \/ CheckMode \/ Unlock
Motion == Sync \/ Store \/ MoveBeyond \/ PlanMove \/ SkipMove \/ LineDone
Probe == ProbeBegin \/ ProbeTouching \/ ProbeBeyond \/ ProbeContact \/ ProbeMissed \/ ProbeAborted
System == CycleStart \/ Run \/ CycleStop \/ JogCancel
Interrupted == Reset \/ Reinit \/ PowerLoss

Next == FromHost \/ Motion \/ Probe \/ System \/ Interrupted

Spec == Init /\ [][Next]_vars

-----------------------------------------------------------------------------
(* Properties.                                                             *)

(* Between lines the parser's idea of the tool's position, from which the  *)
(* next move is computed, is where the planner's last move ends, through   *)
(* jogs cut short, probing cycles, alarms and resets.  In check mode the   *)
(* parser moves alone.                                                     *)
PositionAgrees ==
  pc = "ready" /\ ~abort /\ state # "CHECK_MODE" => gc.position = Planned

(* The work offsets in use are those stored for the selected system.       *)
OffsetsAgree ==
  ~abort /\ ~job.reset =>
    gc.coord_system = stored[gc.modal.coord_select]

(* A line that sets or goes to a work position ends there: absolute moves, *)
(* G92 and G10 L20 for the selected system, in either unit and with a      *)
(* change of system in the same line.                                      *)
SetsPosition(b) ==
  \/ b.non_modal = "G92"
  \/ b.non_modal = "G10" /\ b.value["L"] = 20 /\ Slot(b) = b.modal.coord_select
  \/ /\ HasMotion(b) /\ b.modal.motion \notin Probes /\ b.modal.distance = "G90"
     /\ b.non_modal \notin {"G53", "G92.1"}

WorkPositionIsCommanded ==
  [][LineDone /\ ~abort /\ job.line # NoLine /\ ~job.line.jog =>
       LET b == Block(job.line) IN
       SetsPosition(b) =>
         \A a \in AxisWords(b) :
           gc'.position[a] - gc'.coord_system[a] - gc'.coord_offset[a] = InMm(b, b.value[a])]_vars

(* G28.1 and G30.1 store the place where the machine stands, not one it is *)
(* still moving to.                                                        *)
HomeIsReached ==
  [][Store /\ ~abort /\ state # "CHECK_MODE" /\ job.line # NoLine =>
       \A s \in {G28Slot, G30Slot} : stored'[s] # stored[s] => stored'[s] = machine]_vars

(* A jog is only ever executed as a jog: in CYCLE a jog cancel is ignored. *)
JogsAreCancellable == \A i \in DOMAIN queue : queue[i].jog => state # "CYCLE"

=============================================================================
