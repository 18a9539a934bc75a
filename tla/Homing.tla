------------------------------- MODULE Homing -------------------------------
(***************************************************************************)
(* The homing cycle: $H (system.c), mc_homing_cycle() and the loop of      *)
(* limits_go_home() (limits.c) that polls the switches and the realtime    *)
(* flags by itself, with the stepper interrupt, a reset and a safety door  *)
(* coming in between; and a motion planned before the $H.                  *)
(*                                                                         *)
(* The switches are at 0 and are engaged from there on; an axis approaches *)
(* upwards.  A search step is SeekStep long, a locating step 1, and the    *)
(* loop reads the switches at least once per step.                         *)
(***************************************************************************)
EXTENDS Integers, Sequences, FiniteSets

CONSTANTS
  Axes,
  Cycles,    \* the axes of HOMING_CYCLE_0, HOMING_CYCLE_1, ...
  Search,    \* HOMING_AXIS_SEARCH_SCALAR times the travel
  PullOff,   \* settings.homing_pulloff
  LocateScalar,  \* HOMING_AXIS_LOCATE_SCALAR
  LocateCycles,  \* N_HOMING_LOCATE_CYCLE
  SeekStep,  \* how far an axis goes between two readings at the seek rate
  Starts,    \* where an axis may be when the machine is switched on
  Move,      \* the motion the host sends
  Streams,   \* the host sends $H without waiting for the motion to end
  Malformed, \* the states in which the host sends a $H that is an error
  MaxLines   \* bound: lines the host sends

ASSUME HomingAssumption ==
  /\ Cycles \in Seq(SUBSET Axes) /\ Cycles # <<>> /\ Starts \subseteq Int
  /\ {Search, PullOff, LocateScalar, LocateCycles, SeekStep} \subseteq Nat \ {0}
  /\ Move \in [Axes -> Int] /\ Streams \in BOOLEAN /\ MaxLines \in Nat
  /\ Malformed \subseteq {"IDLE", "ALARM"}

(* Each cycle homes an axis and each axis is homed (config.h:105-106); a   *)
(* locating pass reaches further than back to the switch.                  *)
ASSUME CyclesAssumption ==
  /\ \A i \in DOMAIN Cycles : Cycles[i] # {}
  /\ Axes = UNION {Cycles[i] : i \in DOMAIN Cycles}
ASSUME LocateAssumption == LocateScalar * PullOff > PullOff + 1

VARIABLES
  state,     \* sys.state
  flags,     \* sys_rt_exec_state
  alarm,     \* sys_rt_exec_alarm is set
  pc,        \* where the main program is
  cycle,     \* index in Cycles
  passes,    \* n_cycle
  approach,
  axislock,  \* axes still to move; sys.homing_axis_lock
  left,      \* what is left of the homing motion
  read,      \* the switches were read since the last step
  running,   \* the stepper interrupt is enabled
  machine,   \* where the axes are
  position,  \* sys_position
  planned,   \* pl.position and gc_state.position
  queue,     \* the block planned, if any
  limits,    \* the limit interrupt is enabled; hard limits are on
  tried,     \* homing was tried, and not unlocked since
  lines

homing == <<cycle, passes, approach, axislock, left, read>>
places == <<machine, position, planned, queue>>
vars == <<state, flags, alarm, pc, homing, running, places, limits, tried, lines>>

Active == Cycles[cycle]
Engaged == {a \in Axes : machine[a] >= 0}

Passes_NoLocate == 1
Passes == 2 * LocateCycles + 1

Init ==
  /\ state \in {"IDLE", "ALARM"} /\ flags = {} /\ alarm = FALSE /\ pc = "ready"
  /\ cycle = 1 /\ passes = 0 /\ approach = TRUE /\ axislock = {} /\ left = 0 /\ read = FALSE
  /\ running = FALSE /\ machine \in [Axes -> Starts] /\ position = [a \in Axes |-> 0]
  /\ planned = position /\ queue = <<>> /\ limits = TRUE /\ tried = FALSE /\ lines = 0

-----------------------------------------------------------------------------
(* Interrupts.                                                             *)

(* The stepper interrupt.  sys_position counts for the locked axes, too.   *)
Distance == IF approach /\ passes < Passes THEN 1 ELSE SeekStep
Step ==
  /\ running /\ left > 0 /\ (approach => read)
  /\ LET d == IF Distance < left THEN Distance ELSE left
         sign == IF approach THEN 1 ELSE -1
     IN /\ left' = left - d /\ read' = FALSE
        /\ machine' = [a \in Axes |-> machine[a] + IF a \in axislock THEN sign * d ELSE 0]
        /\ position' = [a \in Axes |-> position[a] + IF a \in Active THEN sign * d ELSE 0]
  /\ UNCHANGED <<state, flags, alarm, pc, cycle, passes, approach, axislock, running,
                 planned, queue, limits, tried, lines>>

(* The motion is over: steppers idle, EXEC_CYCLE_STOP.                     *)
MotionEnd ==
  /\ running /\ left = 0 /\ running' = FALSE /\ flags' = flags \cup {"CYCLE_STOP"}
  /\ UNCHANGED <<state, alarm, pc, homing, places, limits, tried, lines>>

(* mc_reset(), from the serial interrupt.                                  *)
Reset ==
  /\ "RESET" \notin flags /\ pc # "abort"
  /\ flags' = flags \cup {"RESET"}
  /\ IF state = "HOMING" THEN alarm' = TRUE /\ running' = FALSE
     ELSE UNCHANGED <<alarm, running>>
  /\ UNCHANGED <<state, pc, homing, places, limits, tried, lines>>

Door ==
  /\ flags' = flags \cup {"DOOR"} /\ flags' # flags
  /\ UNCHANGED <<state, alarm, pc, homing, running, places, limits, tried, lines>>

-----------------------------------------------------------------------------
(* limits_go_home().                                                       *)

At(here) == pc = here /\ UNCHANGED <<lines, tried>>
Same == UNCHANGED <<state, flags, alarm, running, places, limits>>

(* Up to st_wake_up(): the axes of the cycle are set off towards their     *)
(* switches, or away from them.                                            *)
StartPass ==
  /\ At("pass") /\ pc' = "poll"
  /\ axislock' = Active /\ read' = TRUE /\ running' = TRUE
  /\ left' = IF ~approach THEN PullOff
             ELSE IF passes = Passes THEN Search ELSE LocateScalar * PullOff
  /\ position' = [a \in Axes |-> IF a \in Active THEN 0 ELSE position[a]]
  /\ UNCHANGED <<state, flags, alarm, cycle, passes, approach, machine, planned, queue, limits>>

(* An axis that reaches its switch is locked.                              *)
Poll ==
  /\ At("poll") /\ pc' = "check" /\ read' = TRUE
  /\ axislock' = IF approach THEN axislock \ Engaged ELSE axislock
  /\ Same /\ UNCHANGED <<cycle, passes, approach, left>>

(* The first reading of the flags.                                         *)
Check_MissesCycleStop ==
  /\ At("check") /\ Same /\ UNCHANGED homing
  /\ pc' = IF flags \cap {"RESET", "DOOR"} # {} THEN "exit"
           ELSE IF axislock = {} THEN "stop" ELSE "poll"
Check ==
  /\ At("check") /\ Same /\ UNCHANGED homing
  /\ pc' = IF flags # {} THEN "exit" ELSE IF axislock = {} THEN "stop" ELSE "poll"

(* The second reading: what has failed, if anything has.                   *)
Failure == \/ flags \cap {"RESET", "DOOR"} # {}
           \/ ~approach /\ Engaged \cap Active # {}
           \/ approach /\ "CYCLE_STOP" \in flags

Exit ==
  /\ At("exit") /\ UNCHANGED <<homing, state, places, limits>>
  /\ IF Failure \/ alarm
     THEN /\ alarm' = TRUE /\ pc' = "realtime"  \* mc_reset()
          /\ flags' = flags \cup {"RESET"}
          /\ running' = IF "RESET" \in flags THEN running ELSE FALSE
     ELSE /\ flags' = flags \ {"CYCLE_STOP"} /\ pc' = "stop"
          /\ UNCHANGED <<alarm, running>>

(* st_reset(), the debounce delay and the turn to the next pass.           *)
Stop ==
  /\ At("stop") /\ running' = FALSE /\ approach' = ~approach
  /\ IF passes > 0 THEN passes' = passes - 1 /\ pc' = "pass"
     ELSE passes' = passes /\ pc' = "zero"
  /\ UNCHANGED <<state, flags, alarm, places, limits, cycle, axislock, left, read>>

(* The machine position of the axes homed; the next cycle, if there is one *)
SetPosition ==
  /\ At("zero")
  /\ position' = [a \in Axes |-> IF a \in Active THEN -PullOff ELSE position[a]]
  /\ IF cycle < Len(Cycles)
     THEN cycle' = cycle + 1 /\ passes' = Passes /\ approach' = TRUE /\ pc' = "pass"
     ELSE pc' = "realtime" /\ UNCHANGED <<cycle, passes, approach>>
  /\ UNCHANGED <<state, flags, alarm, running, machine, planned, queue, limits, axislock, left, read>>

(* protocol_execute_realtime() after a cycle, complete or not, and in the  *)
(* main loop: the alarm, the abort, the door, the end of a motion.         *)
Realtime ==
  /\ \/ At("realtime")
     \/ At("ready") /\ (alarm \/ flags # {})
  /\ alarm' = FALSE
  /\ IF "RESET" \in flags
     THEN /\ state' = IF alarm THEN "ALARM" ELSE state
          /\ pc' = "abort" /\ flags' = flags
     ELSE IF "DOOR" \in flags /\ state # "ALARM"
     THEN /\ state' = "DOOR" /\ flags' = {}
          /\ pc' = IF state = "IDLE" THEN "suspended" ELSE "stranded"
     ELSE /\ state' = IF "CYCLE_STOP" \in flags THEN "IDLE" ELSE state
          /\ flags' = {} /\ pc' = IF pc = "ready" THEN "ready" ELSE "sync"
  /\ UNCHANGED <<homing, running, places, limits>>

(* A door found in IDLE ends with a cycle start.  One found in HOMING does *)
(* not: the hold is never declared complete, only a reset is left.         *)
Resume ==
  /\ At("suspended") /\ "RESET" \notin flags /\ state' = "IDLE" /\ pc' = "ready"
  /\ UNCHANGED <<flags, alarm, homing, running, places, limits>>
Abort ==
  /\ \/ At("suspended")
     \/ At("stranded")
  /\ "RESET" \in flags /\ pc' = "abort"
  /\ Same /\ UNCHANGED homing

(* The end of mc_homing_cycle() and of $H.                                 *)
Sync ==
  /\ At("sync") /\ pc' = "ready" /\ state' = "IDLE" /\ running' = FALSE
  /\ planned' = position /\ limits' = TRUE
  /\ UNCHANGED <<flags, alarm, homing, machine, position, queue>>

(* The loop of main(): everything but the position and the state is reset. *)
Reinit_LimitsOff ==
  /\ At("abort") /\ pc' = "ready" /\ flags' = {} /\ alarm' = FALSE /\ running' = FALSE
  /\ queue' = <<>> /\ planned' = position
  /\ state' = IF state = "ALARM" THEN "ALARM" ELSE "IDLE"
  /\ UNCHANGED <<homing, machine, position, limits>>
Reinit ==
  /\ At("abort") /\ pc' = "ready" /\ flags' = {} /\ alarm' = FALSE /\ running' = FALSE
  /\ queue' = <<>> /\ planned' = position /\ limits' = TRUE
  /\ state' = IF state = "ALARM" THEN "ALARM" ELSE "IDLE"
  /\ UNCHANGED <<homing, machine, position>>

-----------------------------------------------------------------------------
(* Lines from the host.                                                    *)

Line ==
  /\ pc = "ready" /\ flags = {} /\ lines < MaxLines /\ lines' = lines + 1

(* $H, in IDLE or ALARM.                                                   *)
Home ==
  /\ Line /\ state \in {"IDLE", "ALARM"} /\ (queue = <<>> \/ Streams)
  /\ state' = "HOMING" /\ tried' = TRUE /\ limits' = FALSE
  /\ cycle' = 1 /\ passes' = Passes /\ approach' = TRUE /\ pc' = "pass"
  /\ UNCHANGED <<flags, alarm, axislock, left, read, running, places>>

(* $HX and the like are errors, found when the state is set already.       *)
HomeRefused ==
  /\ Line /\ state \in Malformed /\ state' = "HOMING"
  /\ UNCHANGED <<flags, alarm, pc, homing, running, places, limits, tried>>

(* $X                                                                      *)
Unlock ==
  /\ Line /\ state = "ALARM" /\ state' = "IDLE" /\ tried' = FALSE
  /\ UNCHANGED <<flags, alarm, pc, homing, running, places, limits>>

(* A motion is planned; it starts when no line is left to read.            *)
Plan ==
  /\ Line /\ state # "ALARM" /\ queue = <<>> /\ queue' = <<Move>>
  /\ planned' = [a \in Axes |-> planned[a] + Move[a]]
  /\ UNCHANGED <<state, flags, alarm, pc, homing, running, machine, position, limits, tried>>

RunMotion ==
  /\ pc = "ready" /\ state = "IDLE" /\ flags = {} /\ queue # <<>> /\ queue' = <<>>
  /\ machine' = [a \in Axes |-> machine[a] + queue[1][a]]
  /\ position' = [a \in Axes |-> position[a] + queue[1][a]]
  /\ UNCHANGED <<state, flags, alarm, pc, homing, running, planned, limits, tried, lines>>

Main == StartPass \/ Poll \/ Check \/ Exit \/ Stop \/ SetPosition \/ Realtime \/ Abort \/ Sync \/ Reinit

Next ==
  \/ Main \/ Step \/ MotionEnd \/ Reset \/ Door \/ Resume
  \/ Home \/ HomeRefused \/ Unlock \/ Plan \/ RunMotion

(* The program runs on, and the stepper interrupt is driven by a timer.    *)
Fairness == WF_vars(Main) /\ WF_vars(Step \/ MotionEnd)

Spec == Init /\ [][Next]_vars /\ Fairness

-----------------------------------------------------------------------------
(* Once homing was tried, the machine is locked or its position is that of *)
(* the switches: a cycle that fails, is reset or is stopped by the door    *)
(* between any two of its polls never leaves an unlocked machine with a    *)
(* position it does not have (the exits of limits.c:321-341, the check     *)
(* after the cycles in motion_control.c:237-238).                          *)
HomedOrLocked ==
  pc = "ready" /\ tried /\ ~alarm /\ state = "IDLE" => machine = position

(* Hard limits are disabled for the duration of the cycle only, however it *)
(* ends (motion_control.c:220, 247; main.c:90).                            *)
LimitsArmed == pc = "ready" => limits

(* A homing cycle ends: no pass waits for ever for a switch or for the end *)
(* of its motion, with the steppers killed by a reset at any point of it.  *)
HomingEnds == pc = "pass" ~> pc \in {"ready", "suspended", "stranded"}

(* A door leaves a machine that a cycle start resumes, in every state.     *)
DoorCanResume == pc # "stranded"

(* With nothing left to run, the machine is where the next motion is       *)
(* planned from: "There should be no motions in the buffer and Grbl must   *)
(* be in an idle state before executing the homing cycle. This prevents    *)
(* incorrect buffered plans after homing."                                 *)
PlanAgrees ==
  pc = "ready" /\ state = "IDLE" /\ flags = {} /\ queue = <<>> => planned = position

=============================================================================
