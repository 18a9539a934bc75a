------------------------------- MODULE RtExec -------------------------------
(***************************************************************************)
(* The realtime executor of the firmware: the main program's control flow  *)
(* (main.c, protocol.c, the motion commands of motion_control.c, jog.c and *)
(* limits.c), the interrupt handlers that share its flags, and the part of *)
(* the stepper driver that the two sides hand work through.                *)
(*                                                                         *)
(* The main program is one process whose position is pc.  Every call of    *)
(* protocol_exec_rt_system walks the pc labels "alarm" ... "finish"; ctx   *)
(* says which loop made the call and cont is the label to which            *)
(* protocol_execute_realtime returns.  Interrupts run between any two of   *)
(* these steps.                                                            *)
(*                                                                         *)
(* An operator whose name has a suffix, such as PlanFull_OffByOne, is a    *)
(* wrong version of the operator that follows it.  No action uses it: it   *)
(* stands for a plausible bug, and the property that excludes the bug      *)
(* fails when it takes the operator's place.                               *)
(***************************************************************************)
EXTENDS Integers

CONSTANTS
  MaxBlocks,    \* planner capacity, BLOCK_BUFFER_SIZE - 1 in the source
  MaxSegs,      \* segment ring capacity, SEGMENT_BUFFER_SIZE - 1
  BlockSegs,    \* step segments one planned block is cut into
  Commands,     \* realtime commands and pin events the run offers
  Lines,        \* kinds of input line the run offers
  MaxCommands,  \* bound on the realtime inputs of a behaviour
  MaxLines,     \* bound on the lines of a behaviour
  SpindleOn,    \* gc_state.modal.spindle # SPINDLE_DISABLE
  SoftLimits,   \* BITFLAG_SOFT_LIMIT_ENABLE
  Underrun      \* the main program may be too late to refill the segment ring

AllCommands == {"reset", "status", "start", "hold", "door", "jogcancel",
                "spindlestop", "limit"}
AllLines == {"move", "jog", "dwell", "setcoord", "probe", "check", "unlock",
             "sleep"}

ASSUME SizesAssumption ==
  /\ MaxBlocks \in Nat \ {0}
  /\ MaxSegs \in Nat \ {0}
  /\ BlockSegs \in Nat \ {0}
ASSUME BoundsAssumption == MaxCommands \in Nat /\ MaxLines \in Nat
ASSUME InputsAssumption ==
  /\ Commands \subseteq AllCommands
  /\ Lines \subseteq AllLines
  /\ SpindleOn \in BOOLEAN
  /\ SoftLimits \in BOOLEAN
  /\ Underrun \in BOOLEAN

VARIABLES
  state,            \* sys.state
  suspend,          \* sys.suspend, a set of flags
  step_control,     \* sys.step_control, a set of flags
  abort,            \* sys.abort
  soft_limit,       \* sys.soft_limit
  spindle_stop_ovr, \* sys.spindle_stop_ovr, a set of flags
  exec_state,       \* sys_rt_exec_state, a set of flags
  exec_alarm,       \* sys_rt_exec_alarm
  ovr_stop,         \* EXEC_SPINDLE_OVR_STOP in sys_rt_exec_accessory_override
  work,             \* segments still to be cut from the planner's blocks
  segs,             \* segments in the ring
  stepping,         \* the step timer interrupt is enabled
  isr,              \* "idling" while the step interrupt sits in st_go_idle
  probe,            \* sys_probe_state = PROBE_ACTIVE
  pc, ctx, cont,    \* control state of the main program
  rt,               \* rt_exec, the main program's copy of exec_state
  line,             \* kind of the line in execution
  cmds, lines,      \* inputs used up
  resumeAsked,      \* history: "~" came after the hold request was taken up
  queued,           \* history: kinds of line whose blocks are queued
  struck            \* history: a probing alarm struck in an unfinished hold

sysVars == <<state, suspend, step_control, abort, soft_limit, spindle_stop_ovr>>
flagVars == <<exec_state, exec_alarm, ovr_stop>>
motionVars == <<work, segs, stepping, probe>>
ctlVars == <<pc, ctx, cont, rt, line>>
histVars == <<resumeAsked, queued, struck>>
vars == <<sysVars, flagVars, motionVars, isr, ctlVars, cmds, lines, histVars>>

-----------------------------------------------------------------------------
States == {"IDLE", "ALARM", "CHECK", "CYCLE", "HOLD", "JOG", "DOOR", "SLEEP"}
HoldFlags == {"MOTION_CANCEL", "FEED_HOLD", "SAFETY_DOOR", "SLEEP"}
ExecFlags == HoldFlags \cup {"RESET", "STATUS_REPORT", "CYCLE_START", "CYCLE_STOP"}
SuspendFlags == {"HOLD_COMPLETE", "RESTART_RETRACT", "RETRACT_COMPLETE",
                 "INITIATE_RESTORE", "RESTORE_COMPLETE", "DOOR_AJAR",
                 "MOTION_CANCEL", "JOG_CANCEL"}
StepFlags == {"END_MOTION", "EXECUTE_HOLD"}
StopOvrFlags == {"ENABLED", "INITIATE", "RESTORE", "RESTORE_CYCLE"}
Alarms == {"NONE", "HARD_LIMIT", "SOFT_LIMIT", "ABORT_CYCLE", "PROBE_INITIAL",
           "PROBE_CONTACT"}
RtLabels == {"alarm", "critical", "criticalWait", "clearAlarm", "snapshot",
             "status", "hold", "holdClear", "start", "startPrep", "startWake",
             "startClear", "stop", "stopClear", "finish"}
TopLabels == {"init", "clear", "boot", "read", "loop", "execute", "room",
              "jogStart", "jogPrep", "jogWake", "sync", "dwelling",
              "probeSynced", "probeArm", "probeWait", "probeEnd", "softWait",
              "softReset", "softAlarm"}
Labels == RtLabels \cup TopLabels \cup {"suspend", "restore", "sleep"}

Smaller(m, n) == IF m < n THEN m ELSE n

(* A block stays queued until its last segment is cut, so the planner is   *)
(* full as long as more than MaxBlocks - 1 blocks' worth of segments       *)
(* remains (plan_check_full_buffer).                                       *)
PlanFull_OffByOne == work > MaxBlocks * BlockSegs
PlanFull == work > (MaxBlocks - 1) * BlockSegs

Init ==
  /\ state \in {"IDLE", "ALARM"} /\ abort = FALSE /\ soft_limit = FALSE
  /\ suspend = {} /\ step_control = {} /\ spindle_stop_ovr = {}
  /\ exec_state = {} /\ exec_alarm = "NONE" /\ ovr_stop = FALSE
  /\ work = 0 /\ segs = 0 /\ stepping = FALSE /\ isr = "none" /\ probe = FALSE
  /\ pc = "init" /\ ctx = "top" /\ cont = "read" /\ rt = {} /\ line = "move"
  /\ cmds = 0 /\ lines = 0 /\ resumeAsked = FALSE /\ queued = {} /\ struck = FALSE

-----------------------------------------------------------------------------
(* Operations called from several places.                                  *)

(* mc_reset: flags the reset and, in a motion state, kills the steppers.   *)
InMotionState ==
  state \in {"CYCLE", "JOG"} \/ "EXECUTE_HOLD" \in step_control
mc_reset ==
  IF "RESET" \in exec_state
    THEN UNCHANGED <<exec_state, exec_alarm, stepping>>
    ELSE /\ exec_state' = exec_state \cup {"RESET"}
         /\ exec_alarm' = IF InMotionState THEN "ABORT_CYCLE" ELSE exec_alarm
         /\ stepping' = (stepping /\ ~InMotionState)

(* st_prep_buffer: cuts segments until the ring is full, the planner is    *)
(* empty or, in a hold, the deceleration ramp ends inside a block.  Where  *)
(* the ramp ends is left open.                                             *)
st_prep_buffer ==
  LET room == MaxSegs - segs
      most == Smaller(room, work)
      Cut(n, flags) == /\ segs' = segs + n
                       /\ work' = work - n
                       /\ step_control' = flags
  IN \/ "END_MOTION" \in step_control /\ Cut(0, step_control)
     \/ "END_MOTION" \notin step_control /\ Cut(most, step_control)
     \/ /\ "EXECUTE_HOLD" \in step_control
        /\ "END_MOTION" \notin step_control
        /\ room > 0
        /\ \E n \in 0 .. most :
             n < work /\ Cut(n, step_control \cup {"END_MOTION"})

(* protocol_auto_cycle_start; _Forgotten is a caller that does not make it. *)
auto_cycle_start_Forgotten == exec_state' = exec_state
auto_cycle_start ==
  exec_state' = IF work > 0 THEN exec_state \cup {"CYCLE_START"} ELSE exec_state

(* A call of protocol_execute_realtime that continues at label c.          *)
ExecuteRealtime(c) == pc' = "alarm" /\ cont' = c /\ UNCHANGED <<ctx, rt, line>>

(* Return from protocol_exec_rt_system to the loop that called it; s is    *)
(* sys.suspend at that moment.                                             *)
RtReturn(s) ==
  /\ pc' = CASE ctx \in {"sleep", "restore"} -> ctx
             [] ctx \in {"top", "suspend"} -> IF s # {} THEN "suspend" ELSE cont
  /\ ctx' = CASE ctx \in {"sleep", "restore"} -> ctx
              [] ctx \in {"top", "suspend"} -> IF s # {} THEN "suspend" ELSE "top"
  /\ UNCHANGED <<cont, line>>

Goto(label) == pc' = label /\ UNCHANGED <<ctx, cont, rt, line>>
At(label) == pc = label /\ isr = "none" /\ UNCHANGED <<isr, cmds, lines>>

-----------------------------------------------------------------------------
(* protocol_exec_rt_system, in the order of the code.                      *)

(* The alarm flag is read first; a hard or soft limit parks the program    *)
(* until a reset that arrives after the pending one was discarded.         *)
ExecAlarm ==
  /\ At("alarm")
  /\ IF exec_alarm = "NONE"
       THEN UNCHANGED state /\ Goto("snapshot")
       ELSE /\ state' = "ALARM"
            /\ Goto(IF exec_alarm \in {"HARD_LIMIT", "SOFT_LIMIT"}
                      THEN "critical" ELSE "clearAlarm")
  /\ UNCHANGED <<suspend, step_control, abort, soft_limit, spindle_stop_ovr,
                 flagVars, motionVars, histVars>>

ExecCritical ==
  /\ At("critical") /\ Goto("criticalWait")
  /\ exec_state' = exec_state \ {"RESET"}
  /\ UNCHANGED <<sysVars, exec_alarm, ovr_stop, motionVars, histVars>>

ExecCriticalWait ==
  /\ At("criticalWait") /\ Goto("clearAlarm")
  /\ "RESET" \in exec_state
  /\ UNCHANGED <<sysVars, flagVars, motionVars, histVars>>

ExecClearAlarm ==
  /\ At("clearAlarm") /\ Goto("snapshot")
  /\ exec_alarm' = "NONE"
  /\ UNCHANGED <<sysVars, exec_state, ovr_stop, motionVars, histVars>>

(* The stages below are entered only for flags of the copy rt_exec.        *)
Stage(n, flags) ==
  IF n <= 1 /\ "STATUS_REPORT" \in flags THEN "status"
  ELSE IF n <= 2 /\ flags \cap HoldFlags # {} THEN "hold"
  ELSE IF n <= 3 /\ "CYCLE_START" \in flags THEN "start"
  ELSE IF n <= 4 /\ "CYCLE_STOP" \in flags THEN "stop"
  ELSE "finish"

(* Taking the copy; a reset in it sets sys.abort and ends the call.        *)
ExecSnapshot ==
  /\ At("snapshot")
  /\ rt' = exec_state
  /\ resumeAsked' = (resumeAsked
       /\ "SAFETY_DOOR" \notin exec_state
       /\ ~("FEED_HOLD" \in exec_state /\ state \notin {"HOLD", "DOOR"}))
  /\ IF "RESET" \in exec_state
       THEN abort' = TRUE /\ RtReturn(suspend)
       ELSE /\ UNCHANGED <<abort, ctx, cont, line>>
            /\ pc' = Stage(1, exec_state)
  /\ UNCHANGED <<state, suspend, step_control, soft_limit, spindle_stop_ovr,
                 flagVars, motionVars, queued, struck>>

ExecStatus ==
  /\ At("status") /\ Goto(Stage(2, rt))
  /\ exec_state' = exec_state \ {"STATUS_REPORT"}
  /\ UNCHANGED <<sysVars, exec_alarm, ovr_stop, motionVars, histVars>>

(* Feed hold, motion and jog cancel, safety door and sleep requests.       *)
HoldBegins_JogOnly == state = "JOG" /\ "JOG_CANCEL" \notin suspend
HoldBegins == /\ state \in {"CYCLE", "JOG"}
              /\ suspend \cap {"MOTION_CANCEL", "JOG_CANCEL"} = {}
HoldState_DoorWakes(s0, susp) ==
  IF "SAFETY_DOOR" \in rt /\ "JOG_CANCEL" \notin susp THEN "DOOR"
  ELSE IF "FEED_HOLD" \in rt /\ s0 \notin {"DOOR", "JOG", "SLEEP"} THEN "HOLD"
  ELSE s0
HoldState(s0, susp) ==
  IF "SAFETY_DOOR" \in rt /\ "JOG_CANCEL" \notin susp /\ s0 # "SLEEP" THEN "DOOR"
  ELSE IF "FEED_HOLD" \in rt /\ s0 \notin {"DOOR", "JOG", "SLEEP"} THEN "HOLD"
  ELSE s0
DoorSuspend(s0, susp) ==
  IF "SAFETY_DOOR" \notin rt THEN susp
  ELSE IF "JOG_CANCEL" \notin susp /\ s0 = "DOOR" /\ "INITIATE_RESTORE" \in susp
    THEN (susp \ {"RETRACT_COMPLETE", "INITIATE_RESTORE", "RESTORE_COMPLETE"})
         \cup {"RESTART_RETRACT", "DOOR_AJAR"}
    ELSE susp \cup {"DOOR_AJAR"}
ExecHold ==
  LET held == IF state = "IDLE" THEN {"HOLD_COMPLETE"}
              ELSE IF HoldBegins /\ state = "JOG" /\ "SLEEP" \notin rt
                THEN suspend \cup {"JOG_CANCEL"} ELSE suspend
      cancelled == IF "MOTION_CANCEL" \in rt /\ state # "JOG"
                     THEN held \cup {"MOTION_CANCEL"} ELSE held
      ignored == state \in {"ALARM", "CHECK"}
      asleep == IF "SLEEP" \in rt /\ state = "ALARM"
                  THEN {"RETRACT_COMPLETE", "HOLD_COMPLETE"} ELSE {}
  IN /\ At("hold") /\ Goto("holdClear")
     /\ state' = IF "SLEEP" \in rt THEN "SLEEP"
                 ELSE IF ignored THEN state ELSE HoldState(state, cancelled)
     /\ suspend' = IF ignored THEN suspend \cup asleep
                   ELSE DoorSuspend(state, cancelled)
     /\ step_control' = IF HoldBegins THEN {"EXECUTE_HOLD"} ELSE step_control
     /\ UNCHANGED <<abort, soft_limit, spindle_stop_ovr, flagVars, motionVars,
                    histVars>>

(* The four hold flags are cleared together, whether or not the copy had   *)
(* each of them.                                                           *)
ExecHoldClear ==
  /\ At("holdClear") /\ Goto(Stage(3, rt))
  /\ exec_state' = exec_state \ HoldFlags
  /\ UNCHANGED <<sysVars, exec_alarm, ovr_stop, motionVars, histVars>>

(* Cycle start: resumes a completed hold or starts the queued motion.      *)
DoorClosed == state = "DOOR" /\ "DOOR_AJAR" \notin suspend
Restored == DoorClosed /\ "RESTORE_COMPLETE" \in suspend
ReadyToStart_Early == state = "IDLE" \/ Restored \/ state = "HOLD"
ReadyToStart == state = "IDLE" \/ Restored
                \/ (state = "HOLD" /\ "HOLD_COMPLETE" \in suspend)
StartBlocked_Never == FALSE
StartBlocked == rt \cap {"FEED_HOLD", "MOTION_CANCEL", "SAFETY_DOOR"} # {}
SpindleHeld_Ignored == FALSE
SpindleHeld == state = "HOLD" /\ spindle_stop_ovr # {}
ExecStart ==
  /\ At("start")
  /\ \/ /\ StartBlocked \/ ~ReadyToStart
        /\ suspend' = IF ~StartBlocked /\ DoorClosed /\ "RETRACT_COMPLETE" \in suspend
                        THEN suspend \cup {"INITIATE_RESTORE"} ELSE suspend
        /\ UNCHANGED <<state, step_control, spindle_stop_ovr>>
        /\ Goto("startClear")
     \/ /\ ~StartBlocked /\ ReadyToStart /\ SpindleHeld
        /\ spindle_stop_ovr' = spindle_stop_ovr \cup {"RESTORE_CYCLE"}
        /\ UNCHANGED <<state, suspend, step_control>>
        /\ Goto("startClear")
     \/ /\ ~StartBlocked /\ ReadyToStart /\ ~SpindleHeld
        /\ step_control' = {} /\ suspend' = {}
        /\ UNCHANGED spindle_stop_ovr
        /\ IF work > 0 /\ "MOTION_CANCEL" \notin suspend
             THEN state' = "CYCLE" /\ Goto("startPrep")
             ELSE state' = "IDLE" /\ Goto("startClear")
  /\ UNCHANGED <<abort, soft_limit, flagVars, motionVars, histVars>>

ExecStartPrep ==
  /\ At("startPrep") /\ Goto("startWake")
  /\ st_prep_buffer
  /\ UNCHANGED <<state, suspend, abort, soft_limit, spindle_stop_ovr, flagVars,
                 stepping, probe, histVars>>

ExecStartWake ==
  /\ At("startWake") /\ Goto("startClear")
  /\ stepping' = TRUE
  /\ UNCHANGED <<sysVars, flagVars, work, segs, probe, histVars>>

ExecStartClear ==
  /\ At("startClear") /\ Goto(Stage(4, rt))
  /\ exec_state' = exec_state \ {"CYCLE_START"}
  /\ UNCHANGED <<sysVars, exec_alarm, ovr_stop, motionVars, histVars>>

(* plan_reset and st_reset; _KeepPlan is st_reset alone.                   *)
EmptyBuffers_KeepPlan == segs' = 0 /\ stepping' = FALSE /\ UNCHANGED <<work, queued>>
EmptyBuffers == work' = 0 /\ segs' = 0 /\ stepping' = FALSE /\ queued' = {}

(* Cycle stop: the stepper ran out of segments.  In a hold this completes  *)
(* the hold; otherwise the motion is over, and a jog cancel flushes what   *)
(* is left of it.                                                          *)
HoldStops == /\ state \in {"HOLD", "DOOR", "SLEEP"}
             /\ ~soft_limit
             /\ "JOG_CANCEL" \notin suspend
ExecStop ==
  /\ At("stop") /\ Goto("stopClear")
  /\ \/ /\ HoldStops
        /\ suspend' = IF "EXECUTE_HOLD" \in step_control
                        THEN suspend \cup {"HOLD_COMPLETE"} ELSE suspend
        /\ step_control' = step_control \ {"EXECUTE_HOLD"}
        /\ UNCHANGED <<state, motionVars, queued>>
     \/ /\ ~HoldStops
        /\ IF "JOG_CANCEL" \in suspend
             THEN step_control' = {} /\ EmptyBuffers
             ELSE UNCHANGED <<step_control, queued, work, segs, stepping>>
        /\ IF "DOOR_AJAR" \in suspend
             THEN /\ suspend' = (suspend \ {"JOG_CANCEL"}) \cup {"HOLD_COMPLETE"}
                  /\ state' = "DOOR"
             ELSE suspend' = {} /\ state' = "IDLE"
        /\ UNCHANGED probe
  /\ UNCHANGED <<abort, soft_limit, spindle_stop_ovr, flagVars, resumeAsked, struck>>

ExecStopClear_Forgotten ==
  /\ At("stopClear") /\ Goto("finish")
  /\ UNCHANGED <<sysVars, flagVars, motionVars, histVars>>
ExecStopClear ==
  /\ At("stopClear") /\ Goto("finish")
  /\ exec_state' = exec_state \ {"CYCLE_STOP"}
  /\ UNCHANGED <<sysVars, exec_alarm, ovr_stop, motionVars, histVars>>

(* The spindle stop override and the reload of the segment ring, which end *)
(* every call that did not find a reset.                                   *)
Reloads_NotInDoor == state \in {"CYCLE", "HOLD", "SLEEP", "JOG"}
Reloads == state \in {"CYCLE", "HOLD", "DOOR", "SLEEP", "JOG"}
ExecFinish ==
  /\ At("finish")
  /\ ovr_stop' = FALSE
  /\ spindle_stop_ovr' =
       IF ~ovr_stop \/ state # "HOLD" THEN spindle_stop_ovr
       ELSE IF spindle_stop_ovr = {} THEN {"INITIATE"}
       ELSE IF "ENABLED" \in spindle_stop_ovr
         THEN spindle_stop_ovr \cup {"RESTORE"} ELSE spindle_stop_ovr
  /\ IF Reloads
       THEN st_prep_buffer ELSE UNCHANGED <<segs, work, step_control>>
  /\ RtReturn(suspend) /\ UNCHANGED rt
  /\ UNCHANGED <<state, suspend, abort, soft_limit, exec_state, exec_alarm,
                 stepping, probe, histVars>>

-----------------------------------------------------------------------------
(* protocol_exec_rt_suspend.                                               *)

(* Every turn of the loop that does not leave it ends in another call of   *)
(* protocol_exec_rt_system.                                                *)
PollAgain(loop) == pc' = "alarm" /\ ctx' = loop /\ UNCHANGED <<cont, rt, line>>
LeaveSuspend == pc' = cont /\ ctx' = "top" /\ UNCHANGED <<cont, rt, line>>

SuspendAborted ==
  /\ At("suspend") /\ abort /\ LeaveSuspend
  /\ UNCHANGED <<sysVars, flagVars, motionVars, histVars>>

SuspendWait ==
  /\ At("suspend") /\ ~abort /\ "HOLD_COMPLETE" \notin suspend
  /\ PollAgain("suspend")
  /\ UNCHANGED <<sysVars, flagVars, motionVars, histVars>>

InSuspend(s) == /\ At("suspend") /\ ~abort /\ "HOLD_COMPLETE" \in suspend
                /\ state \in s

(* Door or sleep: de-energize once the motion has stopped.                 *)
Retract ==
  /\ InSuspend({"DOOR", "SLEEP"}) /\ "RETRACT_COMPLETE" \notin suspend
  /\ spindle_stop_ovr' = {}
  /\ suspend' = (suspend \ {"RESTART_RETRACT"}) \cup {"RETRACT_COMPLETE"}
  /\ PollAgain("suspend")
  /\ UNCHANGED <<state, step_control, abort, soft_limit, flagVars, motionVars,
                 histVars>>

FallAsleep ==
  /\ InSuspend({"SLEEP"}) /\ "RETRACT_COMPLETE" \in suspend
  /\ stepping' = FALSE
  /\ pc' = "sleep" /\ ctx' = "sleep" /\ UNCHANGED <<cont, rt, line>>
  /\ UNCHANGED <<sysVars, flagVars, work, segs, probe, histVars>>

Sleeping ==
  /\ At("sleep")
  /\ IF abort THEN LeaveSuspend ELSE PollAgain("sleep")
  /\ UNCHANGED <<sysVars, flagVars, motionVars, histVars>>

(* The end of the restore: it resumes the program unless the door opened   *)
(* again meanwhile.                                                        *)
RestoreEnd(s) ==
  /\ suspend' = IF "RESTART_RETRACT" \in s THEN s ELSE s \cup {"RESTORE_COMPLETE"}
  /\ exec_state' = IF "RESTART_RETRACT" \in s
                     THEN exec_state ELSE exec_state \cup {"CYCLE_START"}

(* Door, retracted: the closed switch clears the ajar flag; a resume has   *)
(* asked for the restore, which waits for the spindle (delay_sec polls).   *)
DoorRetracted ==
  LET s == suspend \ {"DOOR_AJAR"}
  IN /\ InSuspend({"DOOR"}) /\ "RETRACT_COMPLETE" \in suspend
     /\ \/ /\ "INITIATE_RESTORE" \notin s
           /\ suspend' = s /\ UNCHANGED exec_state /\ PollAgain("suspend")
        \/ /\ "INITIATE_RESTORE" \in s /\ SpindleOn /\ "RESTART_RETRACT" \notin s
           /\ suspend' = s /\ UNCHANGED exec_state /\ PollAgain("restore")
        \/ /\ "INITIATE_RESTORE" \in s /\ ~(SpindleOn /\ "RESTART_RETRACT" \notin s)
           /\ RestoreEnd(s) /\ PollAgain("suspend")
     /\ UNCHANGED <<state, step_control, abort, soft_limit, spindle_stop_ovr,
                    exec_alarm, ovr_stop, motionVars, histVars>>

(* The delay polls until its time is over, or at once when the door opened *)
(* again or a reset came in.                                               *)
RestoreDelay ==
  /\ At("restore") /\ ~abort /\ "RESTART_RETRACT" \notin suspend
  /\ PollAgain("restore")
  /\ UNCHANGED <<sysVars, flagVars, motionVars, histVars>>

RestoreDelayOver ==
  /\ At("restore") /\ PollAgain("suspend")
  /\ RestoreEnd(suspend)
  /\ UNCHANGED <<state, step_control, abort, soft_limit, spindle_stop_ovr,
                 exec_alarm, ovr_stop, motionVars, histVars>>

(* Hold complete in any other state: the spindle stop override.            *)
HoldManager ==
  LET restore == {"RESTORE", "RESTORE_CYCLE"} \cap spindle_stop_ovr # {}
  IN /\ InSuspend(States \ {"DOOR", "SLEEP"}) /\ PollAgain("suspend")
     /\ spindle_stop_ovr' =
          IF "INITIATE" \in spindle_stop_ovr
            THEN IF SpindleOn THEN {"ENABLED"} ELSE {}
          ELSE IF restore THEN {} ELSE spindle_stop_ovr
     /\ exec_state' =
          IF "INITIATE" \notin spindle_stop_ovr /\ "RESTORE_CYCLE" \in spindle_stop_ovr
            THEN exec_state \cup {"CYCLE_START"} ELSE exec_state
     /\ UNCHANGED <<state, suspend, step_control, abort, soft_limit, exec_alarm,
                    ovr_stop, motionVars, histVars>>

-----------------------------------------------------------------------------
(* main and protocol_main_loop.                                            *)

Init1 ==
  /\ At("init") /\ Goto("clear")
  /\ abort' = FALSE /\ soft_limit' = FALSE /\ suspend' = {}
  /\ step_control' = {} /\ spindle_stop_ovr' = {}
  /\ exec_state' = {} /\ exec_alarm' = "NONE" /\ ovr_stop' = FALSE
  /\ probe' = FALSE /\ struck' = FALSE
  /\ UNCHANGED <<state, work, segs, stepping, resumeAsked, queued>>

Clear ==
  /\ At("clear") /\ Goto("boot")
  /\ EmptyBuffers
  /\ UNCHANGED <<sysVars, flagVars, probe, resumeAsked, struck>>

Boot ==
  /\ At("boot") /\ Goto("read")
  /\ state' = IF state \in {"ALARM", "SLEEP"} THEN "ALARM" ELSE "IDLE"
  /\ UNCHANGED <<suspend, step_control, abort, soft_limit, spindle_stop_ovr,
                 flagVars, motionVars, histVars>>

(* A line is complete: one check point, then it is executed.               *)
ReadLine(l) ==
  /\ pc = "read" /\ isr = "none" /\ lines < MaxLines
  /\ lines' = lines + 1 /\ line' = l
  /\ pc' = "alarm" /\ cont' = "execute" /\ UNCHANGED <<ctx, rt>>
  /\ UNCHANGED <<sysVars, flagVars, motionVars, isr, cmds, histVars>>

(* No input left: queued motion is started.                                *)
ReadEmpty ==
  /\ At("read") /\ ExecuteRealtime("loop")
  /\ auto_cycle_start
  /\ UNCHANGED <<sysVars, exec_alarm, ovr_stop, motionVars, histVars>>

Loop ==
  /\ At("loop") /\ Goto(IF abort THEN "init" ELSE "read")
  /\ UNCHANGED <<sysVars, flagVars, motionVars, histVars>>

-----------------------------------------------------------------------------
(* The lines.                                                              *)

Execute(kinds) == At("execute") /\ ~abort /\ line \in kinds
LineDone == Goto("read")

ExecuteAborted ==
  /\ At("execute") /\ abort /\ Goto("init")
  /\ UNCHANGED <<sysVars, flagVars, motionVars, histVars>>

(* Lines that the state of the machine refuses, and those that check mode  *)
(* turns into nothing.                                                     *)
RefusedIn_Unlocked(l) ==
  CASE l \in {"move", "setcoord"} -> {"JOG"}
    [] l \in {"dwell", "probe"} -> {"JOG", "CHECK"}
    [] l = "jog" -> States \ {"IDLE", "JOG"}
    [] l = "check" -> States \ {"IDLE", "CHECK"}
    [] l = "unlock" -> States \ {"ALARM"}
    [] l = "sleep" -> States \ {"IDLE", "ALARM"}
RefusedIn(l) ==
  CASE l \in {"move", "setcoord"} -> {"ALARM", "JOG"}
    [] l \in {"dwell", "probe"} -> {"ALARM", "JOG", "CHECK"}
    [] l = "jog" -> States \ {"IDLE", "JOG"}
    [] l = "check" -> States \ {"IDLE", "CHECK"}
    [] l = "unlock" -> States \ {"ALARM"}
    [] l = "sleep" -> States \ {"IDLE", "ALARM"}
RefuseLine ==
  /\ Execute(AllLines) /\ state \in RefusedIn(line) /\ LineDone
  /\ UNCHANGED <<sysVars, flagVars, motionVars, histVars>>
Accepted(kinds) == Execute(kinds) /\ state \notin RefusedIn(line)

(* limits_soft_check flags the violation and stops a running cycle first.  *)
SoftViolation ==
  /\ SoftLimits
  /\ soft_limit' = TRUE
  /\ IF state = "CYCLE"
       THEN exec_state' = exec_state \cup {"FEED_HOLD"} /\ ExecuteRealtime("softWait")
       ELSE UNCHANGED exec_state /\ Goto("softReset")
  /\ UNCHANGED <<state, suspend, step_control, abort, spindle_stop_ovr,
                 exec_alarm, ovr_stop, motionVars, histVars>>

(* mc_line up to its wait for room in the planner.                         *)
mc_line ==
  \/ SoftViolation
  \/ /\ IF state = "CHECK" THEN LineDone ELSE ExecuteRealtime("room")
     /\ UNCHANGED <<sysVars, flagVars, motionVars, histVars>>

Move == Accepted({"move"}) /\ mc_line

(* A jog checks its travel itself and only refuses the line.               *)
Jog ==
  /\ Accepted({"jog"})
  /\ ExecuteRealtime("room") \/ (SoftLimits /\ LineDone)
  /\ UNCHANGED <<sysVars, flagVars, motionVars, histVars>>

(* protocol_buffer_synchronize, first call.                                *)
StartSync ==
  /\ Accepted({"dwell", "setcoord", "probe"}) /\ ExecuteRealtime("sync")
  /\ auto_cycle_start
  /\ UNCHANGED <<sysVars, exec_alarm, ovr_stop, motionVars, histVars>>

CheckMode ==
  /\ Accepted({"check"}) /\ LineDone
  /\ IF state = "CHECK" THEN mc_reset /\ UNCHANGED state
     ELSE state' = "CHECK" /\ UNCHANGED <<exec_state, exec_alarm, stepping>>
  /\ UNCHANGED <<suspend, step_control, abort, soft_limit, spindle_stop_ovr,
                 ovr_stop, work, segs, probe, histVars>>

Unlock ==
  /\ Accepted({"unlock"}) /\ LineDone
  /\ state' = "IDLE"
  /\ UNCHANGED <<suspend, step_control, abort, soft_limit, spindle_stop_ovr,
                 flagVars, motionVars, histVars>>

Sleep ==
  /\ Accepted({"sleep"}) /\ LineDone
  /\ exec_state' = exec_state \cup {"SLEEP"}
  /\ UNCHANGED <<sysVars, exec_alarm, ovr_stop, motionVars, histVars>>

-----------------------------------------------------------------------------
(* What the waits inside a line go on with.                                *)

AfterLine == CASE line = "jog" -> "jogStart"
               [] line = "probe" -> "probeArm"
               [] OTHER -> "read"

RoomAborted ==
  /\ At("room") /\ abort /\ Goto(AfterLine)
  /\ UNCHANGED <<sysVars, flagVars, motionVars, histVars>>

RoomFull_NoStart ==
  /\ At("room") /\ ~abort /\ PlanFull /\ ExecuteRealtime("room")
  /\ UNCHANGED <<sysVars, flagVars, motionVars, histVars>>
RoomFull ==
  /\ At("room") /\ ~abort /\ PlanFull /\ ExecuteRealtime("room")
  /\ auto_cycle_start
  /\ UNCHANGED <<sysVars, exec_alarm, ovr_stop, motionVars, histVars>>

(* plan_buffer_line *)
QueueBlock ==
  /\ At("room") /\ ~abort /\ ~PlanFull /\ Goto(AfterLine)
  /\ work' = work + BlockSegs
  /\ queued' = (IF work = 0 THEN {} ELSE queued)
               \cup {IF line = "jog" THEN "jog" ELSE "gcode"}
  /\ UNCHANGED <<sysVars, flagVars, segs, stepping, probe, resumeAsked, struck>>

(* jog_execute after mc_line: the manual start.                            *)
JogStart ==
  /\ At("jogStart")
  /\ IF state = "IDLE" /\ work > 0
       THEN state' = "JOG" /\ Goto("jogPrep")
       ELSE UNCHANGED state /\ LineDone
  /\ UNCHANGED <<suspend, step_control, abort, soft_limit, spindle_stop_ovr,
                 flagVars, motionVars, histVars>>

JogPrep ==
  /\ At("jogPrep") /\ Goto("jogWake")
  /\ st_prep_buffer
  /\ UNCHANGED <<state, suspend, abort, soft_limit, spindle_stop_ovr, flagVars,
                 stepping, probe, histVars>>

JogWake ==
  /\ At("jogWake") /\ LineDone
  /\ stepping' = TRUE
  /\ UNCHANGED <<sysVars, flagVars, work, segs, probe, histVars>>

SyncAgain_NoAbort ==
  /\ At("sync") /\ (work > 0 \/ state = "CYCLE")
  /\ ExecuteRealtime("sync")
  /\ UNCHANGED <<sysVars, flagVars, motionVars, histVars>>
SyncAgain ==
  /\ At("sync") /\ ~abort /\ (work > 0 \/ state = "CYCLE")
  /\ ExecuteRealtime("sync")
  /\ UNCHANGED <<sysVars, flagVars, motionVars, histVars>>

(* A dwell polls while it waits; its length is one poll here.              *)
Synced ==
  /\ At("sync") /\ (abort \/ (work = 0 /\ state # "CYCLE"))
  /\ IF line = "dwell" THEN Goto("dwelling")
     ELSE IF line = "probe" /\ ~abort THEN Goto("probeSynced") ELSE LineDone
  /\ UNCHANGED <<sysVars, flagVars, motionVars, histVars>>

Dwell ==
  /\ At("dwelling")
  /\ IF abort THEN LineDone ELSE ExecuteRealtime("read")
  /\ UNCHANGED <<sysVars, flagVars, motionVars, histVars>>

(* mc_probe_cycle after its synchronize: a pin that is triggered already   *)
(* is an alarm; otherwise the one probing block is queued.                 *)
ProbeInitial ==
  /\ At("probeSynced") /\ ExecuteRealtime("read")
  /\ exec_alarm' = "PROBE_INITIAL" /\ struck' = (struck \/ state = "HOLD")
  /\ UNCHANGED <<sysVars, exec_state, ovr_stop, motionVars, resumeAsked, queued>>

ProbeMove == At("probeSynced") /\ mc_line

ProbeArm ==
  /\ At("probeArm") /\ ExecuteRealtime("probeWait")
  /\ probe' = TRUE
  /\ exec_state' = exec_state \cup {"CYCLE_START"}
  /\ UNCHANGED <<sysVars, exec_alarm, ovr_stop, work, segs, stepping, histVars>>

ProbeWait ==
  /\ At("probeWait") /\ (abort \/ state # "IDLE")
  /\ IF abort THEN LineDone ELSE ExecuteRealtime("probeWait")
  /\ UNCHANGED <<sysVars, flagVars, motionVars, histVars>>

(* No contact is an alarm for G38.2 and G38.4 and none for G38.3, G38.5.   *)
ProbeOver ==
  /\ At("probeWait") /\ ~abort /\ state = "IDLE" /\ ExecuteRealtime("probeEnd")
  /\ probe' = FALSE
  /\ \/ UNCHANGED exec_alarm
     \/ probe /\ exec_alarm' = "PROBE_CONTACT"
  /\ UNCHANGED <<sysVars, exec_state, ovr_stop, work, segs, stepping, histVars>>

ProbeEnd ==
  /\ At("probeEnd") /\ LineDone
  /\ EmptyBuffers
  /\ UNCHANGED <<sysVars, flagVars, probe, resumeAsked, struck>>

SoftWait ==
  /\ At("softWait")
  /\ IF abort THEN ExecuteRealtime("room")
     ELSE IF state = "IDLE" THEN Goto("softReset") ELSE ExecuteRealtime("softWait")
  /\ UNCHANGED <<sysVars, flagVars, motionVars, histVars>>

SoftReset ==
  /\ At("softReset") /\ Goto("softAlarm")
  /\ mc_reset
  /\ UNCHANGED <<sysVars, ovr_stop, work, segs, probe, histVars>>

(* Enters the critical event loop, then mc_line goes on to its abort check. *)
SoftAlarm ==
  /\ At("softAlarm") /\ ExecuteRealtime("room")
  /\ exec_alarm' = "SOFT_LIMIT"
  /\ UNCHANGED <<sysVars, exec_state, ovr_stop, motionVars, histVars>>

-----------------------------------------------------------------------------
(* Interrupts.  Realtime commands are handled in the receive interrupt,    *)
(* which can also come in while the step interrupt is in st_go_idle.       *)

Input(c) == /\ c \in Commands /\ cmds < MaxCommands
            /\ cmds' = cmds + 1
            /\ UNCHANGED <<sysVars, work, segs, probe, isr, ctlVars, lines, queued, struck>>
SetFlag(f) == /\ exec_state' = exec_state \cup {f}
              /\ UNCHANGED <<exec_alarm, ovr_stop, stepping>>

CmdReset == Input("reset") /\ mc_reset /\ UNCHANGED <<ovr_stop, resumeAsked>>
CmdStatus == Input("status") /\ SetFlag("STATUS_REPORT") /\ UNCHANGED resumeAsked
CmdCycleStart == Input("start") /\ SetFlag("CYCLE_START") /\ resumeAsked' = TRUE
CmdFeedHold == Input("hold") /\ SetFlag("FEED_HOLD") /\ UNCHANGED resumeAsked
CmdSafetyDoor == Input("door") /\ SetFlag("SAFETY_DOOR") /\ UNCHANGED resumeAsked

CmdJogCancel ==
  /\ Input("jogcancel") /\ UNCHANGED resumeAsked
  /\ IF state = "JOG" THEN SetFlag("MOTION_CANCEL")
     ELSE UNCHANGED <<flagVars, stepping>>

CmdSpindleStop ==
  /\ Input("spindlestop")
  /\ ovr_stop' = TRUE
  /\ UNCHANGED <<exec_state, exec_alarm, stepping, resumeAsked>>

(* The hard limit interrupt.                                               *)
LimitPin ==
  /\ Input("limit")
  /\ IF state # "ALARM" /\ exec_alarm = "NONE"
       THEN /\ exec_state' = exec_state \cup {"RESET"}
            /\ stepping' = (stepping /\ ("RESET" \in exec_state \/ ~InMotionState))
            /\ exec_alarm' = "HARD_LIMIT"
       ELSE UNCHANGED <<exec_state, stepping, exec_alarm>>
  /\ UNCHANGED <<ovr_stop, resumeAsked>>

(* The step timer interrupt.                                               *)
Step == /\ stepping /\ isr = "none"
        /\ UNCHANGED <<sysVars, exec_alarm, ovr_stop, work, ctlVars, cmds, lines,
                       histVars>>

(* Runs one segment; the probe pin may trigger meanwhile, which asks for   *)
(* a motion cancel.                                                        *)
StepSegment ==
  /\ Step /\ segs > 0
  /\ segs' = segs - 1
  /\ \/ UNCHANGED <<exec_state, probe>>
     \/ /\ probe /\ probe' = FALSE
        /\ exec_state' = exec_state \cup {"MOTION_CANCEL"}
  /\ UNCHANGED <<stepping, isr>>

(* The ring is empty: st_go_idle, which waits, then the cycle stop flag.   *)
(* The ring is sized for the main loop to refill it in time; Underrun lets *)
(* it come too late.                                                       *)
Refillable == work > 0 /\ "END_MOTION" \notin step_control
StepEmpty ==
  /\ Step /\ segs = 0
  /\ Underrun \/ ~Refillable
  /\ stepping' = FALSE /\ isr' = "idling"
  /\ UNCHANGED <<exec_state, segs, probe>>

StepStopped ==
  /\ isr = "idling" /\ isr' = "none"
  /\ exec_state' = exec_state \cup {"CYCLE_STOP"}
  /\ UNCHANGED <<sysVars, exec_alarm, ovr_stop, motionVars, ctlVars, cmds, lines,
                 histVars>>

-----------------------------------------------------------------------------
RtSystem ==
  \/ ExecAlarm \/ ExecCritical \/ ExecCriticalWait \/ ExecClearAlarm
  \/ ExecSnapshot \/ ExecStatus \/ ExecHold \/ ExecHoldClear
  \/ ExecStart \/ ExecStartPrep \/ ExecStartWake \/ ExecStartClear
  \/ ExecStop \/ ExecStopClear \/ ExecFinish
RtSuspend ==
  \/ SuspendAborted \/ SuspendWait \/ Retract \/ FallAsleep \/ Sleeping
  \/ DoorRetracted \/ RestoreDelay \/ RestoreDelayOver \/ HoldManager
LineSteps ==
  \/ ExecuteAborted \/ RefuseLine \/ Move \/ Jog \/ StartSync \/ CheckMode
  \/ Unlock \/ Sleep
  \/ RoomAborted \/ RoomFull \/ QueueBlock \/ JogStart \/ JogPrep \/ JogWake
  \/ SyncAgain \/ Synced \/ Dwell
  \/ ProbeInitial \/ ProbeMove \/ ProbeArm \/ ProbeWait \/ ProbeOver \/ ProbeEnd
  \/ SoftWait \/ SoftReset \/ SoftAlarm
MainLoop ==
  Init1 \/ Clear \/ Boot \/ (\E l \in Lines : ReadLine(l)) \/ ReadEmpty \/ Loop
Main == RtSystem \/ RtSuspend \/ MainLoop \/ LineSteps
Stepper == StepSegment \/ StepEmpty \/ StepStopped
Inputs == CmdReset \/ CmdStatus \/ CmdCycleStart \/ CmdFeedHold \/ CmdSafetyDoor
          \/ CmdJogCancel \/ CmdSpindleStop \/ LimitPin

Next == Main \/ Stepper \/ Inputs
Spec == Init /\ [][Next]_vars

(* The program counter advances as long as no interrupt holds it up, and   *)
(* the timer fires while it is enabled.  No input ever has to come.        *)
Fairness == WF_vars(Main) /\ WF_vars(Stepper)
FairSpec == Spec /\ Fairness

-----------------------------------------------------------------------------
(* Safety.                                                                 *)

(* Every variable keeps its type; the planner and the segment ring never   *)
(* hold more than they have room for (plan_check_full_buffer, st_prep_buffer). *)
SysOK == /\ state \in States /\ abort \in BOOLEAN /\ soft_limit \in BOOLEAN
         /\ suspend \subseteq SuspendFlags /\ step_control \subseteq StepFlags
         /\ spindle_stop_ovr \subseteq StopOvrFlags
FlagsOK == /\ exec_state \subseteq ExecFlags /\ exec_alarm \in Alarms
           /\ ovr_stop \in BOOLEAN
MotionOK == /\ work \in 0 .. MaxBlocks * BlockSegs /\ segs \in 0 .. MaxSegs
            /\ stepping \in BOOLEAN /\ isr \in {"none", "idling"}
            /\ probe \in BOOLEAN
CtlOK == /\ pc \in Labels /\ ctx \in {"top", "suspend", "restore", "sleep"}
         /\ cont \in TopLabels /\ rt \subseteq ExecFlags /\ line \in AllLines
InputsOK == /\ cmds \in 0 .. MaxCommands /\ lines \in 0 .. MaxLines
            /\ resumeAsked \in BOOLEAN /\ queued \subseteq {"jog", "gcode"}
            /\ struck \in BOOLEAN
TypeOK == SysOK /\ FlagsOK /\ MotionOK /\ CtlOK /\ InputsOK

(* A reset is on its way: flagged, being waited for, or re-initialising.   *)
Resetting == \/ "RESET" \in exec_state \/ abort
             \/ pc \in {"criticalWait", "init", "clear", "boot"}

(* The three stop invariants hold except after a probing alarm that struck *)
(* in an unfinished hold: protocol_buffer_synchronize returns there        *)
(* (protocol.c:198), and the cycle stop at the end of the ramp makes IDLE  *)
(* of the ALARM.  AlarmLockKept below is about that.                       *)

(* While the step interrupt has segments to run, a reset would find the    *)
(* machine in a motion state and kill the steppers (motion_control.c:380). *)
SteppersKillable ==
  stepping /\ segs > 0 /\ ~Resetting /\ ~struck =>
    state \in {"CYCLE", "JOG"} \/ "EXECUTE_HOLD" \in step_control

(* A hold is declared complete only after the step interrupt has stopped,  *)
(* though flag and interrupt race (protocol.c:399-404).                    *)
HoldCompleteMeansStopped ==
  "HOLD_COMPLETE" \in suspend /\ ~Resetting /\ ~struck => ~stepping

(* IDLE and CHECK are reported, and lines that need them are accepted,     *)
(* only when nothing is stepping (protocol.c:418-422).                     *)
IdleMeansStopped ==
  state \in {"IDLE", "CHECK"} /\ ~Resetting /\ ~struck => ~stepping

(* Motion never resumes with the spindle stopped by the override, or with  *)
(* a request for it that was not served (protocol.c:373-374 sends the      *)
(* resume through the restore).  Excepted are the struck alarm and a soft  *)
(* limit on its way to the reset: both end a hold without serving it.      *)
NoMotionWithSpindleHeld ==
  state \in {"CYCLE", "JOG"} /\ ~struck /\ ~soft_limit => spindle_stop_ovr = {}

(* A hold or an open door ends in motion only after a cycle start that     *)
(* came later than the request to stop: no auto-start resumes it           *)
(* (protocol.c:355-357).  Excepted is a hold during a restore that had     *)
(* been completed before, see ResumeIsAsked below.                         *)
HeldInRestore == state = "HOLD" /\ "RESTORE_COMPLETE" \in suspend
ResumeNeedsOperator ==
  [][(state \in {"HOLD", "DOOR"} /\ state' = "CYCLE" /\ ~struck)
       => (resumeAsked \/ HeldInRestore)]_vars

(* Nothing but an alarm or the re-initialisation, which makes an alarm of  *)
(* it, ends sleep (protocol.c:654-661 and 52-54).                          *)
SleepEndsInAlarm == [][state = "SLEEP" => state' \in {"SLEEP", "ALARM"}]_vars

(* No motion is planned while the machine is locked in ALARM or asleep,    *)
(* whichever wait the line was in when it was locked (protocol.c:119-121). *)
NoPlanningWhenLocked == [][(state \in {"ALARM", "SLEEP"}) => work' <= work]_vars

(* A jog cancel ends, however it ends, with nothing of the jog left in the *)
(* buffers, unless the machine is re-initialised (protocol.c:409-415).     *)
CancelledJogIsFlushed ==
  [][("JOG_CANCEL" \in suspend /\ "JOG_CANCEL" \notin suspend')
       => ((work' = 0 /\ segs' = 0) \/ pc = "init")]_vars

-----------------------------------------------------------------------------
(* Liveness, under FairSpec.                                               *)

(* A reset reaches the re-initialisation from every wait of the main       *)
(* program (where no limit alarm discards it on the way).                  *)
ResetReinitialises == "RESET" \in exec_state ~> pc = "clear"

(* Each kind of stop comes to its end: the ramp of a feed hold is          *)
(* prepared, run and acknowledged, an open door ends in the de-energized   *)
(* state, and a jog that is being cancelled stops and is cleaned up.       *)
StopsComplete ==
  /\ state = "HOLD" ~> (state # "HOLD" \/ "HOLD_COMPLETE" \in suspend)
  /\ state = "DOOR" ~> (state # "DOOR" \/ "RETRACT_COMPLETE" \in suspend)
  /\ "JOG_CANCEL" \in suspend ~> "JOG_CANCEL" \notin suspend

(* Queued motion is run without being asked for, unless the machine is     *)
(* stopped for a reason the operator has to resolve.                       *)
QueuedMotionRuns ==
  work > 0 ~> (work = 0 \/ state \in {"HOLD", "DOOR", "SLEEP", "ALARM", "CHECK"})

(* Every line that is taken up is finished, which is when the host gets    *)
(* its answer, or the machine is suspended.                                *)
LineIsFinished == pc = "execute" ~> pc \in {"read", "suspend", "init"}

-----------------------------------------------------------------------------
(* What the documentation says and the code does not keep.                 *)

(* doc/markdown/commands.md on 0x85: ignored, if not in a JOG state.  A    *)
(* cancel that arrives just before the jog's own end is taken up in IDLE.  *)
LateJogCancelIgnored ==
  ~(state = "IDLE" /\ {"MOTION_CANCEL", "HOLD_COMPLETE"} \subseteq suspend)

(* motion_control.c:301-308: after the probing cycle, planner and steppers *)
(* are reset to remove the remainder of the motion.  A cycle that a resume *)
(* starts from that remainder in the last check point is reset with it,    *)
(* and no cycle stop ever ends its CYCLE state.                            *)
ProbeRemainderRemoved == state = "CYCLE" ~> state # "CYCLE"

(* doc/markdown/commands.md on $X: the alarm mode locks all G-code until   *)
(* the homing cycle or $X.  The cycle stop of motion that was still ending *)
(* when the alarm struck makes IDLE of it (protocol.c:418-422).            *)
AlarmLockKept ==
  [][state = "ALARM" => (state' \in {"ALARM", "SLEEP"} \/ pc = "execute")]_vars

(* protocol.c:355-357: a cycle start resumes a hold only if there is no    *)
(* newer hold.  A cycle start inside the delay of a second restore resumes *)
(* at once, and the end of the delay resumes any hold made in between.     *)
ResumeIsAsked ==
  [][(state \in {"HOLD", "DOOR"} /\ state' = "CYCLE") => resumeAsked]_vars

(* protocol.c:373-374: a resume restores a spindle that the override       *)
(* stopped.  A request left over from a hold that a probing alarm ended is *)
(* served in IDLE by a late motion cancel, where no resume restores it.    *)
SpindleComesBack ==
  state \in {"CYCLE", "JOG"} => "ENABLED" \notin spindle_stop_ovr

(* protocol.c:187-188: a synchronize works with a feed hold and waits for  *)
(* a clean cycle end.  With the planner empty it returns in the hold.      *)
SynchronizeIsClean ==
  [][(pc = "sync" /\ pc' \in {"dwelling", "probeSynced", "read"} /\ ~abort)
       => ~stepping]_vars

(* doc/markdown/commands.md on 0x84: immediately suspends into a DOOR      *)
(* state.  The flag is never dropped before the door has been acted on.    *)
DoorRequestKept ==
  [][(pc # "init" /\ "SAFETY_DOOR" \in exec_state /\ "SAFETY_DOOR" \notin exec_state')
       => (state \in {"DOOR", "ALARM", "CHECK", "SLEEP"} \/ "DOOR_AJAR" \in suspend)]_vars

=============================================================================
