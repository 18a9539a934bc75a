---------------------------- MODULE RtExecProofs ----------------------------
(***************************************************************************)
(* Theorems about RtExec, for every value of the constants, in four parts, *)
(* each of which uses the invariants of those before: the types; the locks *)
(* of ALARM and sleep; where the machine stands still; how holds, doors    *)
(* and cancelled jogs end.                                                 *)
(***************************************************************************)
EXTENDS RtExec, TLAPS

-----------------------------------------------------------------------------
(***************************************************************************)
(* Type correctness of RtExec, for every value of the constants.           *)
(*                                                                         *)
(* TypeOK is inductive: each lemma below shows that the steps of one part  *)
(* of the program keep it, one step per action; where an action writes     *)
(* several parts of the state, one level down, one step per part.          *)
(***************************************************************************)

(* The capacity of the planner in segments, as linear arithmetic needs it. *)
LEMMA Capacity ==
  /\ MaxBlocks * BlockSegs \in Nat
  /\ (MaxBlocks - 1) * BlockSegs + BlockSegs = MaxBlocks * BlockSegs
BY SizesAssumption

(* Empty buffers fit.                                                      *)
LEMMA EmptyFits == 0 \in 0 .. MaxBlocks * BlockSegs /\ 0 \in 0 .. MaxSegs
BY Capacity, SizesAssumption

(* A jump or a check point leads to a label.                               *)
LEMMA JumpTyped ==
  ASSUME CtlOK,
         \/ \E label \in Labels : Goto(label)
         \/ \E label \in TopLabels : ExecuteRealtime(label)
  PROVE  CtlOK'
BY DEF CtlOK, Goto, ExecuteRealtime, Labels, RtLabels

(* The next stage of a realtime call is one of its labels.                 *)
LEMMA StageTyped ==
  ASSUME NEW n \in Nat, NEW flags PROVE Stage(n, flags) \in Labels
BY DEF Stage, Labels, RtLabels

(* A return from protocol_exec_rt_system leads to a label of a caller.     *)
LEMMA ReturnTyped ==
  ASSUME NEW s, CtlOK, RtReturn(s), rt' \subseteq ExecFlags PROVE CtlOK'
<1>1. pc' \in {ctx, "suspend", cont} /\ pc' \in Labels
  <2>1. CASE ctx \in {"sleep", "restore"}
    BY <2>1 DEF CtlOK, RtReturn, Labels, TopLabels
  <2>2. CASE ctx \in {"top", "suspend"}
    BY <2>2 DEF CtlOK, RtReturn, Labels, TopLabels
  <2> QED
    BY <2>1, <2>2 DEF CtlOK
<1>2. ctx' \in {"top", "suspend", "restore", "sleep"}
  BY DEF CtlOK, RtReturn
<1> QED
  BY <1>1, <1>2 DEF CtlOK, RtReturn

(* protocol_exec_rt_system keeps the types.                                *)
LEMMA RtSystemTyped == TypeOK /\ RtSystem => TypeOK'
<1> SUFFICES ASSUME TypeOK, RtSystem PROVE TypeOK'
  OBVIOUS
<1> USE DEF TypeOK, SysOK, States, SuspendFlags, StepFlags, StopOvrFlags,
     FlagsOK, ExecFlags, HoldFlags, Alarms, MotionOK, CtlOK, Labels, RtLabels,
     TopLabels, AllLines, InputsOK, At, Goto, sysVars, flagVars, motionVars,
     ctlVars, histVars
<1>1. CASE ExecAlarm
  <2>1. SysOK'
    BY <1>1 DEF ExecAlarm
  <2>2. FlagsOK'
    BY <1>1 DEF ExecAlarm
  <2>3. MotionOK'
    BY <1>1 DEF ExecAlarm
  <2>4. CtlOK'
    <3> HIDE DEF CtlOK, Labels, RtLabels, TopLabels, Goto
    <3>1. Goto("critical") \/ Goto("clearAlarm") \/ Goto("snapshot")
      BY <1>1 DEF ExecAlarm
    <3>2. {"critical", "clearAlarm", "snapshot"} \subseteq Labels
      BY DEF Labels, RtLabels, TopLabels
    <3> QED
      BY <3>1, <3>2, JumpTyped DEF TypeOK
  <2>5. InputsOK'
    BY <1>1 DEF ExecAlarm
  <2> QED
    BY <2>1, <2>2, <2>3, <2>4, <2>5 DEF TypeOK
<1>2. CASE ExecCritical
  BY <1>2 DEF ExecCritical
<1>3. CASE ExecCriticalWait
  BY <1>3 DEF ExecCriticalWait
<1>4. CASE ExecClearAlarm
  BY <1>4 DEF ExecClearAlarm
<1>5. CASE ExecSnapshot
  <2>1. SysOK'
    BY <1>5 DEF ExecSnapshot, RtReturn, Stage
  <2>2. FlagsOK'
    BY <1>5 DEF ExecSnapshot, RtReturn, Stage
  <2>3. MotionOK'
    BY <1>5 DEF ExecSnapshot, RtReturn, Stage
  <2>4. CtlOK'
    <3>1. CASE "RESET" \in exec_state
      BY <1>5, <3>1, ReturnTyped DEF ExecSnapshot, TypeOK, FlagsOK
    <3>2. CASE "RESET" \notin exec_state
      BY <1>5, <3>2, StageTyped DEF ExecSnapshot, TypeOK, CtlOK, FlagsOK
    <3> QED
      BY <3>1, <3>2
  <2>5. InputsOK'
    BY <1>5 DEF ExecSnapshot, RtReturn, Stage
  <2> QED
    BY <2>1, <2>2, <2>3, <2>4, <2>5 DEF TypeOK
<1>6. CASE ExecStatus
  BY <1>6 DEF ExecStatus, Stage
<1>7. CASE ExecHold
  BY <1>7 DEF ExecHold, HoldBegins, HoldState, DoorSuspend
<1>8. CASE ExecHoldClear
  BY <1>8 DEF ExecHoldClear, Stage
<1>9. CASE ExecStart
  <2>1. SysOK'
    BY <1>9 DEF ExecStart, StartBlocked, ReadyToStart, Restored, DoorClosed, SpindleHeld
  <2>2. FlagsOK'
    BY <1>9 DEF ExecStart, StartBlocked, ReadyToStart, Restored, DoorClosed, SpindleHeld
  <2>3. MotionOK'
    BY <1>9 DEF ExecStart, StartBlocked, ReadyToStart, Restored, DoorClosed, SpindleHeld
  <2>4. CtlOK'
    <3> HIDE DEF CtlOK, Labels, RtLabels, TopLabels, Goto
    <3>1. Goto("startClear") \/ Goto("startPrep")
      BY <1>9 DEF ExecStart
    <3>2. {"startClear", "startPrep"} \subseteq Labels
      BY DEF Labels, RtLabels, TopLabels
    <3> QED
      BY <3>1, <3>2, JumpTyped DEF TypeOK
  <2>5. InputsOK'
    BY <1>9 DEF ExecStart, StartBlocked, ReadyToStart, Restored, DoorClosed, SpindleHeld
  <2> QED
    BY <2>1, <2>2, <2>3, <2>4, <2>5 DEF TypeOK
<1>10. CASE ExecStartPrep
  <2>1. SysOK'
    BY <1>10 DEF ExecStartPrep, st_prep_buffer, Smaller
  <2>2. FlagsOK'
    BY <1>10 DEF ExecStartPrep, st_prep_buffer, Smaller
  <2>3. MotionOK'
    BY <1>10, SizesAssumption DEF ExecStartPrep, st_prep_buffer, Smaller
  <2>4. CtlOK'
    BY <1>10 DEF ExecStartPrep, st_prep_buffer, Smaller
  <2>5. InputsOK'
    BY <1>10, SizesAssumption DEF ExecStartPrep, st_prep_buffer, Smaller
  <2> QED
    BY <2>1, <2>2, <2>3, <2>4, <2>5 DEF TypeOK
<1>11. CASE ExecStartWake
  BY <1>11 DEF ExecStartWake
<1>12. CASE ExecStartClear
  BY <1>12 DEF ExecStartClear, Stage
<1>13. CASE ExecStop
  <2>1. SysOK'
    BY <1>13 DEF ExecStop, HoldStops, EmptyBuffers
  <2>2. FlagsOK'
    BY <1>13 DEF ExecStop, HoldStops, EmptyBuffers
  <2>3. MotionOK'
    BY <1>13, EmptyFits DEF ExecStop, HoldStops, EmptyBuffers
  <2>4. CtlOK'
    BY <1>13 DEF ExecStop, HoldStops, EmptyBuffers
  <2>5. InputsOK'
    BY <1>13 DEF ExecStop, HoldStops, EmptyBuffers
  <2> QED
    BY <2>1, <2>2, <2>3, <2>4, <2>5 DEF TypeOK
<1>14. CASE ExecStopClear
  BY <1>14 DEF ExecStopClear
<1>15. CASE ExecFinish
  <2>1. SysOK'
    BY <1>15 DEF ExecFinish, Reloads, st_prep_buffer, Smaller, RtReturn
  <2>2. FlagsOK'
    BY <1>15 DEF ExecFinish, Reloads, st_prep_buffer, Smaller, RtReturn
  <2>3. MotionOK'
    BY <1>15, SizesAssumption DEF ExecFinish, Reloads, st_prep_buffer, Smaller, RtReturn
  <2>4. CtlOK'
    BY <1>15 DEF ExecFinish, Reloads, st_prep_buffer, Smaller, RtReturn
  <2>5. InputsOK'
    BY <1>15, SizesAssumption DEF ExecFinish, Reloads, st_prep_buffer, Smaller, RtReturn
  <2> QED
    BY <2>1, <2>2, <2>3, <2>4, <2>5 DEF TypeOK
<1> QED
  BY <1>1, <1>2, <1>3, <1>4, <1>5, <1>6, <1>7, <1>8, <1>9, <1>10, <1>11,
       <1>12, <1>13, <1>14, <1>15 DEF RtSystem

(* The suspend loops keep the types.                                       *)
LEMMA RtSuspendTyped == TypeOK /\ RtSuspend => TypeOK'
<1> SUFFICES ASSUME TypeOK, RtSuspend PROVE TypeOK'
  OBVIOUS
<1> USE DEF TypeOK, SysOK, States, SuspendFlags, StepFlags, StopOvrFlags,
     FlagsOK, ExecFlags, HoldFlags, Alarms, MotionOK, CtlOK, Labels, RtLabels,
     TopLabels, AllLines, InputsOK, At, Goto, sysVars, flagVars, motionVars,
     ctlVars, histVars
<1>1. CASE SuspendAborted
  BY <1>1 DEF SuspendAborted, LeaveSuspend
<1>2. CASE SuspendWait
  BY <1>2 DEF SuspendWait, PollAgain
<1>3. CASE Retract
  BY <1>3 DEF Retract, InSuspend, PollAgain
<1>4. CASE FallAsleep
  <2>1. SysOK'
    BY <1>4 DEF FallAsleep, InSuspend
  <2>2. FlagsOK'
    BY <1>4 DEF FallAsleep, InSuspend
  <2>3. MotionOK'
    BY <1>4 DEF FallAsleep, InSuspend
  <2>4. CtlOK'
    BY <1>4 DEF FallAsleep, InSuspend
  <2>5. InputsOK'
    BY <1>4 DEF FallAsleep, InSuspend
  <2> QED
    BY <2>1, <2>2, <2>3, <2>4, <2>5 DEF TypeOK
<1>5. CASE Sleeping
  <2>1. SysOK'
    BY <1>5 DEF Sleeping, LeaveSuspend, PollAgain
  <2>2. FlagsOK'
    BY <1>5 DEF Sleeping, LeaveSuspend, PollAgain
  <2>3. MotionOK'
    BY <1>5 DEF Sleeping, LeaveSuspend, PollAgain
  <2>4. CtlOK'
    <3>1. CASE abort
      BY <1>5, <3>1 DEF Sleeping, LeaveSuspend
    <3>2. CASE ~abort
      <4>1. pc' = "alarm" /\ ctx' = "sleep" /\ UNCHANGED <<cont, rt, line>>
        BY <1>5, <3>2 DEF Sleeping, PollAgain
      <4> QED
        BY <4>1
    <3> QED
      BY <3>1, <3>2
  <2>5. InputsOK'
    BY <1>5 DEF Sleeping, LeaveSuspend, PollAgain
  <2> QED
    BY <2>1, <2>2, <2>3, <2>4, <2>5 DEF TypeOK
<1>6. CASE DoorRetracted
  <2>1. SysOK'
    BY <1>6 DEF DoorRetracted, InSuspend, PollAgain, RestoreEnd
  <2>2. FlagsOK'
    BY <1>6 DEF DoorRetracted, InSuspend, PollAgain, RestoreEnd
  <2>3. MotionOK'
    BY <1>6 DEF DoorRetracted, InSuspend, PollAgain, RestoreEnd
  <2>4. CtlOK'
    <3>1. /\ pc' = "alarm" /\ ctx' \in {"suspend", "restore"}
          /\ UNCHANGED <<cont, rt, line>>
      BY <1>6 DEF DoorRetracted, PollAgain
    <3> QED
      BY <3>1
  <2>5. InputsOK'
    BY <1>6 DEF DoorRetracted, InSuspend, PollAgain, RestoreEnd
  <2> QED
    BY <2>1, <2>2, <2>3, <2>4, <2>5 DEF TypeOK
<1>7. CASE RestoreDelayOver
  BY <1>7 DEF RestoreDelayOver, PollAgain, RestoreEnd
<1>8. CASE HoldManager
  BY <1>8 DEF HoldManager, InSuspend, PollAgain
<1>9. CASE RestoreDelay
  BY <1>9 DEF RestoreDelay, PollAgain
<1> QED
  BY <1>1, <1>2, <1>3, <1>4, <1>5, <1>6, <1>7, <1>8, <1>9 DEF RtSuspend

(* Start-up and the main loop keep the types.                              *)
LEMMA MainLoopTyped == TypeOK /\ MainLoop => TypeOK'
<1> SUFFICES ASSUME TypeOK, MainLoop PROVE TypeOK'
  OBVIOUS
<1> USE DEF TypeOK, SysOK, States, SuspendFlags, StepFlags, StopOvrFlags,
     FlagsOK, ExecFlags, HoldFlags, Alarms, MotionOK, CtlOK, Labels, RtLabels,
     TopLabels, AllLines, InputsOK, At, Goto, sysVars, flagVars, motionVars,
     ctlVars, histVars
<1>1. CASE Init1
  <2>1. SysOK'
    BY <1>1 DEF Init1
  <2>2. FlagsOK'
    BY <1>1 DEF Init1
  <2>3. MotionOK'
    BY <1>1 DEF Init1
  <2>4. CtlOK'
    BY <1>1 DEF Init1
  <2>5. InputsOK'
    BY <1>1 DEF Init1
  <2> QED
    BY <2>1, <2>2, <2>3, <2>4, <2>5 DEF TypeOK
<1>2. CASE Clear
  <2>1. SysOK'
    BY <1>2 DEF Clear, EmptyBuffers
  <2>2. FlagsOK'
    BY <1>2 DEF Clear, EmptyBuffers
  <2>3. MotionOK'
    BY <1>2, EmptyFits DEF Clear, EmptyBuffers
  <2>4. CtlOK'
    BY <1>2 DEF Clear, EmptyBuffers
  <2>5. InputsOK'
    BY <1>2 DEF Clear, EmptyBuffers
  <2> QED
    BY <2>1, <2>2, <2>3, <2>4, <2>5 DEF TypeOK
<1>3. CASE Boot
  BY <1>3 DEF Boot
<1>4. ASSUME NEW l \in Lines, ReadLine(l) PROVE TypeOK'
  BY <1>4, BoundsAssumption, InputsAssumption DEF ReadLine
<1>5. CASE ReadEmpty
  BY <1>5 DEF ReadEmpty, ExecuteRealtime, auto_cycle_start
<1>6. CASE Loop
  BY <1>6 DEF Loop
<1> QED
  BY <1>1, <1>2, <1>3, <1>4, <1>5, <1>6 DEF MainLoop

(* The execution of a line keeps the types.                                *)
LEMMA LineStepsTyped == TypeOK /\ LineSteps => TypeOK'
<1> SUFFICES ASSUME TypeOK, LineSteps PROVE TypeOK'
  OBVIOUS
<1> USE DEF TypeOK, SysOK, States, SuspendFlags, StepFlags, StopOvrFlags,
     FlagsOK, ExecFlags, HoldFlags, Alarms, MotionOK, CtlOK, Labels, RtLabels,
     TopLabels, AllLines, InputsOK, At, Goto, sysVars, flagVars, motionVars,
     ctlVars, histVars
<1>1. CASE ExecuteAborted
  BY <1>1 DEF ExecuteAborted
<1>2. CASE RefuseLine
  BY <1>2 DEF RefuseLine, Execute, RefusedIn, LineDone
<1>3. CASE Move
  <2>1. SysOK'
    BY <1>3 DEF Move, Accepted, Execute, RefusedIn, mc_line, SoftViolation, ExecuteRealtime, LineDone
  <2>2. FlagsOK'
    BY <1>3 DEF Move, Accepted, Execute, RefusedIn, mc_line, SoftViolation, ExecuteRealtime, LineDone
  <2>3. MotionOK'
    BY <1>3 DEF Move, Accepted, Execute, RefusedIn, mc_line, SoftViolation, ExecuteRealtime, LineDone
  <2>4. CtlOK'
    BY <1>3 DEF Move, Accepted, Execute, RefusedIn, mc_line, SoftViolation, ExecuteRealtime, LineDone
  <2>5. InputsOK'
    BY <1>3 DEF Move, Accepted, Execute, RefusedIn, mc_line, SoftViolation, ExecuteRealtime, LineDone
  <2> QED
    BY <2>1, <2>2, <2>3, <2>4, <2>5 DEF TypeOK
<1>4. CASE Jog
  BY <1>4 DEF Jog, Accepted, Execute, RefusedIn, ExecuteRealtime, LineDone
<1>5. CASE StartSync
  BY <1>5 DEF StartSync, Accepted, Execute, RefusedIn, ExecuteRealtime, auto_cycle_start
<1>6. CASE CheckMode
  BY <1>6 DEF CheckMode, Accepted, Execute, RefusedIn, LineDone, mc_reset, InMotionState
<1>7. CASE Unlock
  BY <1>7 DEF Unlock, Accepted, Execute, RefusedIn, LineDone
<1>8. CASE Sleep
  BY <1>8 DEF Sleep, Accepted, Execute, RefusedIn, LineDone
<1>9. CASE RoomAborted
  BY <1>9 DEF RoomAborted, AfterLine
<1>10. CASE RoomFull
  BY <1>10, SizesAssumption DEF RoomFull, PlanFull, ExecuteRealtime, auto_cycle_start
<1>11. CASE QueueBlock
  BY <1>11, Capacity, SizesAssumption, SizesAssumption DEF QueueBlock, PlanFull, AfterLine
<1>12. CASE JogStart
  <2>1. SysOK'
    BY <1>12 DEF JogStart, LineDone
  <2>2. FlagsOK'
    BY <1>12 DEF JogStart, LineDone
  <2>3. MotionOK'
    BY <1>12 DEF JogStart, LineDone
  <2>4. CtlOK'
    <3> HIDE DEF CtlOK, Labels, RtLabels, TopLabels, Goto
    <3>1. Goto("jogPrep") \/ Goto("read")
      BY <1>12 DEF JogStart, LineDone
    <3>2. {"jogPrep", "read"} \subseteq Labels
      BY DEF Labels, RtLabels, TopLabels
    <3> QED
      BY <3>1, <3>2, JumpTyped DEF TypeOK
  <2>5. InputsOK'
    BY <1>12 DEF JogStart, LineDone
  <2> QED
    BY <2>1, <2>2, <2>3, <2>4, <2>5 DEF TypeOK
<1>13. CASE JogPrep
  <2>1. SysOK'
    BY <1>13 DEF JogPrep, st_prep_buffer, Smaller
  <2>2. FlagsOK'
    BY <1>13 DEF JogPrep, st_prep_buffer, Smaller
  <2>3. MotionOK'
    BY <1>13, SizesAssumption DEF JogPrep, st_prep_buffer, Smaller
  <2>4. CtlOK'
    BY <1>13 DEF JogPrep, st_prep_buffer, Smaller
  <2>5. InputsOK'
    BY <1>13, SizesAssumption DEF JogPrep, st_prep_buffer, Smaller
  <2> QED
    BY <2>1, <2>2, <2>3, <2>4, <2>5 DEF TypeOK
<1>14. CASE JogWake
  BY <1>14 DEF JogWake, LineDone
<1>15. CASE SyncAgain
  BY <1>15 DEF SyncAgain, ExecuteRealtime
<1>16. CASE Synced
  <2>1. SysOK'
    BY <1>16 DEF Synced, LineDone
  <2>2. FlagsOK'
    BY <1>16 DEF Synced, LineDone
  <2>3. MotionOK'
    BY <1>16 DEF Synced, LineDone
  <2>4. CtlOK'
    <3> HIDE DEF CtlOK, Labels, RtLabels, TopLabels, Goto
    <3>1. Goto("dwelling") \/ Goto("probeSynced") \/ Goto("read")
      BY <1>16 DEF Synced, LineDone
    <3>2. {"dwelling", "probeSynced", "read"} \subseteq Labels
      BY DEF Labels, RtLabels, TopLabels
    <3> QED
      BY <3>1, <3>2, JumpTyped DEF TypeOK
  <2>5. InputsOK'
    BY <1>16 DEF Synced, LineDone
  <2> QED
    BY <2>1, <2>2, <2>3, <2>4, <2>5 DEF TypeOK
<1>17. CASE Dwell
  <2>1. SysOK'
    BY <1>17 DEF Dwell, LineDone, ExecuteRealtime
  <2>2. FlagsOK'
    BY <1>17 DEF Dwell, LineDone, ExecuteRealtime
  <2>3. MotionOK'
    BY <1>17 DEF Dwell, LineDone, ExecuteRealtime
  <2>4. CtlOK'
    <3> HIDE DEF CtlOK, Labels, RtLabels, TopLabels, Goto
    <3>1. Goto("read") \/ ExecuteRealtime("read")
      BY <1>17 DEF Dwell, LineDone
    <3>2. {"read"} \subseteq Labels /\ {"read"} \subseteq TopLabels
      BY DEF Labels, RtLabels, TopLabels
    <3> QED
      BY <3>1, <3>2, JumpTyped DEF TypeOK
  <2>5. InputsOK'
    BY <1>17 DEF Dwell, LineDone, ExecuteRealtime
  <2> QED
    BY <2>1, <2>2, <2>3, <2>4, <2>5 DEF TypeOK
<1>18. CASE ProbeInitial
  BY <1>18 DEF ProbeInitial, ExecuteRealtime
<1>19. CASE ProbeMove
  <2>1. SysOK'
    BY <1>19 DEF ProbeMove, mc_line, SoftViolation, ExecuteRealtime, LineDone
  <2>2. FlagsOK'
    BY <1>19 DEF ProbeMove, mc_line, SoftViolation, ExecuteRealtime, LineDone
  <2>3. MotionOK'
    BY <1>19 DEF ProbeMove, mc_line, SoftViolation, ExecuteRealtime, LineDone
  <2>4. CtlOK'
    <3> HIDE DEF CtlOK, Labels, RtLabels, TopLabels, Goto
    <3>1. Goto("softReset") \/ Goto("read")
          \/ ExecuteRealtime("softWait") \/ ExecuteRealtime("room")
      BY <1>19 DEF ProbeMove, mc_line, SoftViolation, LineDone
    <3>2. {"softReset", "read"} \subseteq Labels /\ {"softWait", "room"} \subseteq TopLabels
      BY DEF Labels, RtLabels, TopLabels
    <3> QED
      BY <3>1, <3>2, JumpTyped DEF TypeOK
  <2>5. InputsOK'
    BY <1>19 DEF ProbeMove, mc_line, SoftViolation, ExecuteRealtime, LineDone
  <2> QED
    BY <2>1, <2>2, <2>3, <2>4, <2>5 DEF TypeOK
<1>20. CASE ProbeArm
  BY <1>20 DEF ProbeArm, ExecuteRealtime
<1>21. CASE ProbeWait
  <2>1. SysOK'
    BY <1>21 DEF ProbeWait, LineDone, ExecuteRealtime
  <2>2. FlagsOK'
    BY <1>21 DEF ProbeWait, LineDone, ExecuteRealtime
  <2>3. MotionOK'
    BY <1>21 DEF ProbeWait, LineDone, ExecuteRealtime
  <2>4. CtlOK'
    <3> HIDE DEF CtlOK, Labels, RtLabels, TopLabels, Goto
    <3>1. Goto("read") \/ ExecuteRealtime("probeWait")
      BY <1>21 DEF ProbeWait, LineDone
    <3>2. {"read"} \subseteq Labels /\ {"probeWait"} \subseteq TopLabels
      BY DEF Labels, RtLabels, TopLabels
    <3> QED
      BY <3>1, <3>2, JumpTyped DEF TypeOK
  <2>5. InputsOK'
    BY <1>21 DEF ProbeWait, LineDone, ExecuteRealtime
  <2> QED
    BY <2>1, <2>2, <2>3, <2>4, <2>5 DEF TypeOK
<1>22. CASE ProbeOver
  <2>1. SysOK'
    BY <1>22 DEF ProbeOver, ExecuteRealtime
  <2>2. FlagsOK'
    BY <1>22 DEF ProbeOver, ExecuteRealtime
  <2>3. MotionOK'
    BY <1>22 DEF ProbeOver, ExecuteRealtime
  <2>4. CtlOK'
    BY <1>22 DEF ProbeOver, ExecuteRealtime
  <2>5. InputsOK'
    BY <1>22 DEF ProbeOver, ExecuteRealtime
  <2> QED
    BY <2>1, <2>2, <2>3, <2>4, <2>5 DEF TypeOK
<1>23. CASE ProbeEnd
  <2>1. SysOK'
    BY <1>23 DEF ProbeEnd, LineDone, EmptyBuffers
  <2>2. FlagsOK'
    BY <1>23 DEF ProbeEnd, LineDone, EmptyBuffers
  <2>3. MotionOK'
    BY <1>23, EmptyFits DEF ProbeEnd, LineDone, EmptyBuffers
  <2>4. CtlOK'
    BY <1>23 DEF ProbeEnd, LineDone, EmptyBuffers
  <2>5. InputsOK'
    BY <1>23 DEF ProbeEnd, LineDone, EmptyBuffers
  <2> QED
    BY <2>1, <2>2, <2>3, <2>4, <2>5 DEF TypeOK
<1>24. CASE SoftWait
  <2>1. SysOK'
    BY <1>24 DEF SoftWait, ExecuteRealtime
  <2>2. FlagsOK'
    BY <1>24 DEF SoftWait, ExecuteRealtime
  <2>3. MotionOK'
    BY <1>24 DEF SoftWait, ExecuteRealtime
  <2>4. CtlOK'
    <3> HIDE DEF CtlOK, Labels, RtLabels, TopLabels, Goto
    <3>1. Goto("softReset") \/ ExecuteRealtime("room") \/ ExecuteRealtime("softWait")
      BY <1>24 DEF SoftWait
    <3>2. {"softReset"} \subseteq Labels /\ {"room", "softWait"} \subseteq TopLabels
      BY DEF Labels, RtLabels, TopLabels
    <3> QED
      BY <3>1, <3>2, JumpTyped DEF TypeOK
  <2>5. InputsOK'
    BY <1>24 DEF SoftWait, ExecuteRealtime
  <2> QED
    BY <2>1, <2>2, <2>3, <2>4, <2>5 DEF TypeOK
<1>25. CASE SoftReset
  <2>1. SysOK'
    BY <1>25 DEF SoftReset, mc_reset, InMotionState
  <2>2. FlagsOK'
    BY <1>25 DEF SoftReset, mc_reset, InMotionState
  <2>3. MotionOK'
    BY <1>25 DEF SoftReset, mc_reset, InMotionState
  <2>4. CtlOK'
    BY <1>25 DEF SoftReset, mc_reset, InMotionState
  <2>5. InputsOK'
    BY <1>25 DEF SoftReset, mc_reset, InMotionState
  <2> QED
    BY <2>1, <2>2, <2>3, <2>4, <2>5 DEF TypeOK
<1>26. CASE SoftAlarm
  BY <1>26 DEF SoftAlarm, ExecuteRealtime
<1> QED
  BY <1>1, <1>2, <1>3, <1>4, <1>5, <1>6, <1>7, <1>8, <1>9, <1>10, <1>11,
       <1>12, <1>13, <1>14, <1>15, <1>16, <1>17, <1>18, <1>19, <1>20, <1>21,
       <1>22, <1>23, <1>24, <1>25, <1>26 DEF LineSteps

(* The step interrupt keeps the types.                                     *)
LEMMA StepperTyped == TypeOK /\ Stepper => TypeOK'
<1> SUFFICES ASSUME TypeOK, Stepper PROVE TypeOK'
  OBVIOUS
<1> USE DEF TypeOK, SysOK, States, SuspendFlags, StepFlags, StopOvrFlags,
     FlagsOK, ExecFlags, HoldFlags, Alarms, MotionOK, CtlOK, Labels, RtLabels,
     TopLabels, AllLines, InputsOK, At, Goto, sysVars, flagVars, motionVars,
     ctlVars, histVars
<1>1. CASE StepSegment
  <2>1. SysOK'
    BY <1>1 DEF StepSegment, Step
  <2>2. FlagsOK'
    BY <1>1 DEF StepSegment, Step
  <2>3. MotionOK'
    <3>1. segs' \in 0 .. MaxSegs
      BY <1>1, SizesAssumption DEF StepSegment, Step
    <3>2. work' = work /\ stepping' = stepping /\ isr' = isr
      BY <1>1 DEF StepSegment, Step
    <3>3. probe' \in BOOLEAN
      BY <1>1 DEF StepSegment, Step
    <3> QED
      BY <3>1, <3>2, <3>3
  <2>4. CtlOK'
    BY <1>1 DEF StepSegment, Step
  <2>5. InputsOK'
    BY <1>1, SizesAssumption DEF StepSegment, Step
  <2> QED
    BY <2>1, <2>2, <2>3, <2>4, <2>5 DEF TypeOK
<1>2. CASE StepEmpty
  <2>1. SysOK'
    BY <1>2 DEF StepEmpty, Step, Refillable
  <2>2. FlagsOK'
    BY <1>2 DEF StepEmpty, Step, Refillable
  <2>3. MotionOK'
    BY <1>2 DEF StepEmpty, Step, Refillable
  <2>4. CtlOK'
    BY <1>2 DEF StepEmpty, Step, Refillable
  <2>5. InputsOK'
    BY <1>2 DEF StepEmpty, Step, Refillable
  <2> QED
    BY <2>1, <2>2, <2>3, <2>4, <2>5 DEF TypeOK
<1>3. CASE StepStopped
  BY <1>3 DEF StepStopped
<1> QED
  BY <1>1, <1>2, <1>3 DEF Stepper

(* Realtime commands and the limit pin keep the types.                     *)
LEMMA InputsTyped == TypeOK /\ Inputs => TypeOK'
<1> SUFFICES ASSUME TypeOK, Inputs PROVE TypeOK'
  OBVIOUS
<1> USE DEF TypeOK, SysOK, States, SuspendFlags, StepFlags, StopOvrFlags,
     FlagsOK, ExecFlags, HoldFlags, Alarms, MotionOK, CtlOK, Labels, RtLabels,
     TopLabels, AllLines, InputsOK, At, Goto, sysVars, flagVars, motionVars,
     ctlVars, histVars
<1>1. CASE CmdReset
  <2>1. SysOK'
    BY <1>1 DEF CmdReset, Input, mc_reset, InMotionState
  <2>2. FlagsOK'
    BY <1>1 DEF CmdReset, Input, mc_reset, InMotionState
  <2>3. MotionOK'
    BY <1>1, BoundsAssumption DEF CmdReset, Input, mc_reset, InMotionState
  <2>4. CtlOK'
    BY <1>1 DEF CmdReset, Input, mc_reset, InMotionState
  <2>5. InputsOK'
    BY <1>1, BoundsAssumption DEF CmdReset, Input, mc_reset, InMotionState
  <2> QED
    BY <2>1, <2>2, <2>3, <2>4, <2>5 DEF TypeOK
<1>2. CASE CmdStatus
  BY <1>2, BoundsAssumption DEF CmdStatus, Input, SetFlag
<1>3. CASE CmdCycleStart
  BY <1>3, BoundsAssumption DEF CmdCycleStart, Input, SetFlag
<1>4. CASE CmdFeedHold
  BY <1>4, BoundsAssumption DEF CmdFeedHold, Input, SetFlag
<1>5. CASE CmdSafetyDoor
  BY <1>5, BoundsAssumption DEF CmdSafetyDoor, Input, SetFlag
<1>6. CASE CmdJogCancel
  <2>1. SysOK'
    BY <1>6 DEF CmdJogCancel, Input, SetFlag
  <2>2. FlagsOK'
    BY <1>6 DEF CmdJogCancel, Input, SetFlag
  <2>3. MotionOK'
    BY <1>6, BoundsAssumption DEF CmdJogCancel, Input, SetFlag
  <2>4. CtlOK'
    BY <1>6 DEF CmdJogCancel, Input, SetFlag
  <2>5. InputsOK'
    BY <1>6, BoundsAssumption DEF CmdJogCancel, Input, SetFlag
  <2> QED
    BY <2>1, <2>2, <2>3, <2>4, <2>5 DEF TypeOK
<1>7. CASE CmdSpindleStop
  BY <1>7, BoundsAssumption DEF CmdSpindleStop, Input
<1>8. CASE LimitPin
  <2>1. SysOK'
    BY <1>8 DEF LimitPin, Input, InMotionState
  <2>2. FlagsOK'
    BY <1>8 DEF LimitPin, Input, InMotionState
  <2>3. MotionOK'
    BY <1>8, BoundsAssumption DEF LimitPin, Input, InMotionState
  <2>4. CtlOK'
    BY <1>8 DEF LimitPin, Input, InMotionState
  <2>5. InputsOK'
    BY <1>8, BoundsAssumption DEF LimitPin, Input, InMotionState
  <2> QED
    BY <2>1, <2>2, <2>3, <2>4, <2>5 DEF TypeOK
<1> QED
  BY <1>1, <1>2, <1>3, <1>4, <1>5, <1>6, <1>7, <1>8 DEF Inputs

LEMMA TypeInitial == Init => TypeOK
<1> SUFFICES ASSUME Init PROVE TypeOK
  OBVIOUS
<1>1. SysOK
  BY DEF Init, SysOK, States
<1>2. FlagsOK
  BY DEF Init, FlagsOK, Alarms
<1>3. MotionOK
  BY EmptyFits DEF Init, MotionOK
<1>4. CtlOK
  BY DEF Init, CtlOK, Labels, TopLabels, AllLines
<1>5. InputsOK
  <2>1. 0 \in 0 .. MaxCommands /\ 0 \in 0 .. MaxLines
    BY BoundsAssumption
  <2> QED
    BY <2>1 DEF Init, InputsOK
<1> QED
  BY <1>1, <1>2, <1>3, <1>4, <1>5 DEF TypeOK

LEMMA TypeInductive == TypeOK /\ [Next]_vars => TypeOK'
<1> SUFFICES ASSUME TypeOK, [Next]_vars PROVE TypeOK'
  OBVIOUS
<1>1. CASE Next
  BY <1>1, RtSystemTyped, RtSuspendTyped, MainLoopTyped, LineStepsTyped,
     StepperTyped, InputsTyped DEF Next, Main
<1>2. CASE UNCHANGED vars
  BY <1>2
    DEF vars, sysVars, flagVars, motionVars, ctlVars, histVars, TypeOK,
         SysOK, States, SuspendFlags, StepFlags, StopOvrFlags, FlagsOK,
         ExecFlags, HoldFlags, Alarms, MotionOK, CtlOK, Labels, RtLabels,
         TopLabels, AllLines, InputsOK
<1> QED
  BY <1>1, <1>2

(* Every variable keeps its type, and neither the planner nor the segment  *)
(* ring ever holds more than it has room for.                              *)
THEOREM TypeCorrect == Spec => []TypeOK
  BY TypeInitial, TypeInductive, PTL DEF Spec

-----------------------------------------------------------------------------
(***************************************************************************)
(* The locks of RtExec, for every value of the constants: sleep ends in an *)
(* alarm only, and nothing is planned in ALARM or asleep.                  *)
(*                                                                         *)
(* The argument follows the main program.  Where it may go on with a line, *)
(* nothing is suspended; once aborted, it takes no flag but the reset; a   *)
(* sleep request is taken up before another line is; and an alarm that     *)
(* strikes in one of the waits of a line brings the reset that aborts it.  *)
(***************************************************************************)

Early == {"alarm", "critical", "criticalWait", "clearAlarm", "snapshot", "status", "hold"}
Tail == RtLabels \ {"alarm", "critical", "criticalWait", "clearAlarm", "snapshot"}

(* The waits of a line from which it goes on to move the machine.          *)
Waits == {"room", "jogStart", "jogPrep", "jogWake", "sync", "dwelling", "probeSynced",
          "probeArm", "probeWait", "softWait", "softReset", "softAlarm"}

(* Where the line goes on: here, or after the realtime call.               *)
Place == IF pc \in TopLabels THEN pc ELSE cont

ContextOK ==
  /\ pc \in TopLabels => ctx = "top"
  /\ pc \in {"suspend", "sleep", "restore"} => ctx = pc
  /\ cont \notin {"init", "clear", "boot", "softReset", "softAlarm"}

AbortOK ==
  /\ abort => "RESET" \in exec_state \/ pc = "criticalWait"
  /\ pc \in Tail \cup {"clear", "boot"} => ~abort

SuspendOK ==
  /\ pc \in TopLabels \ {"init"} /\ ~abort => suspend = {}
  /\ ctx = "top" /\ pc \in Early /\ ~abort => suspend = {}

(* Which alarm is flagged where.                                           *)
AlarmOK ==
  /\ exec_alarm = "ABORT_CYCLE" => "RESET" \in exec_state
  /\ exec_alarm \in {"HARD_LIMIT", "SOFT_LIMIT"} =>
       "RESET" \in exec_state \/ pc = "criticalWait"
  /\ exec_alarm \in {"PROBE_INITIAL", "PROBE_CONTACT"} =>
       pc \in {"alarm", "clearAlarm"} /\ cont \in {"read", "probeEnd"}
  /\ pc = "softAlarm" => "RESET" \in exec_state
  /\ pc = "critical" => exec_alarm \in {"HARD_LIMIT", "SOFT_LIMIT"} /\ state = "ALARM"

(* A soft limit ends in the reset of the critical loop.                    *)
SoftOK ==
  soft_limit /\ ~abort =>
    \/ Place = "softWait"
    \/ pc = "softReset"
    \/ pc = "softAlarm" /\ "RESET" \in exec_state
    \/ /\ pc \in {"alarm", "critical", "clearAlarm", "snapshot"} /\ cont = "room"
       /\ "RESET" \in exec_state
    \/ pc = "criticalWait" /\ cont = "room"

(* A sleep request not yet taken up.                                       *)
SleepFlagOK ==
  /\ "SLEEP" \in exec_state /\ ~abort =>
       /\ ctx = "top" /\ pc \in {"read", "holdClear"} \cup Early /\ ~soft_limit
       /\ pc # "holdClear" => state \in {"IDLE", "ALARM"}
  /\ pc \in {"status", "hold", "holdClear"} =>
       ("SLEEP" \in rt <=> "SLEEP" \in exec_state)

SleepOK ==
  state = "SLEEP" /\ ~abort /\ pc \notin {"clear", "boot"} =>
    suspend # {} /\ "JOG_CANCEL" \notin suspend /\ ~soft_limit

(* In ALARM, a line that waits is about to be aborted.                     *)
LockOK ==
  state = "ALARM" /\ ~abort /\ Place \in Waits =>
    \/ pc \in {"critical", "criticalWait"}
    \/ pc \in {"clearAlarm", "snapshot"} /\ "RESET" \in exec_state

LockInv ==
  /\ ContextOK /\ AbortOK /\ SuspendOK /\ AlarmOK
  /\ SoftOK /\ SleepFlagOK /\ SleepOK /\ LockOK

-----------------------------------------------------------------------------
(* One lemma per part of the program, one step per action.                 *)
(* A realtime call keeps the locks.                                        *)
LEMMA RtSystemLocks == TypeOK /\ LockInv /\ RtSystem => LockInv'
<1> SUFFICES ASSUME TypeOK, LockInv, RtSystem PROVE LockInv'
  OBVIOUS
<1> USE DEF LockInv, ContextOK, AbortOK, SuspendOK, AlarmOK, SoftOK, SleepFlagOK, SleepOK,
     LockOK, Place, Early, Tail, Waits, TypeOK, SysOK, FlagsOK, MotionOK, CtlOK, ExecFlags,
     HoldFlags, States, Alarms, Labels, RtLabels, TopLabels, AllLines, At, Goto, sysVars,
     flagVars, motionVars, ctlVars, histVars
<1>1. CASE ExecAlarm
  BY <1>1 DEF ExecAlarm
<1>2. CASE ExecCritical
  BY <1>2 DEF ExecCritical
<1>3. CASE ExecCriticalWait
  BY <1>3 DEF ExecCriticalWait
<1>4. CASE ExecClearAlarm
  BY <1>4 DEF ExecClearAlarm
<1>5. CASE ExecSnapshot
  BY <1>5 DEF ExecSnapshot, RtReturn, Stage
<1>6. CASE ExecStatus
  BY <1>6 DEF ExecStatus, Stage
<1>7. CASE ExecHold
  BY <1>7 DEF ExecHold, HoldBegins, HoldState, DoorSuspend
<1>8. CASE ExecHoldClear
  BY <1>8 DEF ExecHoldClear, Stage
<1>9. CASE ExecStart
  BY <1>9 DEF ExecStart, StartBlocked, ReadyToStart, Restored, DoorClosed,
     SpindleHeld
<1>10. CASE ExecStartPrep
  BY <1>10 DEF ExecStartPrep, st_prep_buffer
<1>11. CASE ExecStartWake
  BY <1>11 DEF ExecStartWake
<1>12. CASE ExecStartClear
  BY <1>12 DEF ExecStartClear, Stage
<1>13. CASE ExecStop
  BY <1>13 DEF ExecStop, HoldStops, EmptyBuffers
<1>14. CASE ExecStopClear
  BY <1>14 DEF ExecStopClear
<1>15. CASE ExecFinish
  BY <1>15 DEF ExecFinish, Reloads, st_prep_buffer, RtReturn
<1> QED
  BY <1>1, <1>2, <1>3, <1>4, <1>5, <1>6, <1>7, <1>8, <1>9, <1>10, <1>11,
     <1>12, <1>13, <1>14, <1>15 DEF RtSystem

(* The suspend loops keep the locks.                                       *)
LEMMA RtSuspendLocks == TypeOK /\ LockInv /\ RtSuspend => LockInv'
<1> SUFFICES ASSUME TypeOK, LockInv, RtSuspend PROVE LockInv'
  OBVIOUS
<1> USE DEF LockInv, ContextOK, AbortOK, SuspendOK, AlarmOK, SoftOK, SleepFlagOK, SleepOK,
     LockOK, Place, Early, Tail, Waits, TypeOK, SysOK, FlagsOK, MotionOK, CtlOK, ExecFlags,
     HoldFlags, States, Alarms, Labels, RtLabels, TopLabels, AllLines, At, Goto, sysVars,
     flagVars, motionVars, ctlVars, histVars
<1>1. CASE SuspendAborted
  BY <1>1 DEF SuspendAborted, LeaveSuspend
<1>2. CASE SuspendWait
  BY <1>2 DEF SuspendWait, PollAgain
<1>3. CASE Retract
  BY <1>3 DEF Retract, InSuspend, PollAgain
<1>4. CASE FallAsleep
  BY <1>4 DEF FallAsleep, InSuspend
<1>5. CASE Sleeping
  BY <1>5 DEF Sleeping, LeaveSuspend, PollAgain
<1>6. CASE DoorRetracted
  BY <1>6 DEF DoorRetracted, InSuspend, PollAgain, RestoreEnd
<1>7. CASE RestoreDelayOver
  BY <1>7 DEF RestoreDelayOver, PollAgain, RestoreEnd
<1>8. CASE HoldManager
  BY <1>8 DEF HoldManager, InSuspend, PollAgain
<1>9. CASE RestoreDelay
  BY <1>9 DEF RestoreDelay, PollAgain
<1> QED
  BY <1>1, <1>2, <1>3, <1>4, <1>5, <1>6, <1>7, <1>8, <1>9 DEF RtSuspend

(* Start-up and the main loop keep the locks.                              *)
LEMMA MainLoopLocks == TypeOK /\ LockInv /\ MainLoop => LockInv'
<1> SUFFICES ASSUME TypeOK, LockInv, MainLoop PROVE LockInv'
  OBVIOUS
<1> USE DEF LockInv, ContextOK, AbortOK, SuspendOK, AlarmOK, SoftOK, SleepFlagOK, SleepOK,
     LockOK, Place, Early, Tail, Waits, TypeOK, SysOK, FlagsOK, MotionOK, CtlOK, ExecFlags,
     HoldFlags, States, Alarms, Labels, RtLabels, TopLabels, AllLines, At, Goto, sysVars,
     flagVars, motionVars, ctlVars, histVars
<1>1. CASE Init1
  BY <1>1 DEF Init1
<1>2. CASE Clear
  BY <1>2 DEF Clear, EmptyBuffers
<1>3. CASE Boot
  BY <1>3 DEF Boot
<1>4. ASSUME NEW l \in Lines, ReadLine(l) PROVE LockInv'
  BY <1>4 DEF ReadLine
<1>5. CASE ReadEmpty
  BY <1>5 DEF ReadEmpty, ExecuteRealtime, auto_cycle_start
<1>6. CASE Loop
  BY <1>6 DEF Loop
<1> QED
  BY <1>1, <1>2, <1>3, <1>4, <1>5, <1>6 DEF MainLoop

(* The execution of a line keeps the locks.                                *)
LEMMA LineStepsLocks == TypeOK /\ LockInv /\ LineSteps => LockInv'
<1> SUFFICES ASSUME TypeOK, LockInv, LineSteps PROVE LockInv'
  OBVIOUS
<1> USE DEF LockInv, ContextOK, AbortOK, SuspendOK, AlarmOK, SoftOK, SleepFlagOK, SleepOK,
     LockOK, Place, Early, Tail, Waits, TypeOK, SysOK, FlagsOK, MotionOK, CtlOK, ExecFlags,
     HoldFlags, States, Alarms, Labels, RtLabels, TopLabels, AllLines, At, Goto, sysVars,
     flagVars, motionVars, ctlVars, histVars
<1>1. CASE ExecuteAborted
  BY <1>1 DEF ExecuteAborted
<1>2. CASE RefuseLine
  BY <1>2 DEF RefuseLine, Execute, RefusedIn, LineDone
<1>3. CASE Move
  BY <1>3 DEF Move, Accepted, Execute, RefusedIn, mc_line, SoftViolation,
     ExecuteRealtime, LineDone
<1>4. CASE Jog
  BY <1>4 DEF Jog, Accepted, Execute, RefusedIn, ExecuteRealtime, LineDone
<1>5. CASE StartSync
  BY <1>5 DEF StartSync, Accepted, Execute, RefusedIn, ExecuteRealtime,
     auto_cycle_start
<1>6. CASE CheckMode
  BY <1>6 DEF CheckMode, Accepted, Execute, RefusedIn, LineDone, mc_reset,
     InMotionState
<1>7. CASE Unlock
  BY <1>7 DEF Unlock, Accepted, Execute, RefusedIn, LineDone
<1>8. CASE Sleep
  BY <1>8 DEF Sleep, Accepted, Execute, RefusedIn, LineDone
<1>9. CASE RoomAborted
  BY <1>9 DEF RoomAborted, AfterLine
<1>10. CASE RoomFull
  BY <1>10 DEF RoomFull, ExecuteRealtime, auto_cycle_start
<1>11. CASE QueueBlock
  BY <1>11 DEF QueueBlock, AfterLine
<1>12. CASE JogStart
  BY <1>12 DEF JogStart, LineDone
<1>13. CASE JogPrep
  BY <1>13 DEF JogPrep, st_prep_buffer
<1>14. CASE JogWake
  BY <1>14 DEF JogWake, LineDone
<1>15. CASE SyncAgain
  BY <1>15 DEF SyncAgain, ExecuteRealtime
<1>16. CASE Synced
  BY <1>16 DEF Synced, LineDone
<1>17. CASE Dwell
  BY <1>17 DEF Dwell, LineDone, ExecuteRealtime
<1>18. CASE ProbeInitial
  BY <1>18 DEF ProbeInitial, ExecuteRealtime
<1>19. CASE ProbeMove
  BY <1>19 DEF ProbeMove, mc_line, SoftViolation, ExecuteRealtime, LineDone
<1>20. CASE ProbeArm
  BY <1>20 DEF ProbeArm, ExecuteRealtime
<1>21. CASE ProbeWait
  BY <1>21 DEF ProbeWait, LineDone, ExecuteRealtime
<1>22. CASE ProbeOver
  BY <1>22 DEF ProbeOver, ExecuteRealtime
<1>23. CASE ProbeEnd
  BY <1>23 DEF ProbeEnd, LineDone, EmptyBuffers
<1>24. CASE SoftWait
  BY <1>24 DEF SoftWait, ExecuteRealtime
<1>25. CASE SoftReset
  BY <1>25 DEF SoftReset, mc_reset, InMotionState
<1>26. CASE SoftAlarm
  BY <1>26 DEF SoftAlarm, ExecuteRealtime
<1> QED
  BY <1>1, <1>2, <1>3, <1>4, <1>5, <1>6, <1>7, <1>8, <1>9, <1>10, <1>11,
     <1>12, <1>13, <1>14, <1>15, <1>16, <1>17, <1>18, <1>19, <1>20, <1>21,
     <1>22, <1>23, <1>24, <1>25, <1>26 DEF LineSteps

(* The step interrupt keeps the locks.                                     *)
LEMMA StepperLocks == TypeOK /\ LockInv /\ Stepper => LockInv'
<1> SUFFICES ASSUME TypeOK, LockInv, Stepper PROVE LockInv'
  OBVIOUS
<1> USE DEF LockInv, ContextOK, AbortOK, SuspendOK, AlarmOK, SoftOK, SleepFlagOK, SleepOK,
     LockOK, Place, Early, Tail, Waits, TypeOK, SysOK, FlagsOK, MotionOK, CtlOK, ExecFlags,
     HoldFlags, States, Alarms, Labels, RtLabels, TopLabels, AllLines, At, Goto, sysVars,
     flagVars, motionVars, ctlVars, histVars
<1>1. CASE StepSegment
  BY <1>1 DEF StepSegment, Step
<1>2. CASE StepEmpty
  BY <1>2 DEF StepEmpty, Step, Refillable
<1>3. CASE StepStopped
  BY <1>3 DEF StepStopped
<1> QED
  BY <1>1, <1>2, <1>3 DEF Stepper

(* The receive interrupt and the limit pin keep the locks.                 *)
LEMMA InputsLocks == TypeOK /\ LockInv /\ Inputs => LockInv'
<1> SUFFICES ASSUME TypeOK, LockInv, Inputs PROVE LockInv'
  OBVIOUS
<1> USE DEF LockInv, ContextOK, AbortOK, SuspendOK, AlarmOK, SoftOK, SleepFlagOK, SleepOK,
     LockOK, Place, Early, Tail, Waits, TypeOK, SysOK, FlagsOK, MotionOK, CtlOK, ExecFlags,
     HoldFlags, States, Alarms, Labels, RtLabels, TopLabels, AllLines, At, Goto, sysVars,
     flagVars, motionVars, ctlVars, histVars
<1>1. CASE CmdReset
  BY <1>1 DEF CmdReset, Input, mc_reset, InMotionState
<1>2. CASE CmdStatus
  BY <1>2 DEF CmdStatus, Input, SetFlag
<1>3. CASE CmdCycleStart
  BY <1>3 DEF CmdCycleStart, Input, SetFlag
<1>4. CASE CmdFeedHold
  BY <1>4 DEF CmdFeedHold, Input, SetFlag
<1>5. CASE CmdSafetyDoor
  BY <1>5 DEF CmdSafetyDoor, Input, SetFlag
<1>6. CASE CmdJogCancel
  BY <1>6 DEF CmdJogCancel, Input, SetFlag
<1>7. CASE CmdSpindleStop
  BY <1>7 DEF CmdSpindleStop, Input
<1>8. CASE LimitPin
  BY <1>8 DEF LimitPin, Input, InMotionState
<1> QED
  BY <1>1, <1>2, <1>3, <1>4, <1>5, <1>6, <1>7, <1>8 DEF Inputs

LEMMA LockInductive ==
  /\ Init => TypeOK /\ LockInv
  /\ TypeOK /\ LockInv /\ [Next]_vars => (TypeOK /\ LockInv)'
<1>1. Init => LockInv
  BY DEF Init, LockInv, ContextOK, AbortOK, SuspendOK, AlarmOK, SoftOK, SleepFlagOK, SleepOK,
         LockOK, Place, Early, Tail, Waits, TopLabels, RtLabels
<1>2. ASSUME TypeOK, LockInv, [Next]_vars PROVE LockInv'
  <2>1. CASE UNCHANGED vars
    BY <1>2, <2>1 DEF vars, sysVars, flagVars, motionVars, ctlVars, LockInv, ContextOK,
       AbortOK, SuspendOK, AlarmOK, SoftOK, SleepFlagOK, SleepOK, LockOK, Place
  <2> QED
    BY <1>2, <2>1, RtSystemLocks, RtSuspendLocks, MainLoopLocks, LineStepsLocks,
       StepperLocks, InputsLocks DEF Next, Main
<1> QED
  BY <1>1, <1>2, TypeInitial, TypeInductive

-----------------------------------------------------------------------------
(* Which actions write the state, and which the planner.                   *)
LEMMA StateWriters ==
  Next => UNCHANGED state
          \/ ExecAlarm \/ ExecHold \/ ExecStart \/ ExecStop \/ Boot \/ JogStart \/ Unlock \/ CheckMode
<1> USE DEF sysVars
<1>1. RtSystem => UNCHANGED state \/ ExecAlarm \/ ExecHold \/ ExecStart \/ ExecStop
  BY DEF RtSystem, ExecCritical, ExecCriticalWait, ExecClearAlarm, ExecSnapshot, ExecStatus,
         ExecHoldClear, ExecStartPrep, ExecStartWake, ExecStartClear, ExecStopClear, ExecFinish
<1>2. RtSuspend => UNCHANGED state
  BY DEF RtSuspend, SuspendAborted, SuspendWait, Retract, FallAsleep, Sleeping, DoorRetracted,
         RestoreDelay, RestoreDelayOver, HoldManager
<1>3. MainLoop => UNCHANGED state \/ Boot
  BY DEF MainLoop, Init1, Clear, ReadLine, ReadEmpty, Loop
<1>4. LineSteps => UNCHANGED state \/ JogStart \/ Unlock \/ CheckMode
  BY DEF LineSteps, ExecuteAborted, RefuseLine, Move, mc_line, SoftViolation, Jog, StartSync,
         Sleep, RoomAborted, RoomFull, QueueBlock, JogPrep, JogWake, SyncAgain, Synced, Dwell,
         ProbeInitial, ProbeMove, ProbeArm, ProbeWait, ProbeOver, ProbeEnd, SoftWait,
         SoftReset, SoftAlarm
<1>5. Stepper => UNCHANGED state
  BY DEF Stepper, StepSegment, StepEmpty, StepStopped, Step
<1>6. Inputs => UNCHANGED state
  BY DEF Inputs, CmdReset, CmdStatus, CmdCycleStart, CmdFeedHold, CmdSafetyDoor,
         CmdJogCancel, CmdSpindleStop, LimitPin, Input
<1> QED
  BY <1>1, <1>2, <1>3, <1>4, <1>5, <1>6 DEF Next, Main

LEMMA WorkWriters == Next => UNCHANGED work \/ st_prep_buffer \/ work' = 0 \/ QueueBlock
<1> USE DEF motionVars
<1>1. RtSystem => UNCHANGED work \/ st_prep_buffer \/ work' = 0
  BY DEF RtSystem, ExecAlarm, ExecCritical, ExecCriticalWait, ExecClearAlarm, ExecSnapshot,
         ExecStatus, ExecHold, ExecHoldClear, ExecStart, ExecStartPrep, ExecStartWake,
         ExecStartClear, ExecStop, EmptyBuffers, ExecStopClear, ExecFinish
<1>2. RtSuspend => UNCHANGED work
  BY DEF RtSuspend, SuspendAborted, SuspendWait, Retract, FallAsleep, Sleeping, DoorRetracted,
         RestoreDelay, RestoreDelayOver, HoldManager
<1>3. MainLoop => UNCHANGED work \/ work' = 0
  BY DEF MainLoop, Init1, Clear, EmptyBuffers, Boot, ReadLine, ReadEmpty, Loop
<1>4. LineSteps => UNCHANGED work \/ st_prep_buffer \/ work' = 0 \/ QueueBlock
  BY DEF LineSteps, ExecuteAborted, RefuseLine, Move, mc_line, SoftViolation, Jog, StartSync,
         CheckMode, Unlock, Sleep, RoomAborted, RoomFull, JogStart, JogPrep, JogWake,
         SyncAgain, Synced, Dwell, ProbeInitial, ProbeMove, ProbeArm, ProbeWait, ProbeOver,
         ProbeEnd, EmptyBuffers, SoftWait, SoftReset, SoftAlarm
<1>5. Stepper \/ Inputs => UNCHANGED work
  BY DEF Stepper, StepSegment, StepEmpty, StepStopped, Step, Inputs, CmdReset, CmdStatus,
         CmdCycleStart, CmdFeedHold, CmdSafetyDoor, CmdJogCancel, CmdSpindleStop, LimitPin, Input
<1> QED
  BY <1>1, <1>2, <1>3, <1>4, <1>5 DEF Next, Main

-----------------------------------------------------------------------------
(* Nothing but an alarm or the re-initialisation ends sleep: the hold, the *)
(* resume and the cycle stop of protocol_exec_rt_system leave it alone.    *)
THEOREM SleepLasts == Spec => SleepEndsInAlarm
<1>1. ASSUME TypeOK, LockInv, [Next]_vars
      PROVE [state = "SLEEP" => state' \in {"SLEEP", "ALARM"}]_vars
  <2> SUFFICES ASSUME Next, state = "SLEEP", state' # state PROVE state' = "ALARM"
    BY <1>1
  <2>1. CASE ExecAlarm
    BY <2>1 DEF ExecAlarm
  <2>2. CASE ExecHold
    BY <2>2 DEF ExecHold, HoldState
  <2>3. CASE ExecStart
    BY <2>3 DEF ExecStart, ReadyToStart, Restored, DoorClosed
  <2>4. CASE ExecStop
    BY <1>1, <2>4 DEF ExecStop, HoldStops, At, LockInv, SleepOK, AbortOK, Tail, RtLabels
  <2>5. CASE Boot
    BY <2>5 DEF Boot
  <2>6. CASE JogStart \/ Unlock
    BY <2>6 DEF JogStart, Unlock, Accepted, Execute, RefusedIn, States
  <2>7. CASE CheckMode
    BY <2>7 DEF CheckMode, Accepted, Execute, RefusedIn, States
  <2> QED
    <3>1. UNCHANGED state
          \/ ExecAlarm \/ ExecHold \/ ExecStart \/ ExecStop \/ Boot \/ JogStart \/ Unlock \/ CheckMode
      BY StateWriters
    <3> QED
      BY <2>1, <2>2, <2>3, <2>4, <2>5, <2>6, <2>7, <3>1
<1> QED
  BY <1>1, LockInductive, PTL DEF Spec, SleepEndsInAlarm

(* Nothing is planned in ALARM or asleep, whichever wait of mc_line, of    *)
(* the synchronize or of the probing cycle the line was in when it struck. *)
THEOREM LockedMachinePlansNothing == Spec => NoPlanningWhenLocked
<1>1. ASSUME TypeOK, LockInv, [Next]_vars
      PROVE [(state \in {"ALARM", "SLEEP"}) => work' <= work]_vars
  <2> SUFFICES ASSUME Next, state \in {"ALARM", "SLEEP"} PROVE work' <= work
    BY <1>1
  <2>1. work \in Nat /\ segs \in 0 .. MaxSegs /\ MaxSegs \in Nat
    BY <1>1, Capacity, SizesAssumption DEF TypeOK, MotionOK
  <2>2. ~QueueBlock
    <3>1. SUFFICES ASSUME QueueBlock PROVE FALSE
      OBVIOUS
    <3>2. pc = "room" /\ ~abort
      BY <3>1 DEF QueueBlock, At
    <3>3. state # "ALARM"
      BY <1>1, <3>2 DEF LockInv, LockOK, Place, TopLabels, Waits
    <3>4. state # "SLEEP"
      BY <1>1, <3>2 DEF LockInv, SleepOK, SuspendOK, TopLabels
    <3> QED
      BY <3>3, <3>4
  <2>3. st_prep_buffer => work' <= work
    BY <2>1 DEF st_prep_buffer, Smaller
  <2>4. UNCHANGED work \/ st_prep_buffer \/ work' = 0
    BY <2>2, WorkWriters
  <2> QED
    BY <2>1, <2>3, <2>4
<1> QED
  BY <1>1, LockInductive, PTL DEF Spec, NoPlanningWhenLocked

-----------------------------------------------------------------------------
(***************************************************************************)
(* The machine stands still where RtExec says it does, for every value of  *)
(* the constants: in IDLE and CHECK, after a completed hold, and wherever  *)
(* a reset would not find a motion state and kill the steppers.            *)
(*                                                                         *)
(* The argument is about one cycle stop.  The step interrupt raises it and *)
(* disables itself, in that order; from then until the main program clears *)
(* it nothing may start the steppers, and what the main program does with  *)
(* it was read from the copy of the flags.  Hence the invariant says where *)
(* the flag, its copy, the timer and an interrupt cut in half may be.      *)
(***************************************************************************)

(* A reset is under way, or an alarm struck in an unfinished hold.         *)
Out == abort \/ "RESET" \in exec_state \/ struck
       \/ pc \in {"criticalWait", "init", "clear", "boot"}

Standing == state \in {"IDLE", "CHECK", "ALARM"} \/ "HOLD_COMPLETE" \in suspend
StopFlagged == "CYCLE_STOP" \in exec_state
AtRest == ~stepping /\ isr = "none" /\ ~StopFlagged

(* Where the main program works on its copy of the flags.                  *)
Copied == {"status", "hold", "holdClear", "start", "startPrep", "startWake",
           "startClear", "stop", "stopClear"}

(* After a reset that raced with a wake-up a cycle stop may be left over;  *)
(* the first check point takes it up, before anything is planned.          *)
LeftOver ==
  /\ work = 0 /\ ctx = "top"
  /\ \/ pc = "read"
     \/ /\ cont \in {"execute", "loop"}
        /\ \/ pc \in {"alarm", "critical", "clearAlarm", "snapshot"}
           \/ pc \in Copied \ {"startPrep", "startWake"} /\ "CYCLE_STOP" \in rt

BootOK == pc = "boot" => ~stepping /\ isr = "none" /\ work = 0

(* A copied cycle stop is still flagged: only the main program clears it.  *)
CopyOK ==
  /\ pc \in Copied /\ "CYCLE_STOP" \in rt => StopFlagged
  /\ pc \in {"stop", "stopClear"} => "CYCLE_STOP" \in rt

(* The timer runs, the interrupt is between flag and timer, or neither.    *)
OneOK == ~Out => /\ stepping => isr = "none" /\ ~StopFlagged
                 /\ isr = "idling" => ~StopFlagged

StandOK ==
  ~Out /\ Standing =>
    ~stepping /\ isr = "none" /\ (StopFlagged => pc = "stopClear" \/ LeftOver)

(* Segments are prepared, and the steppers started, from rest.             *)
WakeOK ==
  /\ pc \in {"startPrep", "startWake"} => state = "CYCLE" /\ suspend = {}
  /\ pc \in {"jogPrep", "jogWake"} => state = "JOG"
  /\ pc \in {"startPrep", "startWake", "jogPrep", "jogWake"} /\ ~Out => AtRest

(* A motion that is no longer a cycle or a jog is being braked.            *)
RampOK ==
  ~Out /\ stepping => state \in {"CYCLE", "JOG"} \/ "EXECUTE_HOLD" \in step_control
CancelOK ==
  ~Out /\ state \in {"CYCLE", "JOG"} /\ suspend \cap {"MOTION_CANCEL", "JOG_CANCEL"} # {}
    => "EXECUTE_HOLD" \in step_control

(* The places a realtime call returns to, and who jogs and probes.         *)
ReturnOK ==
  /\ cont \in {"read", "loop", "execute", "room", "sync", "probeWait", "probeEnd", "softWait"}
  /\ pc \in {"jogStart", "jogPrep", "jogWake"} => line = "jog"
JogOK ==
  /\ state = "JOG" => line = "jog" \/ Place \in {"read", "loop", "execute", "init", "clear", "boot"}
  /\ state = "CYCLE" => pc # "probeSynced"
  /\ pc = "probeSynced" => line = "probe"

(* A closed door lets the machine go on only once the hold is complete.    *)
DoorOK ==
  state = "DOOR" /\ ~abort /\ pc \notin {"clear", "boot"} =>
    /\ suspend # {}
    /\ "DOOR_AJAR" \notin suspend => "HOLD_COMPLETE" \in suspend

(* A probing alarm that is not exempt finds the machine standing.          *)
ProbeOK ==
  exec_alarm \in {"PROBE_INITIAL", "PROBE_CONTACT"} /\ pc = "alarm" /\ ~Out => Standing

StopInv == /\ BootOK /\ CopyOK /\ OneOK /\ StandOK /\ WakeOK /\ RampOK /\ CancelOK
           /\ ReturnOK /\ JogOK /\ DoorOK /\ ProbeOK
-----------------------------------------------------------------------------
(* A realtime call keeps it.                                               *)
LEMMA RtSystemStops == TypeOK /\ LockInv /\ StopInv /\ RtSystem => StopInv'
<1> SUFFICES ASSUME TypeOK, LockInv, StopInv, RtSystem PROVE StopInv'
  OBVIOUS
<1> USE Capacity, SizesAssumption DEF LockInv, ContextOK, AbortOK, SuspendOK,
       AlarmOK, SoftOK, SleepFlagOK, SleepOK, LockOK, Place, Early, Tail,
       Waits, StopInv, Out, Standing, StopFlagged, AtRest, Copied, LeftOver,
       BootOK, CopyOK, OneOK, StandOK, WakeOK, RampOK, CancelOK, ReturnOK,
       JogOK, DoorOK, ProbeOK, TypeOK, SysOK, FlagsOK, MotionOK, CtlOK,
       ExecFlags, HoldFlags, States, Alarms, Labels, RtLabels, TopLabels,
       AllLines, At, Goto, sysVars, flagVars, motionVars, ctlVars, histVars
<1>1. CASE ExecAlarm
  BY <1>1 DEF ExecAlarm
<1>2. CASE ExecCritical
  BY <1>2 DEF ExecCritical
<1>3. CASE ExecCriticalWait
  BY <1>3 DEF ExecCriticalWait
<1>4. CASE ExecClearAlarm
  BY <1>4 DEF ExecClearAlarm
<1>5. CASE ExecSnapshot
  BY <1>5 DEF ExecSnapshot, RtReturn, Stage
<1>6. CASE ExecStatus
  BY <1>6 DEF ExecStatus, Stage
<1>7. CASE ExecHold
  BY <1>7 DEF ExecHold, HoldBegins, HoldState, DoorSuspend
<1>8. CASE ExecHoldClear
  BY <1>8 DEF ExecHoldClear, Stage
<1>9. CASE ExecStart
  <2>1. BootOK'
    BY <1>9 DEF ExecStart, StartBlocked, ReadyToStart, Restored,
       DoorClosed, SpindleHeld
  <2>2. CopyOK'
    BY <1>9 DEF ExecStart, StartBlocked, ReadyToStart, Restored,
       DoorClosed, SpindleHeld
  <2>3. OneOK'
    BY <1>9 DEF ExecStart, StartBlocked, ReadyToStart, Restored,
       DoorClosed, SpindleHeld
  <2>4. StandOK'
    BY <1>9 DEF ExecStart, StartBlocked, ReadyToStart, Restored,
       DoorClosed, SpindleHeld
  <2>5. WakeOK'
    BY <1>9 DEF ExecStart, StartBlocked, ReadyToStart, Restored,
       DoorClosed, SpindleHeld
  <2>6. RampOK'
    BY <1>9 DEF ExecStart, StartBlocked, ReadyToStart, Restored,
       DoorClosed, SpindleHeld
  <2>7. CancelOK'
    BY <1>9 DEF ExecStart, StartBlocked, ReadyToStart, Restored,
       DoorClosed, SpindleHeld
  <2>8. ReturnOK'
    BY <1>9 DEF ExecStart, StartBlocked, ReadyToStart, Restored,
       DoorClosed, SpindleHeld
  <2>9. JogOK'
    BY <1>9 DEF ExecStart, StartBlocked, ReadyToStart, Restored,
       DoorClosed, SpindleHeld
  <2>10. DoorOK'
    BY <1>9 DEF ExecStart, StartBlocked, ReadyToStart, Restored,
       DoorClosed, SpindleHeld
  <2>11. ProbeOK'
    BY <1>9 DEF ExecStart, StartBlocked, ReadyToStart, Restored,
       DoorClosed, SpindleHeld
  <2> QED
    BY <2>1, <2>2, <2>3, <2>4, <2>5, <2>6, <2>7, <2>8, <2>9, <2>10, <2>11
<1>10. CASE ExecStartPrep
  BY <1>10 DEF ExecStartPrep, st_prep_buffer, Smaller
<1>11. CASE ExecStartWake
  BY <1>11 DEF ExecStartWake
<1>12. CASE ExecStartClear
  BY <1>12 DEF ExecStartClear, Stage
<1>13. CASE ExecStop
  BY <1>13 DEF ExecStop, HoldStops, EmptyBuffers
<1>14. CASE ExecStopClear
  BY <1>14 DEF ExecStopClear
<1>15. CASE ExecFinish
  BY <1>15 DEF ExecFinish, Reloads, st_prep_buffer, RtReturn, Smaller
<1> QED
  BY <1>1, <1>2, <1>3, <1>4, <1>5, <1>6, <1>7, <1>8, <1>9, <1>10, <1>11,
     <1>12, <1>13, <1>14, <1>15 DEF RtSystem

(* The suspend loops keep it.                                              *)
LEMMA RtSuspendStops == TypeOK /\ LockInv /\ StopInv /\ RtSuspend => StopInv'
<1> SUFFICES ASSUME TypeOK, LockInv, StopInv, RtSuspend PROVE StopInv'
  OBVIOUS
<1> USE Capacity, SizesAssumption DEF LockInv, ContextOK, AbortOK, SuspendOK,
       AlarmOK, SoftOK, SleepFlagOK, SleepOK, LockOK, Place, Early, Tail,
       Waits, StopInv, Out, Standing, StopFlagged, AtRest, Copied, LeftOver,
       BootOK, CopyOK, OneOK, StandOK, WakeOK, RampOK, CancelOK, ReturnOK,
       JogOK, DoorOK, ProbeOK, TypeOK, SysOK, FlagsOK, MotionOK, CtlOK,
       ExecFlags, HoldFlags, States, Alarms, Labels, RtLabels, TopLabels,
       AllLines, At, Goto, sysVars, flagVars, motionVars, ctlVars, histVars
<1>1. CASE SuspendAborted
  BY <1>1 DEF SuspendAborted, LeaveSuspend
<1>2. CASE SuspendWait
  BY <1>2 DEF SuspendWait, PollAgain
<1>3. CASE Retract
  BY <1>3 DEF Retract, InSuspend, PollAgain
<1>4. CASE FallAsleep
  BY <1>4 DEF FallAsleep, InSuspend
<1>5. CASE Sleeping
  BY <1>5 DEF Sleeping, LeaveSuspend, PollAgain
<1>6. CASE DoorRetracted
  BY <1>6 DEF DoorRetracted, InSuspend, PollAgain, RestoreEnd
<1>7. CASE RestoreDelay
  BY <1>7 DEF RestoreDelay, PollAgain
<1>8. CASE RestoreDelayOver
  BY <1>8 DEF RestoreDelayOver, PollAgain, RestoreEnd
<1>9. CASE HoldManager
  BY <1>9 DEF HoldManager, InSuspend, PollAgain
<1> QED
  BY <1>1, <1>2, <1>3, <1>4, <1>5, <1>6, <1>7, <1>8, <1>9 DEF RtSuspend

(* Start-up and the main loop keep it.                                     *)
LEMMA MainLoopStops == TypeOK /\ LockInv /\ StopInv /\ MainLoop => StopInv'
<1> SUFFICES ASSUME TypeOK, LockInv, StopInv, MainLoop PROVE StopInv'
  OBVIOUS
<1> USE Capacity, SizesAssumption DEF LockInv, ContextOK, AbortOK, SuspendOK,
       AlarmOK, SoftOK, SleepFlagOK, SleepOK, LockOK, Place, Early, Tail,
       Waits, StopInv, Out, Standing, StopFlagged, AtRest, Copied, LeftOver,
       BootOK, CopyOK, OneOK, StandOK, WakeOK, RampOK, CancelOK, ReturnOK,
       JogOK, DoorOK, ProbeOK, TypeOK, SysOK, FlagsOK, MotionOK, CtlOK,
       ExecFlags, HoldFlags, States, Alarms, Labels, RtLabels, TopLabels,
       AllLines, At, Goto, sysVars, flagVars, motionVars, ctlVars, histVars
<1>1. CASE Init1
  BY <1>1 DEF Init1
<1>2. CASE Clear
  BY <1>2 DEF Clear, EmptyBuffers
<1>3. CASE Boot
  BY <1>3 DEF Boot
<1>4. ASSUME NEW l \in Lines, ReadLine(l) PROVE StopInv'
  BY <1>4 DEF ReadLine
<1>5. CASE ReadEmpty
  BY <1>5 DEF ReadEmpty, ExecuteRealtime, auto_cycle_start
<1>6. CASE Loop
  BY <1>6 DEF Loop
<1> QED
  BY <1>1, <1>2, <1>3, <1>4, <1>5, <1>6 DEF MainLoop

(* The execution of a line keeps it.                                       *)
LEMMA LineStepsStops == TypeOK /\ LockInv /\ StopInv /\ LineSteps => StopInv'
<1> SUFFICES ASSUME TypeOK, LockInv, StopInv, LineSteps PROVE StopInv'
  OBVIOUS
<1> USE Capacity, SizesAssumption DEF LockInv, ContextOK, AbortOK, SuspendOK,
       AlarmOK, SoftOK, SleepFlagOK, SleepOK, LockOK, Place, Early, Tail,
       Waits, StopInv, Out, Standing, StopFlagged, AtRest, Copied, LeftOver,
       BootOK, CopyOK, OneOK, StandOK, WakeOK, RampOK, CancelOK, ReturnOK,
       JogOK, DoorOK, ProbeOK, TypeOK, SysOK, FlagsOK, MotionOK, CtlOK,
       ExecFlags, HoldFlags, States, Alarms, Labels, RtLabels, TopLabels,
       AllLines, At, Goto, sysVars, flagVars, motionVars, ctlVars, histVars
<1>1. CASE ExecuteAborted
  BY <1>1 DEF ExecuteAborted
<1>2. CASE RefuseLine
  BY <1>2 DEF RefuseLine, Execute, RefusedIn, LineDone
<1>3. CASE Move
  BY <1>3 DEF Move, Accepted, Execute, RefusedIn, mc_line, SoftViolation,
     ExecuteRealtime, LineDone
<1>4. CASE Jog
  BY <1>4 DEF Jog, Accepted, Execute, RefusedIn, ExecuteRealtime, LineDone
<1>5. CASE StartSync
  BY <1>5 DEF StartSync, Accepted, Execute, RefusedIn, ExecuteRealtime,
     auto_cycle_start
<1>6. CASE CheckMode
  BY <1>6 DEF CheckMode, Accepted, Execute, RefusedIn, LineDone, mc_reset,
     InMotionState
<1>7. CASE Unlock
  BY <1>7 DEF Unlock, Accepted, Execute, RefusedIn, LineDone
<1>8. CASE Sleep
  BY <1>8 DEF Sleep, Accepted, Execute, RefusedIn, LineDone
<1>9. CASE RoomAborted
  BY <1>9 DEF RoomAborted, AfterLine
<1>10. CASE RoomFull
  BY <1>10 DEF RoomFull, ExecuteRealtime, auto_cycle_start
<1>11. CASE QueueBlock
  BY <1>11 DEF QueueBlock, AfterLine
<1>12. CASE JogStart
  BY <1>12 DEF JogStart, LineDone
<1>13. CASE JogPrep
  BY <1>13 DEF JogPrep, st_prep_buffer, Smaller
<1>14. CASE JogWake
  BY <1>14 DEF JogWake, LineDone
<1>15. CASE SyncAgain
  BY <1>15 DEF SyncAgain, ExecuteRealtime
<1>16. CASE Synced
  BY <1>16 DEF Synced, LineDone
<1>17. CASE Dwell
  BY <1>17 DEF Dwell, LineDone, ExecuteRealtime
<1>18. CASE ProbeInitial
  BY <1>18 DEF ProbeInitial, ExecuteRealtime
<1>19. CASE ProbeMove
  BY <1>19 DEF ProbeMove, mc_line, SoftViolation, ExecuteRealtime, LineDone
<1>20. CASE ProbeArm
  BY <1>20 DEF ProbeArm, ExecuteRealtime
<1>21. CASE ProbeWait
  BY <1>21 DEF ProbeWait, LineDone, ExecuteRealtime
<1>22. CASE ProbeOver
  BY <1>22 DEF ProbeOver, ExecuteRealtime
<1>23. CASE ProbeEnd
  BY <1>23 DEF ProbeEnd, LineDone, EmptyBuffers
<1>24. CASE SoftWait
  BY <1>24 DEF SoftWait, ExecuteRealtime
<1>25. CASE SoftReset
  BY <1>25 DEF SoftReset, mc_reset, InMotionState
<1>26. CASE SoftAlarm
  BY <1>26 DEF SoftAlarm, ExecuteRealtime
<1> QED
  BY <1>1, <1>2, <1>3, <1>4, <1>5, <1>6, <1>7, <1>8, <1>9, <1>10, <1>11,
     <1>12, <1>13, <1>14, <1>15, <1>16, <1>17, <1>18, <1>19, <1>20, <1>21,
     <1>22, <1>23, <1>24, <1>25, <1>26 DEF LineSteps

(* The step interrupt keeps it.                                            *)
LEMMA StepperStops == TypeOK /\ LockInv /\ StopInv /\ Stepper => StopInv'
<1> SUFFICES ASSUME TypeOK, LockInv, StopInv, Stepper PROVE StopInv'
  OBVIOUS
<1> USE Capacity, SizesAssumption DEF LockInv, ContextOK, AbortOK, SuspendOK,
       AlarmOK, SoftOK, SleepFlagOK, SleepOK, LockOK, Place, Early, Tail,
       Waits, StopInv, Out, Standing, StopFlagged, AtRest, Copied, LeftOver,
       BootOK, CopyOK, OneOK, StandOK, WakeOK, RampOK, CancelOK, ReturnOK,
       JogOK, DoorOK, ProbeOK, TypeOK, SysOK, FlagsOK, MotionOK, CtlOK,
       ExecFlags, HoldFlags, States, Alarms, Labels, RtLabels, TopLabels,
       AllLines, At, Goto, sysVars, flagVars, motionVars, ctlVars, histVars
<1>1. CASE StepSegment
  BY <1>1 DEF StepSegment, Step
<1>2. CASE StepEmpty
  BY <1>2 DEF StepEmpty, Step, Refillable
<1>3. CASE StepStopped
  BY <1>3 DEF StepStopped
<1> QED
  BY <1>1, <1>2, <1>3 DEF Stepper

(* The receive interrupt and the limit pin keep it.                        *)
LEMMA InputsStops == TypeOK /\ LockInv /\ StopInv /\ Inputs => StopInv'
<1> SUFFICES ASSUME TypeOK, LockInv, StopInv, Inputs PROVE StopInv'
  OBVIOUS
<1> USE Capacity, SizesAssumption DEF LockInv, ContextOK, AbortOK, SuspendOK,
       AlarmOK, SoftOK, SleepFlagOK, SleepOK, LockOK, Place, Early, Tail,
       Waits, StopInv, Out, Standing, StopFlagged, AtRest, Copied, LeftOver,
       BootOK, CopyOK, OneOK, StandOK, WakeOK, RampOK, CancelOK, ReturnOK,
       JogOK, DoorOK, ProbeOK, TypeOK, SysOK, FlagsOK, MotionOK, CtlOK,
       ExecFlags, HoldFlags, States, Alarms, Labels, RtLabels, TopLabels,
       AllLines, At, Goto, sysVars, flagVars, motionVars, ctlVars, histVars
<1>1. CASE CmdReset
  BY <1>1 DEF CmdReset, Input, mc_reset, InMotionState
<1>2. CASE CmdStatus
  BY <1>2 DEF CmdStatus, Input, SetFlag
<1>3. CASE CmdCycleStart
  BY <1>3 DEF CmdCycleStart, Input, SetFlag
<1>4. CASE CmdFeedHold
  BY <1>4 DEF CmdFeedHold, Input, SetFlag
<1>5. CASE CmdSafetyDoor
  BY <1>5 DEF CmdSafetyDoor, Input, SetFlag
<1>6. CASE CmdJogCancel
  BY <1>6 DEF CmdJogCancel, Input, SetFlag
<1>7. CASE CmdSpindleStop
  BY <1>7 DEF CmdSpindleStop, Input
<1>8. CASE LimitPin
  BY <1>8 DEF LimitPin, Input, InMotionState
<1> QED
  BY <1>1, <1>2, <1>3, <1>4, <1>5, <1>6, <1>7, <1>8 DEF Inputs

-----------------------------------------------------------------------------
LEMMA StopInductive ==
  /\ Init => TypeOK /\ LockInv /\ StopInv
  /\ TypeOK /\ LockInv /\ StopInv /\ [Next]_vars => (TypeOK /\ LockInv /\ StopInv)'
<1>1. Init => StopInv
  BY DEF Init, StopInv, BootOK, CopyOK, OneOK, StandOK, WakeOK, RampOK, CancelOK, ReturnOK,
         JogOK, DoorOK, ProbeOK, Out, Standing, StopFlagged, AtRest, Copied, Place
<1>2. ASSUME TypeOK, LockInv, StopInv, [Next]_vars PROVE StopInv'
  <2>1. CASE UNCHANGED vars
    BY <1>2, <2>1 DEF vars, sysVars, flagVars, motionVars, ctlVars, histVars, StopInv, BootOK,
       CopyOK, OneOK, StandOK, WakeOK, RampOK, CancelOK, ReturnOK, JogOK, DoorOK, ProbeOK,
       Out, Standing, StopFlagged, AtRest, LeftOver, Place
  <2> QED
    BY <1>2, <2>1, RtSystemStops, RtSuspendStops, MainLoopStops, LineStepsStops,
       StepperStops, InputsStops DEF Next, Main
<1> QED
  BY <1>1, <1>2, LockInductive

-----------------------------------------------------------------------------
(* A reset never misses a running machine: wherever the step interrupt has *)
(* segments to run, mc_reset finds CYCLE, JOG or a commanded hold and      *)
(* kills the steppers.                                                     *)
THEOREM SteppersCanBeKilled == Spec => []SteppersKillable
<1>1. StopInv => SteppersKillable
  BY DEF StopInv, RampOK, SteppersKillable, Out, Resetting
<1> QED
  BY <1>1, StopInductive, PTL DEF Spec

(* The hold is complete only when the machine stands, however the cycle    *)
(* stop of the interrupt and the flags of the main program interleave.     *)
THEOREM HoldCompleteStopped == Spec => []HoldCompleteMeansStopped
<1>1. StopInv => HoldCompleteMeansStopped
  BY DEF StopInv, StandOK, Standing, HoldCompleteMeansStopped, Out, Resetting
<1> QED
  BY <1>1, StopInductive, PTL DEF Spec

(* IDLE and CHECK mean that nothing is stepping.                           *)
THEOREM IdleStopped == Spec => []IdleMeansStopped
<1>1. StopInv => IdleMeansStopped
  BY DEF StopInv, StandOK, Standing, IdleMeansStopped, Out, Resetting
<1> QED
  BY <1>1, StopInductive, PTL DEF Spec

-----------------------------------------------------------------------------
(***************************************************************************)
(* How a hold, an open door or a cancelled jog ends in RtExec, for every   *)
(* value of the constants: a hold or a door by a cycle start of the        *)
(* operator younger than the request to stop, except in a hold during a    *)
(* restore; none with the spindle still held by the override; a cancelled  *)
(* jog with empty buffers.                                                 *)
(*                                                                         *)
(* A cycle start flag has two writers, the receive interrupt and the end   *)
(* of a restore, and a life of its own: it may be copied with a stop       *)
(* request that blocks it, or be cleared with one that came later.  The    *)
(* invariant says for each place it can be in why it was asked for.        *)
(***************************************************************************)

(* The next check point ends in a reset.                                   *)
Doomed == abort \/ "RESET" \in exec_state \/ pc \in {"criticalWait", "clear", "boot"}
Asked == "CYCLE_START" \in exec_state => resumeAsked
Between == {"alarm", "critical", "clearAlarm", "snapshot"}

(* A door request was copied and is about to be acted on.                  *)
DoorTaken == pc \in {"status", "hold"} /\ "SAFETY_DOOR" \in rt

StartOK == /\ pc \in {"start", "startPrep", "startWake", "startClear"} => "CYCLE_START" \in rt
           /\ pc = "suspend" => ctx = "suspend"
           /\ pc \in {"clear", "boot"} => spindle_stop_ovr = {}

(* A flagged cycle start came after the last stop request that was taken   *)
(* up, unless the machine may be resumed anyway.                           *)
AskedOK ==
  /\ pc \in {"status", "hold", "holdClear", "start", "startPrep", "startWake", "startClear"}
       /\ "CYCLE_START" \in exec_state => "CYCLE_START" \in rt \/ resumeAsked
  /\ pc \in {"stop", "stopClear", "finish", "suspend", "restore", "sleep"} /\ ~abort => Asked
  /\ ctx # "top" /\ pc \in Between /\ ~Doomed =>
       /\ Asked \/ "RESTORE_COMPLETE" \in suspend \/ struck
       /\ state = "DOOR" /\ "DOOR_AJAR" \notin suspend => Asked

(* A copied cycle start that no stop request blocks may resume.            *)
CopiedStartOK ==
  pc \in {"status", "hold", "holdClear", "start"} /\ "CYCLE_START" \in rt /\ ~StartBlocked =>
    /\ state = "HOLD" /\ "HOLD_COMPLETE" \in suspend /\ ~struck =>
         ctx # "top" /\ (resumeAsked \/ "RESTORE_COMPLETE" \in suspend)
    /\ state = "DOOR" /\ "DOOR_AJAR" \notin suspend => resumeAsked

CancelFlagOK == "JOG_CANCEL" \in suspend /\ ~abort => state \in {"JOG", "ALARM"}

(* A restore is begun by the operator, and its end raises a cycle start.   *)
RestoreAskedOK ==
  ~abort /\ pc \notin {"clear", "boot"} =>
    /\ "RETRACT_COMPLETE" \in suspend => state \in {"DOOR", "SLEEP", "ALARM"}
    /\ "INITIATE_RESTORE" \in suspend => state \in {"DOOR", "ALARM"} /\ "DOOR_AJAR" \notin suspend
    /\ state = "DOOR" /\ "DOOR_AJAR" \notin suspend
         /\ ("INITIATE_RESTORE" \in suspend \/ ctx = "restore") => resumeAsked \/ DoorTaken

(* So is the restart of a spindle that the override stopped in a hold.     *)
SpindleAskedOK ==
  "RESTORE_CYCLE" \in spindle_stop_ovr /\ ~Doomed /\ ~struck =>
    /\ ctx # "top" /\ "HOLD_COMPLETE" \in suspend
    /\ state \in {"HOLD", "DOOR", "SLEEP"}
    /\ state = "DOOR" => "DOOR_AJAR" \in suspend /\ "RETRACT_COMPLETE" \notin suspend
    /\ state = "HOLD" => resumeAsked \/ "RESTORE_COMPLETE" \in suspend \/ DoorTaken

ProbeTopOK == exec_alarm \in {"PROBE_INITIAL", "PROBE_CONTACT"} => ctx = "top"

(* The spindle stop override, requested or in effect, keeps a hold from    *)
(* being resumed; behind an open door the retract ends it.                 *)
OverrideOK ==
  spindle_stop_ovr # {} /\ ~struck /\ ~soft_limit =>
    /\ state \in {"HOLD", "DOOR", "SLEEP", "ALARM"}
    /\ ~abort =>
         /\ state = "DOOR" => "DOOR_AJAR" \in suspend /\ "RETRACT_COMPLETE" \notin suspend
         /\ state = "ALARM" =>
              \/ pc = "criticalWait"
              \/ "RESET" \in exec_state /\ pc \in {"critical", "clearAlarm", "snapshot"}

AskInv == /\ StartOK /\ AskedOK /\ CopiedStartOK /\ CancelFlagOK /\ RestoreAskedOK
          /\ SpindleAskedOK /\ ProbeTopOK /\ OverrideOK
-----------------------------------------------------------------------------
(* A realtime call keeps it.                                               *)
LEMMA RtSystemAsks == TypeOK /\ LockInv /\ StopInv /\ AskInv /\ RtSystem => AskInv'
<1> SUFFICES ASSUME TypeOK, LockInv, StopInv, AskInv, RtSystem PROVE AskInv'
  OBVIOUS
<1> USE Capacity, SizesAssumption DEF LockInv, ContextOK, AbortOK, SuspendOK,
       AlarmOK, SoftOK, SleepFlagOK, SleepOK, LockOK, Place, Early, Tail,
       Waits, StopInv, Out, Standing, StopFlagged, AtRest, Copied, LeftOver,
       BootOK, CopyOK, OneOK, StandOK, WakeOK, ReturnOK, DoorOK, ProbeOK,
       AskInv, Doomed, Asked, Between, StartBlocked, DoorTaken, StartOK,
       AskedOK, CopiedStartOK, CancelFlagOK, RestoreAskedOK, SpindleAskedOK,
       ProbeTopOK, OverrideOK, SuspendFlags, StopOvrFlags, TypeOK, SysOK,
       FlagsOK, MotionOK, CtlOK, ExecFlags, HoldFlags, States, Alarms, Labels,
       RtLabels, TopLabels, AllLines, At, Goto, sysVars, flagVars, motionVars,
       ctlVars, histVars
<1>1. CASE ExecAlarm
  <2>1. StartOK'
    BY <1>1 DEF ExecAlarm
  <2>2. AskedOK'
    BY <1>1 DEF ExecAlarm
  <2>3. CopiedStartOK'
    BY <1>1 DEF ExecAlarm
  <2>4. CancelFlagOK'
    BY <1>1 DEF ExecAlarm
  <2>5. RestoreAskedOK'
    BY <1>1 DEF ExecAlarm
  <2>6. SpindleAskedOK'
    BY <1>1 DEF ExecAlarm
  <2>7. ProbeTopOK'
    BY <1>1 DEF ExecAlarm
  <2>8. OverrideOK'
    BY <1>1 DEF ExecAlarm
  <2> QED
    BY <2>1, <2>2, <2>3, <2>4, <2>5, <2>6, <2>7, <2>8
<1>2. CASE ExecCritical
  BY <1>2 DEF ExecCritical
<1>3. CASE ExecCriticalWait
  BY <1>3 DEF ExecCriticalWait
<1>4. CASE ExecClearAlarm
  BY <1>4 DEF ExecClearAlarm
<1>5. CASE ExecSnapshot
  <2>1. StartOK'
    BY <1>5 DEF ExecSnapshot, RtReturn, Stage
  <2>2. AskedOK'
    BY <1>5 DEF ExecSnapshot, RtReturn, Stage
  <2>3. CopiedStartOK'
    BY <1>5 DEF ExecSnapshot, RtReturn, Stage
  <2>4. CancelFlagOK'
    BY <1>5 DEF ExecSnapshot, RtReturn, Stage
  <2>5. RestoreAskedOK'
    <3>1. CASE "RESET" \in exec_state
      BY <1>5, <3>1 DEF ExecSnapshot, RtReturn
    <3>2. CASE "RESET" \notin exec_state /\ "SAFETY_DOOR" \in exec_state
      <4>1. DoorTaken'
        BY <1>5, <3>2 DEF ExecSnapshot, Stage
      <4> QED
        BY <1>5, <3>2, <4>1 DEF ExecSnapshot
    <3>3. CASE "RESET" \notin exec_state /\ "SAFETY_DOOR" \notin exec_state
      BY <1>5, <3>3 DEF ExecSnapshot
    <3> QED
      BY <3>1, <3>2, <3>3
  <2>6. SpindleAskedOK'
    <3>1. CASE "RESET" \in exec_state
      BY <1>5, <3>1 DEF ExecSnapshot, RtReturn
    <3>2. CASE "RESET" \notin exec_state /\ "SAFETY_DOOR" \in exec_state
      <4>1. DoorTaken'
        BY <1>5, <3>2 DEF ExecSnapshot, Stage
      <4> QED
        BY <1>5, <3>2, <4>1 DEF ExecSnapshot
    <3>3. CASE "RESET" \notin exec_state /\ "SAFETY_DOOR" \notin exec_state
      BY <1>5, <3>3 DEF ExecSnapshot
    <3> QED
      BY <3>1, <3>2, <3>3
  <2>7. ProbeTopOK'
    BY <1>5 DEF ExecSnapshot, RtReturn, Stage
  <2>8. OverrideOK'
    BY <1>5 DEF ExecSnapshot, RtReturn, Stage
  <2> QED
    BY <2>1, <2>2, <2>3, <2>4, <2>5, <2>6, <2>7, <2>8
<1>6. CASE ExecStatus
  BY <1>6 DEF ExecStatus, Stage
<1>7. CASE ExecHold
  <2>1. StartOK'
    BY <1>7 DEF ExecHold, HoldBegins, HoldState, DoorSuspend
  <2>2. AskedOK'
    BY <1>7 DEF ExecHold, HoldBegins, HoldState, DoorSuspend
  <2>3. CopiedStartOK'
    BY <1>7 DEF ExecHold, HoldBegins, HoldState, DoorSuspend
  <2>4. CancelFlagOK'
    BY <1>7 DEF ExecHold, HoldBegins, HoldState, DoorSuspend
  <2>5. RestoreAskedOK'
    BY <1>7 DEF ExecHold, HoldBegins, HoldState, DoorSuspend
  <2>6. SpindleAskedOK'
    BY <1>7 DEF ExecHold, HoldBegins, HoldState, DoorSuspend
  <2>7. ProbeTopOK'
    BY <1>7 DEF ExecHold, HoldBegins, HoldState, DoorSuspend
  <2>8. OverrideOK'
    BY <1>7 DEF ExecHold, HoldBegins, HoldState, DoorSuspend
  <2> QED
    BY <2>1, <2>2, <2>3, <2>4, <2>5, <2>6, <2>7, <2>8
<1>8. CASE ExecHoldClear
  BY <1>8 DEF ExecHoldClear, Stage
<1>9. CASE ExecStart
  <2>1. StartOK'
    BY <1>9 DEF ExecStart, StartBlocked, ReadyToStart, Restored,
       DoorClosed, SpindleHeld
  <2>2. AskedOK'
    BY <1>9 DEF ExecStart, StartBlocked, ReadyToStart, Restored,
       DoorClosed, SpindleHeld
  <2>3. CopiedStartOK'
    BY <1>9 DEF ExecStart, StartBlocked, ReadyToStart, Restored,
       DoorClosed, SpindleHeld
  <2>4. CancelFlagOK'
    BY <1>9 DEF ExecStart, StartBlocked, ReadyToStart, Restored,
       DoorClosed, SpindleHeld
  <2>5. RestoreAskedOK'
    BY <1>9 DEF ExecStart, StartBlocked, ReadyToStart, Restored,
       DoorClosed, SpindleHeld
  <2>6. SpindleAskedOK'
    BY <1>9 DEF ExecStart, StartBlocked, ReadyToStart, Restored,
       DoorClosed, SpindleHeld
  <2>7. ProbeTopOK'
    BY <1>9 DEF ExecStart, StartBlocked, ReadyToStart, Restored,
       DoorClosed, SpindleHeld
  <2>8. OverrideOK'
    BY <1>9 DEF ExecStart, StartBlocked, ReadyToStart, Restored,
       DoorClosed, SpindleHeld
  <2> QED
    BY <2>1, <2>2, <2>3, <2>4, <2>5, <2>6, <2>7, <2>8
<1>10. CASE ExecStartPrep
  BY <1>10 DEF ExecStartPrep, st_prep_buffer, Smaller
<1>11. CASE ExecStartWake
  BY <1>11 DEF ExecStartWake
<1>12. CASE ExecStartClear
  BY <1>12 DEF ExecStartClear, Stage
<1>13. CASE ExecStop
  BY <1>13 DEF ExecStop, HoldStops, EmptyBuffers
<1>14. CASE ExecStopClear
  BY <1>14 DEF ExecStopClear
<1>15. CASE ExecFinish
  BY <1>15 DEF ExecFinish, Reloads, st_prep_buffer, RtReturn, Smaller
<1> QED
  BY <1>1, <1>2, <1>3, <1>4, <1>5, <1>6, <1>7, <1>8, <1>9, <1>10, <1>11,
     <1>12, <1>13, <1>14, <1>15 DEF RtSystem

(* The suspend loops keep it.                                              *)
LEMMA RtSuspendAsks == TypeOK /\ LockInv /\ StopInv /\ AskInv /\ RtSuspend => AskInv'
<1> SUFFICES ASSUME TypeOK, LockInv, StopInv, AskInv, RtSuspend PROVE AskInv'
  OBVIOUS
<1> USE Capacity, SizesAssumption DEF LockInv, ContextOK, AbortOK, SuspendOK,
       AlarmOK, SoftOK, SleepFlagOK, SleepOK, LockOK, Place, Early, Tail,
       Waits, StopInv, Out, Standing, StopFlagged, AtRest, Copied, LeftOver,
       BootOK, CopyOK, OneOK, StandOK, WakeOK, ReturnOK, DoorOK, ProbeOK,
       AskInv, Doomed, Asked, Between, StartBlocked, DoorTaken, StartOK,
       AskedOK, CopiedStartOK, CancelFlagOK, RestoreAskedOK, SpindleAskedOK,
       ProbeTopOK, OverrideOK, SuspendFlags, StopOvrFlags, TypeOK, SysOK,
       FlagsOK, MotionOK, CtlOK, ExecFlags, HoldFlags, States, Alarms, Labels,
       RtLabels, TopLabels, AllLines, At, Goto, sysVars, flagVars, motionVars,
       ctlVars, histVars
<1>1. CASE SuspendAborted
  BY <1>1 DEF SuspendAborted, LeaveSuspend
<1>2. CASE SuspendWait
  BY <1>2 DEF SuspendWait, PollAgain
<1>3. CASE Retract
  BY <1>3 DEF Retract, InSuspend, PollAgain
<1>4. CASE FallAsleep
  BY <1>4 DEF FallAsleep, InSuspend
<1>5. CASE Sleeping
  BY <1>5 DEF Sleeping, LeaveSuspend, PollAgain
<1>6. CASE DoorRetracted
  BY <1>6 DEF DoorRetracted, InSuspend, PollAgain, RestoreEnd
<1>7. CASE RestoreDelay
  BY <1>7 DEF RestoreDelay, PollAgain
<1>8. CASE RestoreDelayOver
  BY <1>8 DEF RestoreDelayOver, PollAgain, RestoreEnd
<1>9. CASE HoldManager
  <2>1. StartOK'
    BY <1>9 DEF HoldManager, InSuspend, PollAgain
  <2>2. AskedOK'
    BY <1>9 DEF HoldManager, InSuspend, PollAgain
  <2>3. CopiedStartOK'
    BY <1>9 DEF HoldManager, InSuspend, PollAgain
  <2>4. CancelFlagOK'
    BY <1>9 DEF HoldManager, InSuspend, PollAgain
  <2>5. RestoreAskedOK'
    BY <1>9 DEF HoldManager, InSuspend, PollAgain
  <2>6. SpindleAskedOK'
    BY <1>9 DEF HoldManager, InSuspend, PollAgain
  <2>7. ProbeTopOK'
    BY <1>9 DEF HoldManager, InSuspend, PollAgain
  <2>8. OverrideOK'
    BY <1>9 DEF HoldManager, InSuspend, PollAgain
  <2> QED
    BY <2>1, <2>2, <2>3, <2>4, <2>5, <2>6, <2>7, <2>8
<1> QED
  BY <1>1, <1>2, <1>3, <1>4, <1>5, <1>6, <1>7, <1>8, <1>9 DEF RtSuspend

(* Start-up and the main loop keep it.                                     *)
LEMMA MainLoopAsks == TypeOK /\ LockInv /\ StopInv /\ AskInv /\ MainLoop => AskInv'
<1> SUFFICES ASSUME TypeOK, LockInv, StopInv, AskInv, MainLoop PROVE AskInv'
  OBVIOUS
<1> USE Capacity, SizesAssumption DEF LockInv, ContextOK, AbortOK, SuspendOK,
       AlarmOK, SoftOK, SleepFlagOK, SleepOK, LockOK, Place, Early, Tail,
       Waits, StopInv, Out, Standing, StopFlagged, AtRest, Copied, LeftOver,
       BootOK, CopyOK, OneOK, StandOK, WakeOK, ReturnOK, DoorOK, ProbeOK,
       AskInv, Doomed, Asked, Between, StartBlocked, DoorTaken, StartOK,
       AskedOK, CopiedStartOK, CancelFlagOK, RestoreAskedOK, SpindleAskedOK,
       ProbeTopOK, OverrideOK, SuspendFlags, StopOvrFlags, TypeOK, SysOK,
       FlagsOK, MotionOK, CtlOK, ExecFlags, HoldFlags, States, Alarms, Labels,
       RtLabels, TopLabels, AllLines, At, Goto, sysVars, flagVars, motionVars,
       ctlVars, histVars
<1>1. CASE Init1
  BY <1>1 DEF Init1
<1>2. CASE Clear
  BY <1>2 DEF Clear, EmptyBuffers
<1>3. CASE Boot
  <2>1. StartOK'
    BY <1>3 DEF Boot
  <2>2. AskedOK'
    BY <1>3 DEF Boot
  <2>3. CopiedStartOK'
    BY <1>3 DEF Boot
  <2>4. CancelFlagOK'
    BY <1>3 DEF Boot
  <2>5. RestoreAskedOK'
    BY <1>3 DEF Boot
  <2>6. SpindleAskedOK'
    BY <1>3 DEF Boot
  <2>7. ProbeTopOK'
    BY <1>3 DEF Boot
  <2>8. OverrideOK'
    BY <1>3 DEF Boot
  <2> QED
    BY <2>1, <2>2, <2>3, <2>4, <2>5, <2>6, <2>7, <2>8
<1>4. ASSUME NEW l \in Lines, ReadLine(l) PROVE AskInv'
  BY <1>4 DEF ReadLine
<1>5. CASE ReadEmpty
  BY <1>5 DEF ReadEmpty, ExecuteRealtime, auto_cycle_start
<1>6. CASE Loop
  BY <1>6 DEF Loop
<1> QED
  BY <1>1, <1>2, <1>3, <1>4, <1>5, <1>6 DEF MainLoop

(* The execution of a line keeps it.                                       *)
LEMMA LineStepsAsks == TypeOK /\ LockInv /\ StopInv /\ AskInv /\ LineSteps => AskInv'
<1> SUFFICES ASSUME TypeOK, LockInv, StopInv, AskInv, LineSteps PROVE AskInv'
  OBVIOUS
<1> USE Capacity, SizesAssumption DEF LockInv, ContextOK, AbortOK, SuspendOK,
       AlarmOK, SoftOK, SleepFlagOK, SleepOK, LockOK, Place, Early, Tail,
       Waits, StopInv, Out, Standing, StopFlagged, AtRest, Copied, LeftOver,
       BootOK, CopyOK, OneOK, StandOK, WakeOK, ReturnOK, DoorOK, ProbeOK,
       AskInv, Doomed, Asked, Between, StartBlocked, DoorTaken, StartOK,
       AskedOK, CopiedStartOK, CancelFlagOK, RestoreAskedOK, SpindleAskedOK,
       ProbeTopOK, OverrideOK, SuspendFlags, StopOvrFlags, TypeOK, SysOK,
       FlagsOK, MotionOK, CtlOK, ExecFlags, HoldFlags, States, Alarms, Labels,
       RtLabels, TopLabels, AllLines, At, Goto, sysVars, flagVars, motionVars,
       ctlVars, histVars
<1>1. CASE ExecuteAborted
  BY <1>1 DEF ExecuteAborted
<1>2. CASE RefuseLine
  BY <1>2 DEF RefuseLine, Execute, RefusedIn, LineDone
<1>3. CASE Move
  BY <1>3 DEF Move, Accepted, Execute, RefusedIn, mc_line, SoftViolation,
     ExecuteRealtime, LineDone
<1>4. CASE Jog
  BY <1>4 DEF Jog, Accepted, Execute, RefusedIn, ExecuteRealtime, LineDone
<1>5. CASE StartSync
  BY <1>5 DEF StartSync, Accepted, Execute, RefusedIn, ExecuteRealtime,
     auto_cycle_start
<1>6. CASE CheckMode
  BY <1>6 DEF CheckMode, Accepted, Execute, RefusedIn, LineDone, mc_reset,
     InMotionState
<1>7. CASE Unlock
  BY <1>7 DEF Unlock, Accepted, Execute, RefusedIn, LineDone
<1>8. CASE Sleep
  BY <1>8 DEF Sleep, Accepted, Execute, RefusedIn, LineDone
<1>9. CASE RoomAborted
  BY <1>9 DEF RoomAborted, AfterLine
<1>10. CASE RoomFull
  BY <1>10 DEF RoomFull, ExecuteRealtime, auto_cycle_start
<1>11. CASE QueueBlock
  BY <1>11 DEF QueueBlock, AfterLine
<1>12. CASE JogStart
  BY <1>12 DEF JogStart, LineDone
<1>13. CASE JogPrep
  BY <1>13 DEF JogPrep, st_prep_buffer, Smaller
<1>14. CASE JogWake
  BY <1>14 DEF JogWake, LineDone
<1>15. CASE SyncAgain
  BY <1>15 DEF SyncAgain, ExecuteRealtime
<1>16. CASE Synced
  BY <1>16 DEF Synced, LineDone
<1>17. CASE Dwell
  BY <1>17 DEF Dwell, LineDone, ExecuteRealtime
<1>18. CASE ProbeInitial
  BY <1>18 DEF ProbeInitial, ExecuteRealtime
<1>19. CASE ProbeMove
  BY <1>19 DEF ProbeMove, mc_line, SoftViolation, ExecuteRealtime, LineDone
<1>20. CASE ProbeArm
  BY <1>20 DEF ProbeArm, ExecuteRealtime
<1>21. CASE ProbeWait
  BY <1>21 DEF ProbeWait, LineDone, ExecuteRealtime
<1>22. CASE ProbeOver
  BY <1>22 DEF ProbeOver, ExecuteRealtime
<1>23. CASE ProbeEnd
  BY <1>23 DEF ProbeEnd, LineDone, EmptyBuffers
<1>24. CASE SoftWait
  BY <1>24 DEF SoftWait, ExecuteRealtime
<1>25. CASE SoftReset
  BY <1>25 DEF SoftReset, mc_reset, InMotionState
<1>26. CASE SoftAlarm
  BY <1>26 DEF SoftAlarm, ExecuteRealtime
<1> QED
  BY <1>1, <1>2, <1>3, <1>4, <1>5, <1>6, <1>7, <1>8, <1>9, <1>10, <1>11,
     <1>12, <1>13, <1>14, <1>15, <1>16, <1>17, <1>18, <1>19, <1>20, <1>21,
     <1>22, <1>23, <1>24, <1>25, <1>26 DEF LineSteps

(* The step interrupt keeps it.                                            *)
LEMMA StepperAsks == TypeOK /\ LockInv /\ StopInv /\ AskInv /\ Stepper => AskInv'
<1> SUFFICES ASSUME TypeOK, LockInv, StopInv, AskInv, Stepper PROVE AskInv'
  OBVIOUS
<1> USE Capacity, SizesAssumption DEF LockInv, ContextOK, AbortOK, SuspendOK,
       AlarmOK, SoftOK, SleepFlagOK, SleepOK, LockOK, Place, Early, Tail,
       Waits, StopInv, Out, Standing, StopFlagged, AtRest, Copied, LeftOver,
       BootOK, CopyOK, OneOK, StandOK, WakeOK, ReturnOK, DoorOK, ProbeOK,
       AskInv, Doomed, Asked, Between, StartBlocked, DoorTaken, StartOK,
       AskedOK, CopiedStartOK, CancelFlagOK, RestoreAskedOK, SpindleAskedOK,
       ProbeTopOK, OverrideOK, SuspendFlags, StopOvrFlags, TypeOK, SysOK,
       FlagsOK, MotionOK, CtlOK, ExecFlags, HoldFlags, States, Alarms, Labels,
       RtLabels, TopLabels, AllLines, At, Goto, sysVars, flagVars, motionVars,
       ctlVars, histVars
<1>1. CASE StepSegment
  BY <1>1 DEF StepSegment, Step
<1>2. CASE StepEmpty
  BY <1>2 DEF StepEmpty, Step, Refillable
<1>3. CASE StepStopped
  BY <1>3 DEF StepStopped
<1> QED
  BY <1>1, <1>2, <1>3 DEF Stepper

(* The receive interrupt and the limit pin keep it.                        *)
LEMMA InputsAsks == TypeOK /\ LockInv /\ StopInv /\ AskInv /\ Inputs => AskInv'
<1> SUFFICES ASSUME TypeOK, LockInv, StopInv, AskInv, Inputs PROVE AskInv'
  OBVIOUS
<1> USE Capacity, SizesAssumption DEF LockInv, ContextOK, AbortOK, SuspendOK,
       AlarmOK, SoftOK, SleepFlagOK, SleepOK, LockOK, Place, Early, Tail,
       Waits, StopInv, Out, Standing, StopFlagged, AtRest, Copied, LeftOver,
       BootOK, CopyOK, OneOK, StandOK, WakeOK, ReturnOK, DoorOK, ProbeOK,
       AskInv, Doomed, Asked, Between, StartBlocked, DoorTaken, StartOK,
       AskedOK, CopiedStartOK, CancelFlagOK, RestoreAskedOK, SpindleAskedOK,
       ProbeTopOK, OverrideOK, SuspendFlags, StopOvrFlags, TypeOK, SysOK,
       FlagsOK, MotionOK, CtlOK, ExecFlags, HoldFlags, States, Alarms, Labels,
       RtLabels, TopLabels, AllLines, At, Goto, sysVars, flagVars, motionVars,
       ctlVars, histVars
<1>1. CASE CmdReset
  BY <1>1 DEF CmdReset, Input, mc_reset, InMotionState
<1>2. CASE CmdStatus
  BY <1>2 DEF CmdStatus, Input, SetFlag
<1>3. CASE CmdCycleStart
  BY <1>3 DEF CmdCycleStart, Input, SetFlag
<1>4. CASE CmdFeedHold
  BY <1>4 DEF CmdFeedHold, Input, SetFlag
<1>5. CASE CmdSafetyDoor
  BY <1>5 DEF CmdSafetyDoor, Input, SetFlag
<1>6. CASE CmdJogCancel
  BY <1>6 DEF CmdJogCancel, Input, SetFlag
<1>7. CASE CmdSpindleStop
  BY <1>7 DEF CmdSpindleStop, Input
<1>8. CASE LimitPin
  BY <1>8 DEF LimitPin, Input, InMotionState
<1> QED
  BY <1>1, <1>2, <1>3, <1>4, <1>5, <1>6, <1>7, <1>8 DEF Inputs

-----------------------------------------------------------------------------
LEMMA AskInductive ==
  /\ Init => TypeOK /\ LockInv /\ StopInv /\ AskInv
  /\ TypeOK /\ LockInv /\ StopInv /\ AskInv /\ [Next]_vars
       => (TypeOK /\ LockInv /\ StopInv /\ AskInv)'
<1>1. Init => AskInv
  BY DEF Init, AskInv, StartOK, AskedOK, CopiedStartOK, CancelFlagOK, RestoreAskedOK,
         SpindleAskedOK, ProbeTopOK, OverrideOK, Between
<1>2. ASSUME TypeOK, LockInv, StopInv, AskInv, [Next]_vars PROVE AskInv'
  <2>1. CASE UNCHANGED vars
    BY <1>2, <2>1 DEF vars, sysVars, flagVars, motionVars, ctlVars, histVars, AskInv, StartOK,
       AskedOK, CopiedStartOK, CancelFlagOK, RestoreAskedOK, SpindleAskedOK, ProbeTopOK,
       OverrideOK, Doomed, Asked, StartBlocked, DoorTaken
  <2> QED
    BY <1>2, <2>1, RtSystemAsks, RtSuspendAsks, MainLoopAsks, LineStepsAsks,
       StepperAsks, InputsAsks DEF Next, Main
<1> QED
  BY <1>1, <1>2, StopInductive

-----------------------------------------------------------------------------
(* A hold or a door is resumed by a cycle start that came later than the   *)
(* request to stop, in every interleaving of the inputs with the check     *)
(* points, the retract and the restore; the only exception is the one      *)
(* ResumeIsAsked shows.                                                    *)
THEOREM ResumeIsOperators == Spec => ResumeNeedsOperator
<1>1. ASSUME TypeOK, LockInv, StopInv, AskInv, [Next]_vars
      PROVE [(state \in {"HOLD", "DOOR"} /\ state' = "CYCLE" /\ ~struck)
               => (resumeAsked \/ HeldInRestore)]_vars
  <2> SUFFICES ASSUME Next, state \in {"HOLD", "DOOR"}, state' = "CYCLE", ~struck
               PROVE resumeAsked \/ HeldInRestore
    BY <1>1
  <2>1. ExecStart
    <3>1. state' # state
      OBVIOUS
    <3>2. ~ExecAlarm /\ ~ExecStop /\ ~Boot /\ ~JogStart /\ ~Unlock /\ ~CheckMode
      BY DEF ExecAlarm, ExecStop, Boot, JogStart, Unlock, CheckMode
    <3>3. ~ExecHold
      BY DEF ExecHold, HoldState
    <3> QED
      BY <3>1, <3>2, <3>3, StateWriters
  <2>2. pc = "start" /\ ~StartBlocked /\ ReadyToStart
    BY <2>1 DEF ExecStart, At
  <2> QED
    BY <1>1, <2>2 DEF AskInv, StartOK, CopiedStartOK, ReadyToStart, Restored, DoorClosed,
       HeldInRestore
<1> QED
  BY <1>1, AskInductive, PTL DEF Spec, ResumeNeedsOperator

(* The machine does not move, in a cycle or a jog, while the override      *)
(* holds the spindle or has a request for it that was not served.          *)
THEOREM SpindleIsRestored == Spec => []NoMotionWithSpindleHeld
<1>1. AskInv => NoMotionWithSpindleHeld
  BY DEF AskInv, OverrideOK, NoMotionWithSpindleHeld
<1> QED
  BY <1>1, AskInductive, PTL DEF Spec

(* Which actions take the jog cancel flag back.                            *)
LEMMA CancelWriters ==
  Next => \/ "JOG_CANCEL" \in suspend => "JOG_CANCEL" \in suspend'
          \/ ExecHold \/ ExecStart \/ ExecStop \/ Init1 \/ Boot
<1> USE DEF sysVars
<1>1. RtSystem => \/ "JOG_CANCEL" \in suspend => "JOG_CANCEL" \in suspend'
                  \/ ExecHold \/ ExecStart \/ ExecStop
  BY DEF RtSystem, ExecAlarm, ExecCritical, ExecCriticalWait, ExecClearAlarm, ExecSnapshot,
         ExecStatus, ExecHoldClear, ExecStartPrep, ExecStartWake, ExecStartClear,
         ExecStopClear, ExecFinish
<1>2. RtSuspend => ("JOG_CANCEL" \in suspend => "JOG_CANCEL" \in suspend')
  BY DEF RtSuspend, SuspendAborted, SuspendWait, Retract, FallAsleep, Sleeping, DoorRetracted,
         RestoreDelay, RestoreDelayOver, RestoreEnd, HoldManager
<1>3. MainLoop => UNCHANGED suspend \/ Init1 \/ Boot
  BY DEF MainLoop, Clear, ReadLine, ReadEmpty, Loop
<1>4. LineSteps => UNCHANGED suspend
  BY DEF LineSteps, ExecuteAborted, RefuseLine, Move, mc_line, SoftViolation, Jog, StartSync,
         CheckMode, Unlock, Sleep, RoomAborted, RoomFull, QueueBlock, JogStart, JogPrep,
         JogWake, SyncAgain, Synced, Dwell, ProbeInitial, ProbeMove, ProbeArm, ProbeWait,
         ProbeOver, ProbeEnd, SoftWait, SoftReset, SoftAlarm
<1>5. Stepper => UNCHANGED suspend
  BY DEF Stepper, StepSegment, StepEmpty, StepStopped, Step
<1>6. Inputs => UNCHANGED suspend
  BY DEF Inputs, CmdReset, CmdStatus, CmdCycleStart, CmdFeedHold, CmdSafetyDoor,
         CmdJogCancel, CmdSpindleStop, LimitPin, Input
<1> QED
  BY <1>1, <1>2, <1>3, <1>4, <1>5, <1>6 DEF Next, Main

(* A cancelled jog leaves nothing in the planner or the segment ring,      *)
(* whichever way it ends.                                                  *)
THEOREM JogIsFlushed == Spec => CancelledJogIsFlushed
<1>1. ASSUME TypeOK, LockInv, StopInv, AskInv, [Next]_vars
      PROVE [("JOG_CANCEL" \in suspend /\ "JOG_CANCEL" \notin suspend')
               => ((work' = 0 /\ segs' = 0) \/ pc = "init")]_vars
  <2> SUFFICES ASSUME Next, "JOG_CANCEL" \in suspend, "JOG_CANCEL" \notin suspend', pc # "init"
               PROVE work' = 0 /\ segs' = 0
    BY <1>1
  <2>1. ~Init1 /\ ~Boot
    BY DEF Init1, Boot, At
  <2>2. ~ExecStart
    BY <1>1 DEF LockInv, AbortOK, AskInv, CancelFlagOK, ExecStart, At, ReadyToStart, Restored,
                DoorClosed, Tail, RtLabels
  <2>3. ~ExecHold
    BY <1>1 DEF LockInv, AbortOK, AskInv, CancelFlagOK, ExecHold, At, DoorSuspend, Tail, RtLabels
  <2>4. ExecStop
    BY <2>1, <2>2, <2>3, CancelWriters
  <2> QED
    BY <2>4 DEF ExecStop, HoldStops, EmptyBuffers
<1> QED
  BY <1>1, AskInductive, PTL DEF Spec, CancelledJogIsFlushed

=============================================================================
