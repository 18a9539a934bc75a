---------------------------- MODULE HomingProofs ----------------------------
(***************************************************************************)
(* A homing cycle leaves a homed or a locked machine, and armed limits:    *)
(* all axes, cycles, distances and starting points.                        *)
(*                                                                         *)
(* The argument: the last locating approach goes step by step and stops    *)
(* all its axes on their switches before its motion ends, so that no cycle *)
(* stop is left over to end the pull-off before its time; the pull-off     *)
(* then takes all axes back by the same distance.  Every other way out     *)
(* raises an alarm, and the alarm is still there when the state is set.    *)
(***************************************************************************)
EXTENDS Homing, TLAPS

Moving == {"poll", "check", "exit", "stop"}
Cycling == Moving \cup {"pass", "zero"}

TypeInv ==
  /\ state \in {"IDLE", "ALARM", "HOMING", "DOOR"}
  /\ flags \subseteq {"RESET", "DOOR", "CYCLE_STOP"}
  /\ alarm \in BOOLEAN /\ approach \in BOOLEAN /\ read \in BOOLEAN
  /\ running \in BOOLEAN /\ limits \in BOOLEAN /\ tried \in BOOLEAN
  /\ pc \in Cycling \cup {"ready", "realtime", "sync", "suspended", "stranded", "abort"}
  /\ cycle \in 1 .. Len(Cycles) /\ passes \in 0 .. Passes
  /\ axislock \subseteq Axes /\ left \in Nat
  /\ machine \in [Axes -> Int] /\ position \in [Axes -> Int]
  /\ queue \in {<<>>, <<Move>>}

(* Which states, flags and running steppers occur where.                   *)
ControlInv ==
  /\ pc \in Cycling \cup {"realtime"} => state = "HOMING"
  /\ pc = "sync" => state # "ALARM"
  /\ pc \in {"suspended", "stranded"} => state = "DOOR"
  /\ pc \in {"suspended", "stranded", "abort"} => ~alarm
  /\ pc \in {"ready", "suspended"} => limits
  /\ pc = "exit" => flags # {}
  /\ alarm => "RESET" \in flags
  /\ "CYCLE_STOP" \in flags => pc \in Cycling \cup {"realtime", "abort"}
  /\ running => \/ pc \in Moving
                \/ pc = "realtime" /\ alarm
                \/ pc = "abort" /\ state = "ALARM"

(* Outside of the cycle: homed or locked.                                  *)
Homed ==
  pc \notin Cycling /\ tried /\ ~alarm /\ state # "ALARM" => machine = position

(* The axes of the earlier cycles have their position.                     *)
Done == \A i \in 1 .. cycle - 1 : \A a \in Cycles[i] \ Active : machine[a] = position[a]

Turns ==
  /\ pc # "zero" => approach = (passes % 2 = 1)
  /\ pc \in Moving => axislock \subseteq Active

Between(a) == -PullOff <= machine[a] /\ machine[a] < 0

(* Before a pass.                                                          *)
Ready ==
  pc = "pass" =>
    /\ approach /\ passes < Passes => \A a \in Active : Between(a)
    /\ ~approach => \A a \in Active : machine[a] >= 0
    /\ ~approach /\ passes < Passes - 1 => \A a \in Active : machine[a] = 0
    /\ passes = 0 => "CYCLE_STOP" \notin flags

Approaching ==
  pc \in Moving /\ approach =>
    /\ pc = "stop" => axislock = {}
    /\ pc = "poll" => axislock # {}
    /\ \A a \in Active \ axislock : machine[a] >= 0

(* The approach at the locating rate; its motion does not end.             *)
Locating ==
  pc \in Moving /\ approach /\ passes < Passes =>
    /\ \A a \in axislock : /\ machine[a] <= 0 /\ (read => machine[a] < 0)
                           /\ machine[a] + left >= LocateScalar * PullOff - PullOff
    /\ \A a \in Active \ axislock : machine[a] = 0
    /\ left >= LocateScalar * PullOff - PullOff - 1
    /\ read \/ axislock # {} => left >= LocateScalar * PullOff - PullOff
    /\ pc = "stop" => "CYCLE_STOP" \notin flags

PullingOff ==
  pc \in Moving /\ ~approach =>
    /\ axislock = Active /\ left <= PullOff
    /\ \A a \in Active : machine[a] + PullOff - left >= 0
    /\ passes < Passes - 1 => \A a \in Active : machine[a] = left - PullOff
    /\ pc = "stop" => \A a \in Active : machine[a] < 0
    /\ passes = 0 /\ (pc = "stop" \/ "CYCLE_STOP" \in flags) => left = 0

AtZero == pc = "zero" => \A a \in Active : machine[a] = -PullOff

CycleInv ==
  pc \in Cycling /\ ~alarm =>
    Done /\ Turns /\ Ready /\ Approaching /\ Locating /\ PullingOff /\ AtZero

IInv == TypeInv /\ ControlInv /\ Homed /\ CycleInv

-----------------------------------------------------------------------------
(* What the constants give.                                                *)
LEMMA Numbers ==
  /\ PullOff \in Nat \ {0} /\ SeekStep \in Nat \ {0} /\ Search \in Nat
  /\ Passes \in Nat /\ Passes % 2 = 1 /\ Passes >= 3
  /\ LocateScalar * PullOff \in Nat /\ LocateScalar * PullOff > PullOff + 1
<1>1. /\ PullOff \in Nat \ {0} /\ SeekStep \in Nat \ {0} /\ Search \in Nat
      /\ LocateScalar \in Nat /\ LocateCycles \in Nat \ {0}
  BY HomingAssumption
<1> QED
  BY <1>1, LocateAssumption DEF Passes

LEMMA Sets ==
  /\ Len(Cycles) \in Nat /\ Len(Cycles) >= 1 /\ DOMAIN Cycles = 1 .. Len(Cycles)
  /\ \A i \in 1 .. Len(Cycles) : Cycles[i] \subseteq Axes /\ Cycles[i] # {}
  /\ \A a \in Axes : \E i \in 1 .. Len(Cycles) : a \in Cycles[i]
  /\ Starts \subseteq Int /\ Move \in [Axes -> Int] /\ Malformed \subseteq {"IDLE", "ALARM"}
<1>1. Cycles \in Seq(SUBSET Axes) /\ Cycles # <<>>
  BY HomingAssumption
<1>2. /\ Len(Cycles) \in Nat /\ Len(Cycles) >= 1 /\ DOMAIN Cycles = 1 .. Len(Cycles)
      /\ \A i \in 1 .. Len(Cycles) : Cycles[i] \subseteq Axes
  BY <1>1
<1>3. \A a \in Axes : \E i \in 1 .. Len(Cycles) : a \in Cycles[i]
  BY <1>2, CyclesAssumption
<1> QED
  BY <1>2, <1>3, CyclesAssumption, HomingAssumption

LEMMA Turn == \A p \in Nat : p # 0 => p - 1 \in Nat /\ ((p - 1) % 2 = 1) = ~(p % 2 = 1)
  OBVIOUS

LEMMA ActiveFacts == TypeInv => Active \subseteq Axes /\ Active # {}
  BY Sets DEF TypeInv, Active

-----------------------------------------------------------------------------
(* Types.                                                                  *)
LEMMA TypeInitial == Init => TypeInv
<1> SUFFICES ASSUME Init PROVE TypeInv
  OBVIOUS
<1>1. Starts \subseteq Int /\ 1 \in 1 .. Len(Cycles) /\ 0 \in 0 .. Passes
  BY Sets, Numbers
<1>2. machine \in [Axes -> Int]
  <2>1. machine \in [Axes -> Starts]
    BY DEF Init
  <2> QED
    BY <1>1, <2>1
<1>3. position \in [Axes -> Int]
  BY DEF Init
<1>4. /\ state \in {"IDLE", "ALARM"} /\ flags = {} /\ alarm = FALSE /\ pc = "ready"
      /\ cycle = 1 /\ passes = 0 /\ approach = TRUE /\ axislock = {} /\ left = 0
      /\ read = FALSE /\ running = FALSE /\ limits = TRUE /\ tried = FALSE /\ queue = <<>>
  BY DEF Init
<1> QED
  BY <1>1, <1>2, <1>3, <1>4 DEF TypeInv, Cycling, Moving

LEMMA TypeStep == TypeInv /\ [Next]_vars => TypeInv'
<1> SUFFICES ASSUME TypeInv, [Next]_vars PROVE TypeInv'
  OBVIOUS
<1> USE DEF TypeInv, Cycling, Moving
<1>1. CASE Step
  <2>1. SUFFICES ASSUME Step PROVE left' \in Nat /\ machine' \in [Axes -> Int]
                                    /\ position' \in [Axes -> Int]
    <3>1. read' \in BOOLEAN /\ UNCHANGED <<state, flags, alarm, pc, cycle, passes, approach,
                                       axislock, running, queue, limits, tried>>
      BY <1>1 DEF Step
    <3> QED
      BY <1>1, <3>1
  <2>2. Distance \in Nat /\ Distance > 0
    BY Numbers DEF Distance
  <2> QED
    BY <2>1, <2>2 DEF Step
<1>2. CASE MotionEnd
  <2>1. flags' = flags \cup {"CYCLE_STOP"} /\ running' \in BOOLEAN
        /\ UNCHANGED <<state, alarm, pc, homing, places, limits, tried>>
    BY <1>2 DEF MotionEnd
  <2> QED
    BY <2>1 DEF homing, places
<1>3. CASE Reset
  <2>1. flags' = flags \cup {"RESET"} /\ UNCHANGED <<state, pc, homing, places, limits, tried>>
    BY <1>3 DEF Reset
  <2>2. alarm' \in BOOLEAN /\ running' \in BOOLEAN
    BY <1>3 DEF Reset
  <2> QED
    BY <2>1, <2>2 DEF homing, places
<1>4. CASE Door
  BY <1>4 DEF Door, homing, places
<1>5. CASE StartPass
  BY <1>5, ActiveFacts, Numbers DEF StartPass, At
<1>6. CASE Poll
  BY <1>6 DEF Poll, At, Same, places
<1>7. CASE Check
  BY <1>7 DEF Check, At, Same, homing, places
<1>8. CASE Exit
  BY <1>8 DEF Exit, At, homing, places
<1>9. CASE Stop
  <2>1. Passes \in Nat
    BY Numbers
  <2>2. passes' \in 0 .. Passes /\ pc' \in {"pass", "zero"}
    BY <1>9, <2>1 DEF Stop
  <2>3. approach' \in BOOLEAN /\ running' \in BOOLEAN
    BY <1>9 DEF Stop
  <2> QED
    BY <1>9, <2>2, <2>3 DEF Stop, At, places
<1>10. CASE SetPosition
  <2>1. Passes \in Nat /\ Len(Cycles) \in Nat /\ PullOff \in Nat
    BY Numbers, Sets
  <2>2. position' \in [Axes -> Int]
    BY <1>10, <2>1 DEF SetPosition
  <2>3. /\ cycle' \in 1 .. Len(Cycles) /\ passes' \in 0 .. Passes
        /\ pc' \in {"pass", "realtime"} /\ approach' \in BOOLEAN
    <3>1. \/ /\ cycle < Len(Cycles) /\ cycle' = cycle + 1 /\ passes' = Passes
             /\ approach' = TRUE /\ pc' = "pass"
          \/ cycle' = cycle /\ passes' = passes /\ approach' = approach /\ pc' = "realtime"
      BY <1>10 DEF SetPosition
    <3>2. cycle' \in 1 .. Len(Cycles) /\ passes' \in 0 .. Passes
      BY <2>1, <3>1
    <3>3. pc' \in {"pass", "realtime"}
      BY <3>1
    <3>4. approach' \in BOOLEAN
      BY <3>1
    <3> QED
      BY <3>2, <3>3, <3>4
  <2>4. UNCHANGED <<state, flags, alarm, running, machine, queue, limits, tried,
                    axislock, left, read>>
    BY <1>10 DEF SetPosition, At
  <2> QED
    BY <2>2, <2>3, <2>4
<1>11. CASE Realtime
  BY <1>11 DEF Realtime, At, homing, places
<1>12. CASE Resume
  BY <1>12 DEF Resume, At, homing, places
<1>13. CASE Abort
  BY <1>13 DEF Abort, At, Same, homing, places
<1>14. CASE Sync
  BY <1>14 DEF Sync, At, homing
<1>15. CASE Reinit
  BY <1>15 DEF Reinit, At, homing
<1>16. CASE Home
  <2>1. Passes \in 0 .. Passes /\ 1 \in 1 .. Len(Cycles)
    BY Numbers, Sets
  <2> QED
    BY <1>16, <2>1 DEF Home, Line, places
<1>17. CASE HomeRefused
  BY <1>17 DEF HomeRefused, Line, homing, places
<1>18. CASE Unlock
  BY <1>18 DEF Unlock, Line, homing, places
<1>19. CASE Plan
  BY <1>19 DEF Plan, Line, homing
<1>20. CASE RunMotion
  <2>1. Move \in [Axes -> Int] /\ queue[1] = Move
    BY <1>20, Sets DEF RunMotion
  <2>2. machine' \in [Axes -> Int] /\ position' \in [Axes -> Int]
    BY <1>20, <2>1 DEF RunMotion
  <2> QED
    BY <1>20, <2>2 DEF RunMotion, homing
<1>21. CASE UNCHANGED vars
  BY <1>21 DEF vars, homing, places
<1> QED
  BY <1>1, <1>2, <1>3, <1>4, <1>5, <1>6, <1>7, <1>8, <1>9, <1>10, <1>11, <1>12, <1>13,
     <1>14, <1>15, <1>16, <1>17, <1>18, <1>19, <1>20, <1>21 DEF Next, Main

-----------------------------------------------------------------------------
(* States and flags.                                                       *)
LEMMA ControlStep == TypeInv /\ ControlInv /\ [Next]_vars => ControlInv'
<1> SUFFICES ASSUME TypeInv, ControlInv, [Next]_vars PROVE ControlInv'
  OBVIOUS
<1> USE DEF TypeInv, ControlInv, Cycling, Moving
<1>1. CASE Step
  BY <1>1 DEF Step
<1>2. CASE MotionEnd
  BY <1>2 DEF MotionEnd, homing, places
<1>3. CASE Reset
  BY <1>3 DEF Reset, homing, places
<1>4. CASE Door
  BY <1>4 DEF Door, homing, places
<1>5. CASE StartPass
  BY <1>5 DEF StartPass, At
<1>6. CASE Poll
  BY <1>6 DEF Poll, At, Same, places
<1>7. CASE Check
  BY <1>7 DEF Check, At, Same, homing, places
<1>8. CASE Exit
  BY <1>8 DEF Exit, At, homing, places
<1>9. CASE Stop
  BY <1>9 DEF Stop, At, places
<1>10. CASE SetPosition
  BY <1>10 DEF SetPosition, At
<1>11. CASE Realtime
  BY <1>11 DEF Realtime, At, homing, places
<1>12. CASE Resume
  BY <1>12 DEF Resume, At, homing, places
<1>13. CASE Abort
  BY <1>13 DEF Abort, At, Same, homing, places
<1>14. CASE Sync
  BY <1>14 DEF Sync, At, homing
<1>15. CASE Reinit
  BY <1>15 DEF Reinit, At, homing
<1>16. CASE Home
  BY <1>16 DEF Home, Line, places
<1>17. CASE HomeRefused
  BY <1>17 DEF HomeRefused, Line, homing, places
<1>18. CASE Unlock
  BY <1>18 DEF Unlock, Line, homing, places
<1>19. CASE Plan
  BY <1>19 DEF Plan, Line, homing
<1>20. CASE RunMotion
  BY <1>20 DEF RunMotion, homing
<1>21. CASE UNCHANGED vars
  BY <1>21 DEF vars, homing, places
<1> QED
  BY <1>1, <1>2, <1>3, <1>4, <1>5, <1>6, <1>7, <1>8, <1>9, <1>10, <1>11, <1>12, <1>13,
     <1>14, <1>15, <1>16, <1>17, <1>18, <1>19, <1>20, <1>21 DEF Next, Main


(* Hard limits are armed whenever the main program takes lines: mc_homing- *)
(* _cycle() and its ways out by alarm, reset and door.                     *)
THEOREM LimitsAreArmed == Spec => []LimitsArmed
<1>1. Init => TypeInv /\ ControlInv
  BY TypeInitial DEF Init, ControlInv, Cycling, Moving
<1>2. TypeInv /\ ControlInv /\ [Next]_vars => (TypeInv /\ ControlInv)'
  BY TypeStep, ControlStep
<1>3. TypeInv /\ ControlInv => LimitsArmed
  BY DEF ControlInv, LimitsArmed
<1> QED
  BY <1>1, <1>2, <1>3, PTL DEF Spec

-----------------------------------------------------------------------------
(* The passes, one lemma per action of the cycle.                          *)
LEMMA StepKeeps == IInv /\ Step => CycleInv'
<1>0. Step => UNCHANGED <<pc, alarm>>
  BY DEF Step
<1> SUFFICES ASSUME IInv, Step, pc \in Cycling, ~alarm
             PROVE (Done /\ Turns /\ Ready /\ Approaching /\ Locating /\ PullingOff /\ AtZero)'
  BY <1>0 DEF CycleInv
<1>1. pc \in Moving /\ ~(pc \in {"pass", "zero"})
  BY DEF IInv, ControlInv, Step, Moving
<1>2. Done /\ Turns /\ Approaching /\ Locating /\ PullingOff /\ TypeInv
  BY DEF IInv, CycleInv
<1>3. axislock \subseteq Active /\ Active \subseteq Axes
  BY <1>1, <1>2, ActiveFacts DEF Turns
<1>4. UNCHANGED <<pc, alarm, flags, cycle, passes, approach, axislock>>
  BY DEF Step
<1>5. Active' = Active
  BY <1>4 DEF Active
<1>6. PICK d \in Nat : /\ d > 0 /\ d <= left /\ left' = left - d /\ read' = FALSE
                       /\ approach /\ passes < Passes => d = 1
                       /\ machine' = [a \in Axes |-> machine[a] + IF a \in axislock THEN (IF approach THEN 1 ELSE -1) * d ELSE 0]
                       /\ position' = [a \in Axes |-> position[a] + IF a \in Active THEN (IF approach THEN 1 ELSE -1) * d ELSE 0]
  <2>1. Distance \in Nat /\ Distance > 0 /\ (approach /\ passes < Passes => Distance = 1)
    BY Numbers DEF Distance
  <2>2. left \in Nat /\ left > 0
    BY <1>2 DEF TypeInv, Step
  <2> QED
    BY <2>1, <2>2 DEF Step
<1>7. \A a \in Axes : machine[a] \in Int /\ position[a] \in Int
  BY <1>2 DEF TypeInv
<1>8. \A a \in Axes : machine'[a] = IF a \notin axislock THEN machine[a]
                                    ELSE IF approach THEN machine[a] + d ELSE machine[a] - d
  BY <1>6, <1>7
<1>9. \A a \in Axes \ Active : position'[a] = position[a]
  BY <1>6, <1>7
<1>10. Done'
  <2>1. SUFFICES ASSUME NEW i \in 1 .. cycle - 1, NEW a \in Cycles[i] \ Active
                 PROVE machine'[a] = position'[a]
    BY <1>4, <1>5 DEF Done
  <2>2. i \in 1 .. Len(Cycles)
    BY <1>2, Sets DEF TypeInv
  <2>3. a \in Axes /\ a \notin axislock /\ machine[a] = position[a]
    BY <1>2, <1>3, <2>2, Sets DEF Done
  <2> QED
    BY <1>8, <1>9, <2>3
<1>11. Turns' /\ Ready' /\ AtZero'
  BY <1>1, <1>2, <1>4, <1>5 DEF Turns, Ready, AtZero
<1>12. Approaching'
  <2>1. SUFFICES ASSUME pc \in Moving, approach PROVE Approaching'
    BY <1>4 DEF Approaching
  <2>2. \A a \in Active \ axislock : machine[a] >= 0 /\ machine'[a] = machine[a]
    BY <1>2, <1>3, <1>8, <2>1 DEF Approaching
  <2>3. \A a \in Active' \ axislock' : machine'[a] >= 0
    BY <1>4, <1>5, <2>2
  <2> QED
    BY <1>2, <1>4, <2>1, <2>3 DEF Approaching
<1>13. Locating'
  <2>1. SUFFICES ASSUME pc \in Moving, approach, passes < Passes PROVE Locating'
    BY <1>4 DEF Locating
  <2>2. Locating /\ read /\ d = 1 /\ left \in Nat /\ left' = left - 1 /\ read' = FALSE
    BY <1>2, <1>6, <2>1 DEF Step, TypeInv
  <2>3. \A a \in axislock : /\ machine[a] \in Int /\ machine'[a] = machine[a] + 1
                            /\ machine[a] < 0
                            /\ machine[a] + left >= LocateScalar * PullOff - PullOff
    BY <1>3, <1>7, <1>8, <2>1, <2>2 DEF Locating
  <2>4. \A a \in axislock : /\ machine'[a] <= 0
                            /\ machine'[a] + left' >= LocateScalar * PullOff - PullOff
    BY <2>2, <2>3, Numbers
  <2>5. \A a \in Active \ axislock : machine'[a] = 0
    BY <1>3, <1>8, <2>1, <2>2 DEF Locating
  <2>6. left' >= LocateScalar * PullOff - PullOff - 1
    BY <2>1, <2>2, Numbers DEF Locating
  <2>7. axislock # {} => left' >= LocateScalar * PullOff - PullOff
    BY <2>2, <2>3, <2>4, Numbers
  <2> QED
    BY <1>4, <1>5, <2>1, <2>2, <2>4, <2>5, <2>6, <2>7 DEF Locating
<1>14. PullingOff'
  <2>1. SUFFICES ASSUME ~approach PROVE PullingOff'
    BY <1>4 DEF PullingOff
  <2>2. axislock = Active /\ left <= PullOff /\ left \in Nat /\ PullOff \in Nat
    BY <1>1, <1>2, <2>1, Numbers DEF PullingOff, TypeInv
  <2>3. \A a \in Active : machine[a] \in Int /\ machine'[a] = machine[a] - d
    BY <1>3, <1>7, <1>8, <2>1, <2>2
  <2> QED
    BY <1>1, <1>2, <1>4, <1>5, <1>6, <2>1, <2>2, <2>3 DEF PullingOff
<1> QED
  BY <1>10, <1>11, <1>12, <1>13, <1>14

LEMMA FlagsKeep == IInv /\ (MotionEnd \/ Reset \/ Door) => CycleInv'
<1> SUFFICES ASSUME IInv, MotionEnd \/ Reset \/ Door, pc' \in Cycling, ~alarm'
             PROVE (Done /\ Turns /\ Ready /\ Approaching /\ Locating /\ PullingOff /\ AtZero)'
  BY DEF CycleInv
<1>1. UNCHANGED <<pc, cycle, passes, approach, axislock, left, read, machine, position>>
  BY DEF MotionEnd, Reset, Door, homing, places
<1>2. ~Reset
  BY <1>1 DEF IInv, ControlInv, Reset
<1>3. ~alarm /\ pc \in Cycling
  BY <1>1, <1>2 DEF MotionEnd, Door
<1>4. Done /\ Turns /\ Ready /\ Approaching /\ Locating /\ PullingOff /\ AtZero
  BY <1>3 DEF IInv, CycleInv
<1>5. Active' = Active
  BY <1>1 DEF Active
<1>6. (Done /\ Turns /\ Approaching /\ AtZero)'
  BY <1>1, <1>4, <1>5 DEF Done, Turns, Approaching, AtZero
<1>7. CASE Door
  <2>1. "CYCLE_STOP" \in flags' => "CYCLE_STOP" \in flags
    BY <1>7 DEF Door
  <2> QED
    BY <1>1, <1>4, <1>5, <1>6, <2>1 DEF Ready, Locating, PullingOff, Between
<1>8. CASE MotionEnd
  <2>1. left = 0 /\ pc \in Moving /\ pc # "pass"
    BY <1>3, <1>8 DEF MotionEnd, IInv, ControlInv, Moving
  <2>2. ~(approach /\ passes < Passes)
    BY <1>4, <2>1, Numbers DEF Locating
  <2> QED
    BY <1>1, <1>4, <1>5, <1>6, <2>1, <2>2 DEF Ready, Locating, PullingOff
<1> QED
  BY <1>2, <1>7, <1>8

LEMMA StartPassKeeps == IInv /\ StartPass => CycleInv'
<1> SUFFICES ASSUME IInv, StartPass, ~alarm
             PROVE (Done /\ Turns /\ Ready /\ Approaching /\ Locating /\ PullingOff /\ AtZero)'
  BY DEF CycleInv, StartPass
<1>1. /\ pc = "pass" /\ pc' = "poll" /\ axislock' = Active /\ read' = TRUE
      /\ left' = IF ~approach THEN PullOff
                 ELSE IF passes = Passes THEN Search ELSE LocateScalar * PullOff
      /\ position' = [a \in Axes |-> IF a \in Active THEN 0 ELSE position[a]]
      /\ UNCHANGED <<flags, cycle, passes, approach, machine>>
  BY DEF StartPass, At
<1>2. Done /\ Turns /\ Ready /\ TypeInv
  BY <1>1 DEF IInv, CycleInv, Cycling
<1>3. Active' = Active /\ Active \subseteq Axes /\ Active # {}
  BY <1>1, <1>2, ActiveFacts DEF Active
<1>4. \A a \in Active : machine[a] \in Int
  BY <1>2, <1>3 DEF TypeInv
<1>5. Done'
  <2>1. SUFFICES ASSUME NEW i \in 1 .. cycle - 1, NEW a \in Cycles[i] \ Active
                 PROVE machine[a] = position'[a]
    BY <1>1, <1>3 DEF Done
  <2>2. i \in 1 .. Len(Cycles)
    BY <1>2, Sets DEF TypeInv
  <2>3. a \in Axes /\ machine[a] = position[a]
    BY <1>2, <2>2, Sets DEF Done
  <2> QED
    BY <1>1, <2>3
<1>6. Turns'
  BY <1>1, <1>2, <1>3 DEF Turns
<1>7. Ready' /\ AtZero'
  BY <1>1 DEF Ready, AtZero
<1>8. Approaching'
  BY <1>1, <1>3 DEF Approaching
<1>9. Locating'
  <2>1. SUFFICES ASSUME approach, passes < Passes PROVE Locating'
    BY <1>1 DEF Locating
  <2>2. left' = LocateScalar * PullOff
    BY <1>1, <1>2, <2>1, Numbers DEF TypeInv
  <2>3. \A a \in Active : /\ machine[a] < 0 /\ machine[a] <= 0
                          /\ machine[a] + left' >= LocateScalar * PullOff - PullOff
    BY <1>1, <1>2, <1>4, <2>1, <2>2, Numbers DEF Ready, Between
  <2>4. left' >= LocateScalar * PullOff - PullOff /\ left' >= LocateScalar * PullOff - PullOff - 1
    BY <2>2, Numbers
  <2> QED
    BY <1>1, <1>3, <2>1, <2>3, <2>4 DEF Locating
<1>10. PullingOff'
  <2>1. SUFFICES ASSUME ~approach PROVE PullingOff'
    BY <1>1 DEF PullingOff
  <2>2. left' = PullOff /\ PullOff \in Nat
    BY <1>1, <2>1, Numbers
  <2>3. \A a \in Active : machine[a] + PullOff - left' >= 0
    BY <1>1, <1>2, <1>4, <2>1, <2>2 DEF Ready
  <2>4. passes < Passes - 1 => \A a \in Active : machine[a] = left' - PullOff
    BY <1>1, <1>2, <2>1, <2>2 DEF Ready
  <2>5. passes = 0 => "CYCLE_STOP" \notin flags
    BY <1>1, <1>2 DEF Ready
  <2>6. left' <= PullOff
    BY <2>2
  <2> QED
    BY <1>1, <1>3, <2>3, <2>4, <2>5, <2>6 DEF PullingOff
<1> QED
  BY <1>5, <1>6, <1>7, <1>8, <1>9, <1>10

LEMMA PollKeeps == IInv /\ Poll => CycleInv'
<1> SUFFICES ASSUME IInv, Poll, ~alarm
             PROVE (Done /\ Turns /\ Ready /\ Approaching /\ Locating /\ PullingOff /\ AtZero)'
  BY DEF CycleInv, Poll, Same
<1>1. /\ pc = "poll" /\ pc' = "check" /\ read' = TRUE
      /\ axislock' = IF approach THEN axislock \ Engaged ELSE axislock
      /\ UNCHANGED <<flags, cycle, passes, approach, left, machine, position>>
  BY DEF Poll, At, Same, places
<1>2. Done /\ Turns /\ Approaching /\ Locating /\ PullingOff /\ TypeInv
  BY <1>1 DEF IInv, CycleInv, Cycling, Moving
<1>3. Active' = Active /\ Active \subseteq Axes /\ axislock \subseteq Active
  BY <1>1, <1>2, ActiveFacts DEF Active, Turns, Moving
<1>4. \A a \in Active : machine[a] \in Int /\ (a \in Engaged <=> machine[a] >= 0)
  BY <1>2, <1>3 DEF TypeInv, Engaged
<1>5. Done' /\ Turns' /\ Ready' /\ AtZero'
  BY <1>1, <1>2, <1>3 DEF Done, Turns, Ready, AtZero, Moving
<1>6. Approaching'
  <2>1. SUFFICES ASSUME approach PROVE Approaching'
    BY <1>1 DEF Approaching
  <2>2. \A a \in Active \ axislock' : machine[a] >= 0
    BY <1>1, <1>2, <1>4, <2>1 DEF Approaching, Moving
  <2> QED
    BY <1>1, <1>3, <2>2 DEF Approaching
<1>7. Locating'
  <2>1. SUFFICES ASSUME approach, passes < Passes PROVE Locating'
    BY <1>1 DEF Locating
  <2>2. axislock # {} /\ axislock' = axislock \ Engaged
    BY <1>1, <1>2, <2>1 DEF Approaching, Moving
  <2>3. /\ \A a \in axislock : /\ machine[a] <= 0
                               /\ machine[a] + left >= LocateScalar * PullOff - PullOff
        /\ \A a \in Active \ axislock : machine[a] = 0
        /\ left >= LocateScalar * PullOff - PullOff
        /\ left >= LocateScalar * PullOff - PullOff - 1
    BY <1>1, <1>2, <2>1, <2>2 DEF Locating, Moving
  <2>4. \A a \in axislock' : a \in axislock /\ machine[a] < 0
    BY <1>3, <1>4, <2>2, <2>3
  <2>5. \A a \in Active \ axislock' : machine[a] = 0
    BY <1>3, <1>4, <2>2, <2>3
  <2> QED
    BY <1>1, <1>3, <2>3, <2>4, <2>5 DEF Locating
<1>8. PullingOff'
  BY <1>1, <1>2, <1>3 DEF PullingOff, Moving
<1> QED
  BY <1>5, <1>6, <1>7, <1>8

LEMMA CheckKeeps == IInv /\ Check => CycleInv'
<1> SUFFICES ASSUME IInv, Check, ~alarm
             PROVE (Done /\ Turns /\ Ready /\ Approaching /\ Locating /\ PullingOff /\ AtZero)'
  BY DEF CycleInv, Check, Same
<1>1. /\ pc = "check"
      /\ pc' = IF flags # {} THEN "exit" ELSE IF axislock = {} THEN "stop" ELSE "poll"
      /\ UNCHANGED <<flags, cycle, passes, approach, axislock, left, read, machine, position>>
  BY DEF Check, At, Same, homing, places
<1>2. Done /\ Turns /\ Approaching /\ Locating /\ PullingOff /\ TypeInv
  BY <1>1 DEF IInv, CycleInv, Cycling, Moving
<1>3. Active' = Active /\ Active # {}
  BY <1>1, <1>2, ActiveFacts DEF Active
<1>4. Done' /\ Turns' /\ Ready' /\ AtZero'
  BY <1>1, <1>2, <1>3 DEF Done, Turns, Ready, AtZero, Moving
<1>5. Approaching'
  BY <1>1, <1>2, <1>3 DEF Approaching, Moving
<1>6. Locating'
  BY <1>1, <1>2, <1>3 DEF Locating, Moving
<1>7. PullingOff'
  BY <1>1, <1>2, <1>3 DEF PullingOff, Moving
<1> QED
  BY <1>4, <1>5, <1>6, <1>7

LEMMA ExitKeeps == IInv /\ Exit => CycleInv'
<1> SUFFICES ASSUME IInv, Exit, ~alarm, ~Failure
             PROVE (Done /\ Turns /\ Ready /\ Approaching /\ Locating /\ PullingOff /\ AtZero)'
  BY DEF CycleInv, Exit
<1>1. /\ pc = "exit" /\ pc' = "stop" /\ flags' = flags \ {"CYCLE_STOP"}
      /\ UNCHANGED <<cycle, passes, approach, axislock, left, read, machine, position>>
  BY DEF Exit, At, homing, places
<1>2. Done /\ Turns /\ PullingOff /\ TypeInv
  BY <1>1 DEF IInv, CycleInv, Cycling, Moving
<1>3. "CYCLE_STOP" \in flags
  BY <1>1, <1>2 DEF IInv, ControlInv, TypeInv, Failure
<1>4. ~approach /\ Engaged \cap Active = {}
  BY <1>3 DEF Failure
<1>5. Active' = Active /\ Active \subseteq Axes
  BY <1>1, <1>2, ActiveFacts DEF Active
<1>6. \A a \in Active : machine[a] < 0
  BY <1>2, <1>4, <1>5 DEF TypeInv, Engaged
<1>7. Done' /\ Turns' /\ Ready' /\ AtZero' /\ Approaching' /\ Locating'
  BY <1>1, <1>2, <1>4, <1>5 DEF Done, Turns, Ready, AtZero, Approaching, Locating, Moving
<1>8. PullingOff'
  BY <1>1, <1>2, <1>3, <1>4, <1>5, <1>6 DEF PullingOff, Moving
<1> QED
  BY <1>7, <1>8

LEMMA StopKeeps == IInv /\ Stop => CycleInv'
<1>0. Stop => UNCHANGED alarm
  BY DEF Stop
<1> SUFFICES ASSUME IInv, Stop, ~alarm
             PROVE (Done /\ Turns /\ Ready /\ Approaching /\ Locating /\ PullingOff /\ AtZero)'
  BY <1>0 DEF CycleInv
<1>1. /\ pc = "stop" /\ approach' = ~approach
      /\ \/ passes > 0 /\ passes' = passes - 1 /\ pc' = "pass"
         \/ ~(passes > 0) /\ passes' = passes /\ pc' = "zero"
      /\ UNCHANGED <<flags, cycle, axislock, left, read, machine, position>>
  BY DEF Stop, At, places
<1>2. Done /\ Turns /\ Approaching /\ Locating /\ PullingOff /\ TypeInv
  BY <1>1 DEF IInv, CycleInv, Cycling, Moving
<1>3. Active' = Active /\ Active \subseteq Axes
  BY <1>1, <1>2, ActiveFacts DEF Active
<1>4. /\ passes \in Nat /\ passes <= Passes /\ left \in Nat /\ approach \in BOOLEAN
      /\ \A a \in Active : machine[a] \in Int
      /\ Passes \in Nat /\ Passes >= 3 /\ PullOff \in Nat
  BY <1>2, <1>3, Numbers DEF TypeInv
<1>5. approach = (passes % 2 = 1)
  BY <1>1, <1>2 DEF Turns
<1>6. Done' /\ Approaching' /\ Locating' /\ PullingOff'
  BY <1>1, <1>2, <1>3 DEF Done, Approaching, Locating, PullingOff, Moving
<1>7. approach => /\ \A a \in Active : machine[a] >= 0
                  /\ passes < Passes => /\ \A a \in Active : machine[a] = 0
                                        /\ "CYCLE_STOP" \notin flags
  BY <1>1, <1>2 DEF Approaching, Locating, Moving
<1>8. ~approach => \A a \in Active : Between(a)
  BY <1>1, <1>2, <1>4 DEF PullingOff, Moving, Between
<1>9. CASE passes > 0
  <2>1. pc' = "pass" /\ passes' = passes - 1 /\ passes # 0
    BY <1>1, <1>4, <1>9
  <2>2. (passes' % 2 = 1) = ~(passes % 2 = 1)
    BY <1>4, <2>1, Turn
  <2>3. Turns'
    BY <1>1, <1>5, <2>1, <2>2 DEF Turns, Moving
  <2>4. approach' => \A a \in Active : Between(a)'
    BY <1>1, <1>8 DEF Between
  <2>5. ~approach' => \A a \in Active : machine'[a] >= 0
    BY <1>1, <1>7
  <2>6. passes' < Passes - 1 => passes < Passes
    BY <1>4, <2>1
  <2>7. ~approach' /\ passes' < Passes - 1 => \A a \in Active : machine'[a] = 0
    BY <1>1, <1>7, <2>6
  <2>8. passes' = 0 => "CYCLE_STOP" \notin flags'
    <3>1. SUFFICES ASSUME passes' = 0 PROVE "CYCLE_STOP" \notin flags
      BY <1>1
    <3>2. passes = 1 /\ passes < Passes
      BY <1>4, <2>1, <3>1
    <3>3. passes % 2 = 1
      BY <3>2
    <3>4. approach
      BY <1>5, <3>3, Zenon
    <3> QED
      BY <1>7, <3>2, <3>4
  <2>9. Ready'
    BY <1>3, <2>4, <2>5, <2>7, <2>8 DEF Ready
  <2> QED
    BY <1>6, <2>1, <2>3, <2>9 DEF AtZero
<1>10. CASE ~(passes > 0)
  <2>1. pc' = "zero" /\ passes = 0
    BY <1>1, <1>4, <1>10
  <2>2. ~approach
    <3>1. passes % 2 # 1
      BY <2>1
    <3> QED
      BY <1>5, <3>1, Zenon
  <2>3. left = 0
    BY <1>1, <1>2, <2>1, <2>2 DEF PullingOff, Moving
  <2>4. passes < Passes - 1
    BY <1>4, <2>1
  <2>5. \A a \in Active : machine[a] = left - PullOff
    BY <1>1, <1>2, <2>2, <2>4 DEF PullingOff, Moving
  <2>6. \A a \in Active : machine[a] = -PullOff
    BY <1>4, <2>3, <2>5
  <2>7. AtZero'
    BY <1>1, <1>3, <2>6 DEF AtZero
  <2> QED
    BY <1>6, <2>1, <2>7 DEF Turns, Ready, Moving
<1> QED
  BY <1>9, <1>10

(* Setting the position ends a cycle, and the last of them homing.         *)
LEMMA Positions ==
  ASSUME IInv, SetPosition, ~alarm
  PROVE \A i \in 1 .. cycle : \A a \in Cycles[i] : machine[a] = position'[a]
<1>1. SUFFICES ASSUME NEW i \in 1 .. cycle, NEW a \in Cycles[i] PROVE machine[a] = position'[a]
  OBVIOUS
<1>2. Done /\ AtZero /\ TypeInv /\ pc = "zero"
  BY DEF IInv, CycleInv, Cycling, SetPosition, At
<1>3. a \in Axes /\ cycle \in Nat
  <2>1. cycle \in 1 .. Len(Cycles) /\ Len(Cycles) \in Nat
    BY <1>2, Sets DEF TypeInv
  <2>2. i \in 1 .. Len(Cycles) /\ cycle \in Nat
    BY <2>1
  <2> QED
    BY <2>2, Sets
<1>4. position'[a] = IF a \in Active THEN -PullOff ELSE position[a]
  BY <1>3 DEF SetPosition
<1>5. CASE a \in Active
  BY <1>2, <1>4, <1>5 DEF AtZero
<1>6. CASE a \notin Active
  <2>1. i # cycle
    BY <1>6 DEF Active
  <2>2. i \in 1 .. cycle - 1
    BY <1>3, <2>1
  <2> QED
    BY <1>2, <1>4, <1>6, <2>2 DEF Done
<1> QED
  BY <1>5, <1>6

LEMMA SetPositionKeeps == IInv /\ SetPosition => CycleInv'
<1>0. SetPosition => UNCHANGED alarm
  BY DEF SetPosition
<1> SUFFICES ASSUME IInv, SetPosition, ~alarm, pc' \in Cycling
             PROVE (Done /\ Turns /\ Ready /\ Approaching /\ Locating /\ PullingOff /\ AtZero)'
  BY <1>0 DEF CycleInv
<1>1. /\ pc' = "pass" /\ cycle' = cycle + 1 /\ passes' = Passes /\ approach' = TRUE
      /\ UNCHANGED machine
  BY DEF SetPosition, Cycling, Moving
<1>2. cycle \in Nat /\ Passes \in Nat /\ Passes >= 3 /\ Passes % 2 = 1
  BY Sets, Numbers DEF IInv, TypeInv
<1>3. 1 .. cycle' - 1 = 1 .. cycle
  BY <1>1, <1>2
<1>4. Done'
  BY <1>1, <1>3, Positions DEF Done
<1>5. ~(Passes < Passes) /\ Passes # 0
  BY <1>2
<1>6. Ready' /\ Turns'
  BY <1>1, <1>2, <1>5 DEF Ready, Turns, Moving
<1> QED
  BY <1>1, <1>4, <1>6 DEF Approaching, Locating, PullingOff, AtZero, Moving

LEMMA HomeKeeps == IInv /\ Home => CycleInv'
<1> SUFFICES ASSUME Home PROVE CycleInv'
  OBVIOUS
<1>1. pc' = "pass" /\ cycle' = 1 /\ passes' = Passes /\ approach' = TRUE
  BY DEF Home
<1>2. Passes \in Nat /\ ~(Passes < Passes) /\ Passes # 0 /\ Passes % 2 = 1
  BY Numbers
<1>3. Done'
  BY <1>1 DEF Done
<1>4. Ready' /\ Turns'
  BY <1>1, <1>2 DEF Ready, Turns, Moving
<1> QED
  BY <1>1, <1>3, <1>4 DEF CycleInv, Approaching, Locating, PullingOff, AtZero, Moving

LEMMA CycleStep == IInv /\ [Next]_vars => CycleInv'
<1> SUFFICES ASSUME IInv, [Next]_vars PROVE CycleInv'
  OBVIOUS
<1>1. CASE Realtime \/ Resume \/ Abort \/ Sync \/ Reinit
  <2>1. pc' \notin Cycling
    BY <1>1 DEF Realtime, Resume, Abort, Sync, Reinit, Cycling, Moving
  <2> QED
    BY <2>1 DEF CycleInv
<1>2. CASE HomeRefused \/ Unlock \/ Plan \/ RunMotion
  <2>1. pc' \notin Cycling
    BY <1>2 DEF HomeRefused, Unlock, Plan, RunMotion, Line, Cycling, Moving
  <2> QED
    BY <2>1 DEF CycleInv
<1>3. CASE UNCHANGED vars
  BY <1>3 DEF vars, homing, places, IInv, CycleInv, Done, Turns, Ready, Approaching, Locating,
              PullingOff, AtZero, Active, Between
<1> QED
  BY <1>1, <1>2, <1>3, StepKeeps, FlagsKeep, StartPassKeeps, PollKeeps, CheckKeeps, ExitKeeps,
     StopKeeps, SetPositionKeeps, HomeKeeps DEF Next, Main

-----------------------------------------------------------------------------
(* Homed or locked.                                                        *)
LEMMA SetPositionHomes == IInv /\ SetPosition => Homed'
<1>0. SetPosition => UNCHANGED <<alarm, machine>>
  BY DEF SetPosition
<1> SUFFICES ASSUME IInv, SetPosition, ~alarm, pc' \notin Cycling PROVE machine' = position'
  BY <1>0 DEF Homed
<1>1. cycle = Len(Cycles) /\ UNCHANGED machine
  <2>1. ~(cycle < Len(Cycles))
    BY DEF SetPosition, Cycling
  <2>2. cycle \in 1 .. Len(Cycles) /\ Len(Cycles) \in Nat
    BY Sets DEF IInv, TypeInv
  <2>3. cycle = Len(Cycles)
    BY <2>1, <2>2
  <2> QED
    BY <1>0, <2>3
<1>2. \A a \in Axes : machine[a] = position'[a]
  BY <1>1, Positions, Sets
<1>3. position' = [a \in Axes |-> position'[a]] /\ machine = [a \in Axes |-> machine[a]]
  BY DEF SetPosition, IInv, TypeInv
<1> QED
  BY <1>1, <1>2, <1>3

LEMMA HomedStep ==
  ASSUME Malformed \subseteq {"IDLE"}, IInv, [Next]_vars PROVE Homed'
<1> USE DEF IInv, TypeInv, ControlInv, Homed, Cycling, Moving
<1>1. CASE Step \/ MotionEnd \/ Reset \/ Door
  BY <1>1 DEF Step, MotionEnd, Reset, Door, homing, places
<1>2. CASE StartPass \/ Poll \/ Check \/ Exit \/ Stop
  BY <1>2 DEF StartPass, Poll, Check, Exit, Stop, At, Same, homing, places
<1>3. CASE Realtime
  BY <1>3 DEF Realtime, At, homing, places
<1>4. CASE Resume \/ Abort \/ Sync \/ Reinit
  BY <1>4 DEF Resume, Abort, Sync, Reinit, At, Same, homing, places
<1>5. CASE Home
  BY <1>5 DEF Home, Line
<1>6. CASE HomeRefused \/ Unlock
  BY <1>6 DEF HomeRefused, Unlock, Line, homing, places
<1>7. CASE Plan
  BY <1>7 DEF Plan, Line, homing
<1>8. CASE RunMotion
  <2>1. UNCHANGED <<pc, tried, alarm, state>>
    BY <1>8 DEF RunMotion
  <2>2. machine = position => machine' = position'
    BY <1>8 DEF RunMotion
  <2> QED
    BY <2>1, <2>2
<1>9. CASE UNCHANGED vars
  BY <1>9 DEF vars, homing, places
<1> QED
  BY <1>1, <1>2, <1>3, <1>4, <1>5, <1>6, <1>7, <1>8, <1>9, SetPositionHomes DEF Next, Main

(* Once homing was tried, an unlocked machine in IDLE has the position of  *)
(* the switches, whatever reset, door or failed pass came in between, if   *)
(* no malformed $H is sent in ALARM: mc_homing_cycle(), limits_go_home(),  *)
(* the alarm in protocol_execute_realtime() and the loop of main().        *)
THEOREM HomedOrLockedHolds ==
  ASSUME Malformed \subseteq {"IDLE"} PROVE Spec => []HomedOrLocked
<1>1. Init => IInv
  BY TypeInitial DEF Init, IInv, ControlInv, Homed, CycleInv, Cycling, Moving
<1>2. IInv /\ [Next]_vars => IInv'
  BY TypeStep, ControlStep, HomedStep, CycleStep DEF IInv
<1>3. IInv => HomedOrLocked
  BY DEF IInv, Homed, HomedOrLocked, Cycling, Moving
<1> QED
  BY <1>1, <1>2, <1>3, PTL DEF Spec

=============================================================================
