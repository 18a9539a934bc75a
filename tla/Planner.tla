------------------------------ MODULE Planner ------------------------------
(***************************************************************************)
(* The look-ahead planner (planner.c) and the segment generator that eats  *)
(* its first block (st_prep_buffer in stepper.c).  Both run in the main    *)
(* program, one after the other.                                           *)
(*                                                                         *)
(* Speeds are squared, as in the code, and distances are multiplied by     *)
(* twice the acceleration: a block of length d can change the square of    *)
(* the speed by d.  One acceleration serves all blocks.                    *)
(*                                                                         *)
(* The ring of segments between the generator and the step interrupt is    *)
(* left out: a segment is cut whenever the generator is not blocked, and   *)
(* the machine comes to its cycle stop only when it is, because the ring   *)
(* is sized for the main program to refill it in time.  prep.current is    *)
(* the speed at which the segments cut so far end.                         *)
(*                                                                         *)
(* A name with a suffix, such as ForwardPass_ReverseOnly, is a wrong version *)
(* of the definition that follows it and is used by no action.             *)
(***************************************************************************)
EXTENDS Integers, FiniteSetsExt

CONSTANTS
  BlockBufferSize, \* BLOCK_BUFFER_SIZE
  Shapes,          \* the lines to plan: length, junction speed, kind of rate
  Rates,           \* kinds of programmed rate
  Overrides,       \* values of the feed and rapid overrides
  Normal,          \* 100%
  NominalSqr,      \* the nominal speed of a rate under an override
  MaxLines         \* bound on the lines planned

ASSUME SizeAssumption ==
  /\ BlockBufferSize \in Nat /\ BlockBufferSize >= 2
  /\ MaxLines \in Nat
ASSUME RatesAssumption ==
  /\ Rates # {} /\ Normal \in Overrides
  /\ NominalSqr \in [Rates -> [Overrides -> Nat \ {0}]]
ASSUME ShapesAssumption ==
  Shapes \subseteq [dist : Nat \ {0}, junction : Nat, rate : Rates]

Slot == 0 .. BlockBufferSize - 1
NULL == BlockBufferSize \* no slot

VARIABLES
  block_buffer, \* per slot: dist left, junction, rate, max and entry speed
  tail, head, next_head, planned, \* block_buffer_tail ...
  prev_nominal, \* pl.previous_nominal_speed
  override,     \* sys.f_override, sys.r_override
  pl_block,     \* the slot the generator is cutting, or NULL
  prep,         \* recalculate_flag, current_speed and exit_speed
  profile,      \* the rest of the velocity profile of pl_block
  step_control,
  mode,         \* what sys.state and sys.suspend say of the cycle
  lines         \* lines planned, to bound them by MaxLines

ringVars == <<block_buffer, tail, head, next_head, planned, prev_nominal>>
prepVars == <<pl_block, prep, profile>>
vars == <<ringVars, prepVars, override, step_control, mode, lines>>

NoBlock == [dist |-> 0, junction |-> 0, rate |-> CHOOSE r \in Rates : TRUE,
            max |-> 0, entry |-> 0]
NotPrepared == [recalc |-> FALSE, decel |-> FALSE, current |-> 0, exit |-> 0]
NoProfile == [ramp |-> "ACCEL", exit |-> 0, nominal |-> 0, complete |-> 0,
              until |-> 0, decel |-> FALSE]

Init ==
  /\ block_buffer = [i \in Slot |-> NoBlock]
  /\ tail = 0 /\ head = 0 /\ next_head = 1 /\ planned = 0 /\ prev_nominal = 0
  /\ override = Normal /\ pl_block = NULL /\ prep = NotPrepared
  /\ profile = NoProfile
  /\ step_control = {} /\ mode = "idle" /\ lines = 0

-----------------------------------------------------------------------------
Smaller(a, b) == IF a < b THEN a ELSE b

plan_next_block_index_Late(i) == IF i = BlockBufferSize THEN 0 ELSE i + 1
plan_next_block_index(i) == IF i + 1 = BlockBufferSize THEN 0 ELSE i + 1
plan_prev_block_index(i) == IF i = 0 THEN BlockBufferSize - 1 ELSE i - 1
(* How many slots j is behind i, and the slot that is k behind i.          *)
Behind(i, j) == IF j >= i THEN j - i ELSE j - i + BlockBufferSize
SlotBehind(i, k) ==
  IF i + k < BlockBufferSize THEN i + k ELSE i + k - BlockBufferSize

Empty == head = tail
plan_check_full_buffer == tail = next_head
plan_get_exec_block_exit_speed_sqr_Stale ==
  block_buffer[plan_next_block_index(tail)].entry
plan_get_exec_block_exit_speed_sqr ==
  LET i == plan_next_block_index(tail) IN IF i = head THEN 0 ELSE block_buffer[i].entry

(* st_update_plan_block_parameters: what it does to the blocks, and to the *)
(* generator, which reloads the block it was cutting.                      *)
ParametersUpdated(buffer) ==
  IF pl_block = NULL THEN buffer
  ELSE [buffer EXCEPT ![pl_block].entry = prep.current]
st_update_plan_block_parameters ==
  /\ pl_block' = NULL /\ profile' = NoProfile
  /\ prep' = IF pl_block = NULL THEN prep ELSE [prep EXCEPT !.recalc = TRUE]

(* planner_recalculate, from the planned pointer p to the last block before*)
(* h.  Positions are counted from p.  In an empty ring with p = h the code *)
(* goes once around the stale slots.                                       *)
Last(p, h) == Behind(p, plan_prev_block_index(h))
ReachesTail(p, h) ==
  \/ Last(p, h) = 1 /\ p = tail
  \/ Behind(p, tail) + 2 <= Last(p, h)

ReversePass(buffer, p, h) ==
  LET last == Last(p, h)
      entry[k \in 1 .. last] ==
        LET b == buffer[SlotBehind(p, k)]
        IN IF k = last THEN Smaller(b.max, b.dist)
           ELSE IF b.entry = b.max THEN b.max
           ELSE Smaller(b.max, entry[k + 1] + b.dist)
  IN entry
ForwardPass_ReverseOnly(buffer, p, h) ==
  LET reverse == ReversePass(buffer, p, h)
  IN [k \in 0 .. Last(p, h) |-> IF k = 0 THEN buffer[p].entry ELSE reverse[k]]
ForwardPass(buffer, p, h) ==
  LET reverse == ReversePass(buffer, p, h)
      entry[k \in 0 .. Last(p, h)] ==
        IF k = 0 THEN buffer[p].entry
        ELSE Smaller(reverse[k], entry[k - 1] + buffer[SlotBehind(p, k - 1)].dist)
  IN entry
Recalculated(buffer, p, h) ==
  LET entry == ForwardPass(buffer, p, h)
  IN [i \in Slot |-> IF Behind(p, i) \in 1 .. Last(p, h)
                       THEN [buffer[i] EXCEPT !.entry = entry[Behind(p, i)]]
                       ELSE buffer[i]]
(* The pointer moves to the last block that nothing planned later can      *)
(* change: reached at full acceleration, or entered at its maximum.        *)
PlannedUpTo(buffer, p, h) ==
  LET reverse == ReversePass(buffer, p, h)
      entry == ForwardPass(buffer, p, h)
      optimal == {k \in 1 .. Last(p, h) :
                    \/ entry[k] < reverse[k]
                    \/ entry[k] = buffer[SlotBehind(p, k)].max}
  IN IF optimal = {} THEN p
     ELSE SlotBehind(p, Max(optimal))

planner_recalculate(buffer, p, h) ==
  LET current == IF ReachesTail(p, h) THEN ParametersUpdated(buffer) ELSE buffer
  IN IF Last(p, h) = 0
       THEN block_buffer' = buffer /\ planned' = p /\ UNCHANGED prepVars
       ELSE /\ block_buffer' = Recalculated(current, p, h)
            /\ planned' = PlannedUpTo(current, p, h)
            /\ IF ReachesTail(p, h) THEN st_update_plan_block_parameters
               ELSE UNCHANGED prepVars

(* plan_cycle_reinitialize: from a stop, or with new overrides.            *)
plan_cycle_reinitialize_FromPlanned(buffer) ==
  planner_recalculate(ParametersUpdated(buffer), planned, head)
plan_cycle_reinitialize(buffer) ==
  /\ block_buffer' = Recalculated(ParametersUpdated(buffer), tail, head)
  /\ planned' = PlannedUpTo(ParametersUpdated(buffer), tail, head)
  /\ st_update_plan_block_parameters

-----------------------------------------------------------------------------
(* plan_buffer_line.  The main program calls it with room in the ring and  *)
(* while it is not suspended.                                              *)
BufferLine(shape) ==
  LET nominal == NominalSqr[shape.rate][override]
      junction == IF Empty THEN 0 ELSE shape.junction
      block == [dist |-> shape.dist, junction |-> junction, rate |-> shape.rate,
                max |-> Smaller(junction, Smaller(nominal, prev_nominal)), entry |-> 0]
  IN /\ mode \in {"idle", "cycle"} /\ ~plan_check_full_buffer
     /\ lines < MaxLines /\ lines' = lines + 1
     /\ prev_nominal' = nominal
     /\ head' = next_head
     /\ next_head' = plan_next_block_index(next_head)
     /\ planner_recalculate([block_buffer EXCEPT ![head] = block], planned, next_head)
     /\ UNCHANGED <<tail, override, step_control, mode>>

(* New overrides: plan_update_velocity_profile_parameters, then            *)
(* plan_cycle_reinitialize.                                                *)
MaxEntry_NoJunction(o) ==
  [i \in Slot |->
     IF Behind(tail, i) < Behind(tail, head)
       THEN [block_buffer[i] EXCEPT !.max = NominalSqr[block_buffer[i].rate][o]] ELSE block_buffer[i]]
MaxEntry(o) ==
  [i \in Slot |->
     LET b == block_buffer[i]
         nominal == NominalSqr[b.rate][o]
         before == NominalSqr[block_buffer[plan_prev_block_index(i)].rate][o]
         top == IF i = tail \/ nominal < before THEN nominal ELSE before
     IN IF Behind(tail, i) < Behind(tail, head)
          THEN [b EXCEPT !.max = Smaller(b.junction, top)] ELSE b]
SOME_LARGE_VALUE == 1000
Override(o) ==
  /\ o \in Overrides \ {override}
  /\ override' = o
  /\ prev_nominal' = IF Empty THEN SOME_LARGE_VALUE
                     ELSE NominalSqr[block_buffer[plan_prev_block_index(head)].rate][o]
  /\ plan_cycle_reinitialize(MaxEntry(o))
  /\ UNCHANGED <<tail, head, next_head, step_control, mode, lines>>

-----------------------------------------------------------------------------
(* st_prep_buffer, one turn of its loop: load or reload the first block if *)
(* need be, then cut a segment off it.                                     *)
Holding == "EXECUTE_HOLD" \in step_control
Prepping == mode # "idle" /\ "END_MOTION" \notin step_control /\ ~Empty

(* The speed at which the block is entered, or goes on.                    *)
LoadSpeed_Planned == block_buffer[tail].entry
LoadSpeed ==
  IF prep.recalc THEN block_buffer[tail].entry
  ELSE IF Holding \/ prep.decel THEN prep.exit
  ELSE block_buffer[tail].entry

(* The profile of a block of length d that is entered at speed v.          *)
HoldProfile(v, d) ==
  [NoProfile EXCEPT !.ramp = "DECEL", !.complete = IF d < v THEN 0 ELSE d - v,
                    !.exit = IF d < v THEN v - d ELSE 0]
OverrideProfile(v, d, nominal, exit) ==
  IF d <= v - nominal
    THEN [NoProfile EXCEPT !.ramp = "DECEL", !.exit = v - d, !.decel = TRUE]
    ELSE [NoProfile EXCEPT !.ramp = "OVERRIDE", !.exit = exit, !.nominal = nominal,
                           !.until = d - (v - nominal)]
NormalProfile(v, d, nominal, exit) ==
  IF d + v <= exit THEN [NoProfile EXCEPT !.ramp = "ACCEL", !.exit = exit]
  ELSE IF exit + d <= v THEN [NoProfile EXCEPT !.ramp = "DECEL", !.exit = exit]
  ELSE [NoProfile EXCEPT !.ramp = "TRAPEZOID", !.exit = exit, !.nominal = nominal]
Profile ==
  LET b == block_buffer[tail]
      nominal == NominalSqr[b.rate][override]
      exit == plan_get_exec_block_exit_speed_sqr
      v == LoadSpeed
  IN IF pl_block # NULL THEN profile
     ELSE IF Holding THEN HoldProfile(v, b.dist)
     ELSE IF v > nominal THEN OverrideProfile(v, b.dist, nominal, exit)
     ELSE NormalProfile(v, b.dist, nominal, exit)

(* The speed of profile p at distance r from the end of the block, of      *)
(* which d are left and which is at speed v.                               *)
SpeedAt(p, v, d, r) ==
  CASE p.ramp = "DECEL" -> IF r = p.complete THEN p.exit ELSE v - (d - r)
    [] p.ramp = "ACCEL" -> IF r = p.complete THEN p.exit ELSE v + (d - r)
    [] p.ramp = "TRAPEZOID" -> Smaller(v + (d - r), Smaller(p.nominal, p.exit + r))
    [] p.ramp = "OVERRIDE" ->
         IF r >= p.until THEN v - (d - r) ELSE Smaller(p.nominal, p.exit + r)

plan_discard_current_block ==
  /\ tail' = plan_next_block_index(tail)
  /\ planned' = IF tail = planned THEN tail' ELSE planned

(* A hold that ends in the middle of a block stops the generator, with     *)
(* (r < d) or without a last segment; the end of a block discards it.      *)
PrepSegment(r) ==
  LET p == Profile
      d == block_buffer[tail].dist
      v == IF pl_block = NULL THEN LoadSpeed ELSE prep.current
  IN /\ Prepping
     /\ r \in p.complete .. d /\ (r < d \/ r = p.complete)
     /\ r = p.complete \/ p.ramp # "DECEL" \/ v > d - r
     /\ prep' = [recalc |-> FALSE, decel |-> p.decel, exit |-> p.exit,
                 current |-> SpeedAt(p, v, d, r)]
     /\ block_buffer' =
          [block_buffer EXCEPT ![tail].dist = r,
             ![tail].entry = IF pl_block = NULL THEN v ELSE @]
     /\ IF r = 0
          THEN /\ pl_block' = NULL /\ profile' = NoProfile
               /\ plan_discard_current_block /\ UNCHANGED step_control
          ELSE /\ pl_block' = tail /\ profile' = p /\ UNCHANGED <<tail, planned>>
               /\ step_control' = IF r = p.complete
                                    THEN step_control \cup {"END_MOTION"} ELSE step_control
     /\ UNCHANGED <<head, next_head, prev_nominal, override, mode, lines>>

-----------------------------------------------------------------------------
(* What the main program does with the two: cycles, holds, resets.         *)

CycleStart ==
  /\ mode \in {"idle", "held"}
  /\ step_control' = {}
  /\ mode' = IF Empty THEN "idle" ELSE "cycle"
  /\ UNCHANGED <<ringVars, prepVars, override, lines>>

(* jog_execute starts without touching step_control.                       *)
JogStart ==
  /\ mode = "idle" /\ ~Empty
  /\ mode' = "cycle"
  /\ UNCHANGED <<ringVars, prepVars, override, step_control, lines>>

(* A feed hold, or the cancel of a jog or of a probing motion.             *)
HoldBegin ==
  /\ mode = "cycle" /\ mode' \in {"hold", "cancel"}
  /\ step_control' = {"EXECUTE_HOLD"}
  /\ block_buffer' = ParametersUpdated(block_buffer)
  /\ st_update_plan_block_parameters
  /\ UNCHANGED <<tail, head, next_head, planned, prev_nominal, override, lines>>

(* plan_reset and st_reset                                                 *)
ResetBuffers ==
  /\ tail' = 0 /\ head' = 0 /\ next_head' = 1 /\ planned' = 0 /\ prev_nominal' = 0
  /\ pl_block' = NULL /\ prep' = NotPrepared /\ profile' = NoProfile
  /\ UNCHANGED <<block_buffer, lines>>

(* The segments have run out: a cycle ends, a hold is complete, a cancelled*)
(* jog or probing motion is flushed.                                       *)
RunOut == mode # "idle" /\ ~Prepping
CycleDone ==
  /\ mode = "cycle" /\ RunOut /\ mode' = "idle"
  /\ UNCHANGED <<ringVars, prepVars, override, step_control, lines>>
HoldDone ==
  /\ mode = "hold" /\ RunOut /\ mode' = "held"
  /\ plan_cycle_reinitialize(block_buffer)
  /\ step_control' = step_control \ {"EXECUTE_HOLD"}
  /\ UNCHANGED <<tail, head, next_head, prev_nominal, override, lines>>
CancelDone ==
  /\ mode = "cancel" /\ RunOut /\ mode' = "idle"
  /\ ResetBuffers
  /\ step_control' \in {{}, step_control}
  /\ UNCHANGED override

(* A reset of the program, at any time.                                    *)
Abort ==
  /\ ResetBuffers /\ override' = Normal /\ step_control' = {} /\ mode' = "idle"

Next ==
  \/ \E shape \in Shapes : BufferLine(shape)
  \/ \E o \in Overrides : Override(o)
  \/ \E r \in 0 .. block_buffer[tail].dist : PrepSegment(r)
  \/ CycleStart \/ JogStart \/ HoldBegin \/ CycleDone \/ HoldDone \/ CancelDone
  \/ Abort

Spec == Init /\ [][Next]_vars
-----------------------------------------------------------------------------
Count == Behind(tail, head)
(* The j-th queued block, and the speed at which it is or will be entered. *)
Block(j) == block_buffer[SlotBehind(tail, j)]
Now == IF pl_block # NULL THEN prep.current ELSE LoadSpeed
EntryOf(j) == IF j = 0 THEN Now ELSE IF j = Count THEN 0 ELSE Block(j).entry
(* The way to the begin of each block, and from block i to block j.        *)
Way == LET way[j \in 0 .. Count] == IF j = 0 THEN 0 ELSE way[j - 1] + Block(j - 1).dist
       IN way
Path(i, j) == Way[j] - Way[i]
(* The machine is faster than an override that was lowered allows.         *)
OverrideSlowdown == prep.decel \/ Now > NominalSqr[Block(0).rate][override]

(* All values are of their types: in particular no index leaves the ring   *)
(* (plan_next_block_index and its uses) and no squared speed is negative.  *)
(* The planned pointer stays on a queued block, whatever the generator     *)
(* discards and the main program adds; in an empty ring it can be anywhere *)
(* (a pass then goes once around the stale slots).                         *)
TypeOK ==
  /\ block_buffer \in
       [Slot -> [dist : Nat, junction : Nat, rate : Rates, max : Nat, entry : Nat]]
  /\ tail \in Slot /\ head \in Slot /\ next_head \in Slot /\ planned \in Slot
  /\ prev_nominal \in Nat /\ override \in Overrides /\ lines \in 0 .. MaxLines
  /\ pl_block \in {tail, NULL}
  /\ prep \in [recalc : BOOLEAN, decel : BOOLEAN, current : Nat, exit : Nat]
  /\ profile \in [ramp : {"ACCEL", "TRAPEZOID", "DECEL", "OVERRIDE"}, exit : Nat,
                  nominal : Nat, complete : Nat, until : Nat, decel : BOOLEAN]
  /\ step_control \subseteq {"EXECUTE_HOLD", "END_MOTION"}
  /\ mode \in {"idle", "cycle", "hold", "cancel", "held"}
  /\ ~Empty => Behind(tail, planned) < Count

(* The plan can be driven: between any two blocks the speed changes by no  *)
(* more than their distance allows, and it ends in a stop.  This is        *)
(* guideline b of the comment before planner_recalculate.                  *)
Feasible ==
  ~Empty /\ ~Holding /\ ~OverrideSlowdown =>
    \A j \in 0 .. Count - 1 :
      /\ EntryOf(j + 1) <= EntryOf(j) + Block(j).dist
      /\ EntryOf(j) <= EntryOf(j + 1) + Block(j).dist

(* The plan is the fastest there is, although the planner recomputes only  *)
(* the blocks behind its planned pointer: each entry speed is the highest  *)
(* one that every limit before and after it in the queue allows.           *)
Limit(j) == IF j = 0 THEN Now ELSE IF j = Count THEN 0 ELSE Block(j).max
Fastest(j) ==
  Min({Limit(i) + (IF i <= j THEN Path(i, j) ELSE Path(j, i)) : i \in 0 .. Count})
Optimal ==
  ~Empty /\ ~Holding /\ ~OverrideSlowdown =>
    \A j \in 1 .. Count - 1 : Block(j).entry = Fastest(j)

(* When the segments run out, whether a queue has ended, a hold is         *)
(* complete or a motion is cancelled, the machine stands.                  *)
StopsAtZero == RunOut => prep.current = 0

(* A block is begun no faster than its corner allows, also in a hold or    *)
(* after an override has changed.                                          *)
CornerSpeed ==
  pl_block = NULL /\ ~prep.recalc /\ ~Empty => prep.current <= Block(0).junction

(* The generator keeps to the plan at both ends of a block                 *)
(* (stepper.c:696-797), whatever holds, cancels and overrides came within. *)
EndsOfBlocks == StopsAtZero /\ CornerSpeed

(* No step changes the speed by more than the distance it cuts allows: a   *)
(* hold, a new plan and a new block all take over the speed they find.     *)
Reset == mode' = "idle" /\ tail' = head'
Smooth ==
  [][LET cut == block_buffer[tail].dist - block_buffer'[tail].dist
     IN ~Reset =>
          /\ prep'.current - prep.current <= Max({0, cut})
          /\ prep.current - prep'.current <= Max({0, cut})]_vars
=============================================================================
