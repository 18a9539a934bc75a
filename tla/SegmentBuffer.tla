--------------------------- MODULE SegmentBuffer ----------------------------
(***************************************************************************)
(* The segment ring between the main program (st_prep_buffer) and the      *)
(* stepper interrupt, and the smaller ring of the step data of the blocks  *)
(* the segments belong to (stepper.c).  The interrupt runs between any two *)
(* assignments of the main program to what they share, and is not itself   *)
(* interrupted; a reset kills it at any time.                              *)
(*                                                                         *)
(* Blocks are numbered as the planner hands them out.  Of the velocity     *)
(* profile what is left is how many steps a segment takes, at least one    *)
(* unless a hold ends.                                                     *)
(***************************************************************************)
EXTENDS Integers

CONSTANTS
  Size,      \* SEGMENT_BUFFER_SIZE
  Lengths,   \* steps of a block
  MaxBlocks  \* bound: blocks the planner hands out

ASSUME SizeAssumption == Size \in Nat /\ Size >= 3
ASSUME LengthAssumption == Lengths \subseteq Nat \ {0} /\ MaxBlocks \in Nat

Slots == 0 .. Size - 1
BlockSlots == 0 .. Size - 2

VARIABLES
  segment_buffer, segment_buffer_tail, segment_buffer_head, segment_next_head,
  st_block_buffer,   \* whose step data each slot holds
  current, length,   \* the planner's first block and its steps
  pl_block,          \* it is being prepared (pl_block is not NULL)
  st_block_index,    \* prep.st_block_index
  block,             \* the block prepared last
  steps_remaining,   \* and what is left of it
  recalculate,       \* PREP_FLAG_RECALCULATE
  hold, end_motion,  \* STEP_CONTROL_EXECUTE_HOLD and _END_MOTION
  pc,                \* where st_prep_buffer() is
  running,           \* the stepper interrupt is enabled
  exec_segment,      \* a segment is being executed
  exec_block_index,
  counters,          \* the block the Bresenham counters were set up for
  step_count,
  loaded, executed   \* history: steps of the blocks loaded, steps taken

ring == <<segment_buffer, segment_buffer_tail, segment_buffer_head, segment_next_head>>
prep == <<st_block_buffer, current, length, pl_block, st_block_index, block,
          steps_remaining, recalculate, loaded>>
control == <<hold, end_motion>>
exec == <<exec_segment, exec_block_index, counters, step_count, executed>>
vars == <<ring, prep, control, pc, running, exec>>

NextSlot(i) == IF i + 1 = Size THEN 0 ELSE i + 1
NextBlockIndex_TooEarly(i) == IF i + 1 >= Size - 2 THEN 0 ELSE i + 1
NextBlockIndex(i) == IF i + 1 = Size - 1 THEN 0 ELSE i + 1

NoSegment == [index |-> 0, n_step |-> 0, block |-> 0]

Init ==
  /\ segment_buffer = [i \in Slots |-> NoSegment]
  /\ segment_buffer_tail = 0 /\ segment_buffer_head = 0 /\ segment_next_head = 1
  /\ st_block_buffer = [i \in BlockSlots |-> 0]
  /\ current = 1 /\ length \in Lengths /\ pl_block = FALSE /\ st_block_index = 0
  /\ block = 0 /\ steps_remaining = 0 /\ recalculate = FALSE
  /\ hold = FALSE /\ end_motion = FALSE /\ pc = "ready" /\ running = FALSE
  /\ exec_segment = FALSE /\ exec_block_index = 0 /\ counters = 0 /\ step_count = 0
  /\ loaded = 0 /\ executed = 0

-----------------------------------------------------------------------------
(* st_prep_buffer().                                                       *)

Prepares == pc = "ready" /\ ~end_motion /\ segment_buffer_tail # segment_next_head

(* A new block: its step data goes to the next slot.                       *)
LoadBlock ==
  /\ Prepares /\ ~pl_block /\ ~recalculate /\ current <= MaxBlocks
  /\ pl_block' = TRUE /\ block' = current /\ steps_remaining' = length
  /\ st_block_index' = NextBlockIndex(st_block_index)
  /\ st_block_buffer' = [st_block_buffer EXCEPT ![st_block_index'] = current]
  /\ loaded' = IF block = current THEN loaded ELSE loaded + length
  /\ UNCHANGED <<ring, current, length, recalculate, control, pc, running, exec>>

(* The same block with a new velocity profile.                             *)
Recompute ==
  /\ Prepares /\ ~pl_block /\ recalculate
  /\ pl_block' = TRUE /\ recalculate' = FALSE
  /\ UNCHANGED <<ring, st_block_buffer, current, length, st_block_index, block,
                 steps_remaining, loaded, control, pc, running, exec>>

(* The segment is written where the interrupt does not look yet.           *)
WriteSegment ==
  /\ Prepares /\ pl_block /\ pc' = "publish"
  /\ \E n \in 1 .. steps_remaining :
       /\ segment_buffer' = [segment_buffer EXCEPT ![segment_buffer_head] =
            [index |-> st_block_index, n_step |-> n, block |-> block]]
       /\ steps_remaining' = steps_remaining - n
  /\ UNCHANGED <<segment_buffer_tail, segment_buffer_head, segment_next_head,
                 st_block_buffer, current, length, pl_block, st_block_index, block,
                 recalculate, loaded, control, running, exec>>

(* At the end of a hold there may be no step left to take.                 *)
HoldTooShort ==
  /\ Prepares /\ pl_block /\ hold /\ end_motion' = TRUE
  /\ UNCHANGED <<ring, prep, hold, pc, running, exec>>

Publish ==
  /\ pc = "publish" /\ pc' = "advance" /\ segment_buffer_head' = segment_next_head
  /\ UNCHANGED <<segment_buffer, segment_buffer_tail, segment_next_head, prep, control,
                 running, exec>>

(* A block that is used up is discarded; a hold may end within one.        *)
Advance ==
  /\ pc = "advance" /\ pc' = "ready" /\ segment_next_head' = NextSlot(segment_next_head)
  /\ IF steps_remaining = 0
     THEN pl_block' = FALSE /\ current' = current + 1 /\ length' \in Lengths
     ELSE UNCHANGED <<pl_block, current, length>>
  /\ end_motion' \in {end_motion, hold /\ steps_remaining > 0}
  /\ UNCHANGED <<segment_buffer, segment_buffer_tail, segment_buffer_head, st_block_buffer,
                 st_block_index, block, steps_remaining, recalculate, loaded, hold,
                 running, exec>>

-----------------------------------------------------------------------------
(* The rest of the main program.                                           *)

(* st_update_plan_block_parameters().                                      *)
UpdatePlanBlock_NoFlag ==
  /\ pl_block' = FALSE
  /\ UNCHANGED <<st_block_buffer, current, length, st_block_index, block, steps_remaining,
                 recalculate, loaded>>
UpdatePlanBlock ==
  /\ pl_block' = FALSE /\ recalculate' = (recalculate \/ pl_block)
  /\ UNCHANGED <<st_block_buffer, current, length, st_block_index, block, steps_remaining, loaded>>

(* An override, or a new block that changes the first one.                 *)
Replan ==
  /\ pc = "ready" /\ pl_block /\ UpdatePlanBlock
  /\ UNCHANGED <<ring, control, pc, running, exec>>

FeedHold ==
  /\ pc = "ready" /\ running /\ ~hold /\ hold' = TRUE /\ UpdatePlanBlock
  /\ UNCHANGED <<ring, end_motion, pc, running, exec>>

(* EXEC_CYCLE_STOP in a hold.                                              *)
HoldComplete ==
  /\ pc = "ready" /\ ~running /\ hold /\ hold' = FALSE /\ UpdatePlanBlock
  /\ UNCHANGED <<ring, end_motion, pc, running, exec>>

(* EXEC_CYCLE_START: step control back to normal, then the wake-up.        *)
CycleStart ==
  /\ pc = "ready" /\ ~running /\ ~hold /\ end_motion' = FALSE /\ end_motion
  /\ UNCHANGED <<ring, prep, hold, pc, running, exec>>
WakeUp ==
  /\ pc = "ready" /\ ~running /\ ~hold /\ running' = TRUE
  /\ segment_buffer_head # segment_buffer_tail
  /\ UNCHANGED <<ring, prep, control, pc, exec>>

(* st_reset() and plan_reset(); what was loaded is forgotten.              *)
Reset ==
  /\ pc = "ready" /\ current < MaxBlocks /\ running' = FALSE
  /\ segment_buffer_tail' = 0 /\ segment_buffer_head' = 0 /\ segment_next_head' = 1
  /\ pl_block' = FALSE /\ st_block_index' = 0 /\ recalculate' = FALSE /\ steps_remaining' = 0
  /\ current' = current + 1 /\ length' \in Lengths /\ block' = current /\ loaded' = 0
  /\ hold' = FALSE /\ end_motion' = FALSE
  /\ exec_segment' = FALSE /\ exec_block_index' = 0 /\ counters' = current
  /\ step_count' = 0 /\ executed' = 0
  /\ UNCHANGED <<segment_buffer, st_block_buffer, pc>>

-----------------------------------------------------------------------------
(* Interrupts.                                                             *)

(* The stepper interrupt with a segment to execute: it is fetched when     *)
(* there is none, then one step is taken and the segment released when it  *)
(* was the last.  Another index than before means another block.           *)
Tick ==
  /\ running /\ (exec_segment \/ segment_buffer_head # segment_buffer_tail)
  /\ LET segment == segment_buffer[segment_buffer_tail]
         count == IF exec_segment THEN step_count ELSE segment.n_step
         new == ~exec_segment /\ exec_block_index # segment.index
     IN /\ exec_block_index' = IF new THEN segment.index ELSE exec_block_index
        /\ counters' = IF new THEN st_block_buffer[segment.index] ELSE counters
        /\ step_count' = count - 1
        /\ exec_segment' = (count # 1)
        /\ segment_buffer_tail' = IF count = 1 THEN NextSlot(segment_buffer_tail)
                                  ELSE segment_buffer_tail
  /\ executed' = executed + 1
  /\ UNCHANGED <<segment_buffer, segment_buffer_head, segment_next_head, prep, control, pc, running>>

(* With the ring empty it disables itself.                                 *)
RunsDry ==
  /\ running /\ ~exec_segment /\ segment_buffer_head = segment_buffer_tail
  /\ running' = FALSE
  /\ UNCHANGED <<ring, prep, control, pc, exec>>

(* mc_reset() from another interrupt.                                      *)
Kill ==
  /\ running /\ running' = FALSE
  /\ UNCHANGED <<ring, prep, control, pc, exec>>

Next ==
  \/ LoadBlock \/ Recompute \/ WriteSegment \/ HoldTooShort \/ Publish \/ Advance
  \/ Replan \/ FeedHold \/ HoldComplete \/ CycleStart \/ WakeUp \/ Reset
  \/ Tick \/ RunsDry \/ Kill

Spec == Init /\ [][Next]_vars

-----------------------------------------------------------------------------
(* Every step is taken with the data, the direction and the counters of    *)
(* the block its segment was cut from: neither is a segment overwritten    *)
(* before it is done, nor the data of a block while one of its segments is *)
(* left, and no new block goes unnoticed for having the index of the one   *)
(* before.  "it will never exceed the number of accessible stepper buffer  *)
(* segments (SEGMENT_BUFFER_SIZE-1)" (stepper.c:62, 387, 696).             *)
StepsOwnBlock ==
  [][Tick => LET own == segment_buffer[segment_buffer_tail].block
             IN counters' = own /\ st_block_buffer[exec_block_index'] = own]_vars

(* The ring: how many segments it holds, and the one at an offset.         *)
Count ==
  IF segment_buffer_head >= segment_buffer_tail
  THEN segment_buffer_head - segment_buffer_tail
  ELSE segment_buffer_head - segment_buffer_tail + Size
SlotAt(t, k) == IF t + k < Size THEN t + k ELSE t + k - Size
Segment(k) == segment_buffer[SlotAt(segment_buffer_tail, k)]

(* The steps left to take of the segments of the ring, and the sum of the  *)
(* first n of them.                                                        *)
Held == [k \in 0 .. Count - 1 |-> IF k = 0 /\ exec_segment THEN step_count ELSE Segment(k).n_step]
Total(h, n) == LET sum[k \in 0 .. n] == IF k = 0 THEN 0 ELSE sum[k - 1] + h[k - 1] IN sum[n]

(* No step is lost or taken twice: what was taken, what the ring and the   *)
(* interrupt still hold, and what is left of the block being prepared make *)
(* up the blocks loaded, through holds, overrides and resumes.             *)
StepsConserved ==
  pc = "ready" => executed + Total(Held, Count) + steps_remaining = loaded

=============================================================================
