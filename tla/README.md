# grbl-llp in TLA+

grbl-llp is a fork of Grbl 1.1h for the ATmega328P. It drives a three-axis
machine from G-code that arrives, framed by LLP v3 (Layered Link Protocol), over
a serial line. This directory holds TLA+ models of the firmware (`src/src/*.c`
and `*.h` of the repository), TLC configurations that check them on small
instances, and TLAPS proofs of what holds for every size. Source positions below
are relative to `src/src/` of the repository's copy unless they say otherwise.
The modelled configuration is the shipped one: homing lock on, no safety door
pin, no parking, no variable spindle, no software debounce, no dual axis.

## 1. Inventory

| Component | Code | State | Operations |
|---|---|---|---|
| Realtime executor, main loop | `protocol.c`, `main.c`, `system.c` | `sys` (state, suspend, step_control, abort, overrides), `sys_rt_exec_*` flags | `protocol_execute_realtime`, `protocol_exec_rt_system`, `protocol_exec_rt_suspend`, `protocol_main_loop`, `protocol_auto_cycle_start`, `protocol_buffer_synchronize` |
| Motion commands | `motion_control.c`, `jog.c`, `limits.c`, `probe.c` | `sys_probe_state`, `sys.soft_limit` | `mc_line`, `mc_arc`, `mc_dwell`, `mc_probe_cycle`, `mc_reset`, `jog_execute`, `limits_soft_check`, limit interrupt |
| Planner | `planner.c` | ring of 12 blocks, head, tail, next head, planned pointer, `pl` | `plan_buffer_line`, `plan_discard_current_block`, `planner_recalculate`, `plan_cycle_reinitialize`, `plan_reset` |
| Stepper driver | `stepper.c` | ring of 6 segments, ring of 5 block data, `prep`, `st`, timer enable | `st_prep_buffer`, `st_wake_up`, `st_go_idle`, `st_reset`, step timer interrupt, `st_update_plan_block_parameters` |
| Link: frames and parser | `llp_protocol.h` | the parser structure | `llp_build_frame`, `llp_parser_process_byte`, `llp_get_final_payload_ptr` |
| Link: receiving half | `llp_transport.c`, `serial.c` | parser, millisecond clock, receive ring, counters | receive interrupt, `llp_process_payload`, `serial_read` |
| Link: sending half | `llp_transport.c`, `serial.c` | line buffer, frame buffer, transmit ring, interrupt enable | `serial_write`, `llp_transport_tx_flush`, data register empty interrupt |
| G-code interpreter | `gcode.c` | `gc_state`, `gc_block` | `gc_execute_line` |
| System commands | `system.c` | - | `system_execute_line`, startup lines |
| Settings and EEPROM | `settings.c`, `eeprom.c` | `settings`, EEPROM contents | store, read, restore, version check |
| Homing | `limits.c`, `motion_control.c` | axis lock, positions | `limits_go_home`, `mc_homing_cycle` |
| Reports, outputs, helpers | `report.c`, `print.c`, `spindle_control.c`, `coolant_control.c`, `nuts_bolts.c` | report counters, pins | formatting, pin writes |
| Streaming host | `scripts/stream_gcode.py` | lines sent and acknowledged | send, poll, wait with time limits |

How they interact. There is one processor. The *main program* reads characters
from the receive ring, assembles a line, executes it, and calls
`protocol_execute_realtime` at check points: between characters, in every wait of
a motion command, in dwells. *Interrupts* run between any two of its
instructions: the serial receive interrupt (which also recognises realtime
commands and turns them into flags), the transmit interrupt, the step timer, the
limit pins, the clock. Main program and interrupts share flags
(`sys_rt_exec_state`, `_alarm`, `_accessory_override`), the state variables in
`sys`, and four rings: planner blocks (main to main), segments and block data
(main to step interrupt), received characters, bytes to send. A motion goes from
the parser over `mc_line` into the planner, `st_prep_buffer` cuts its blocks into
segments, and the step interrupt runs the segments and flags a cycle stop when
there are none.

What is hard here:

* **Interleaving.** The executor acts on a copy of the flags and clears them in
  the live variable several steps later; flags are raised by interrupts and by the
  main program itself in between.
* **Stale facts.** A wait in a line (`mc_line` for room, a synchronize, the probing
  cycle) runs the whole state machine inside it; what was tested before the wait
  need not hold after it.
* **Ordering.** A cycle stop flag can be left over from motion that has ended when
  a hold begins; an auto-start can be raised just before a hold is taken up.
* **Unwinding.** A reset must reach `main` from every wait.
* **An unreliable line.** Bytes are lost, damaged, inserted and delayed; the parser
  must neither accept what was not sent nor lose more than what was damaged.
* **Limits.** Planner, segment ring, frame buffer, line buffer and the character
  rings all fill up; the length of a frame comes off the wire.

What makes each component correct:

* *Executor*: nothing moves in IDLE, in a completed hold, when locked or asleep;
  motion resumes only when the operator asks; sleep ends in alarm; resets, holds,
  doors, cancels, queued motion and lines all come to an end.
* *Motion commands*: every wait sees the abort; a locked machine plans nothing.
* *Parser and link*: no write outside the frame buffer; only what was sent is
  delivered, in order and untorn; a header always starts a frame.
* *Receive ring*: lines of a host that counts are executed as sent, once and in order.
* *Sending half*: bytes leave in order and once; a line is one whole frame; printing
  never blocks for good.
* *Planner*: the ring indices and the planned pointer stay in order; no two parties
  own a block. *Stepper*: block data is never reused while a segment needs it; the
  steps run are the steps planned.
* *G-code*: the position the next line is computed from is the one the planner ends
  at; offsets in use are the stored ones; a line ends where its words say, in
  whatever modes earlier lines left.
* *Settings*: what is in force is what the next power-up reads; after a power loss at
  any byte, a record is the old one, the new one or is recognised as bad.
* *Homing*: every pass ends; every way out leaves a homed or a locked machine, with
  limits armed. *Host*: each line is acknowledged once.

`PROJECT.json` lists the hazards of the code line by line, with the properties
that would catch each going wrong.

## 2. Modules

| Module | Models |
|---|---|
| `RtExec`, `MCRtExec` | executor, main loop, motion commands, jog, limits, and the flag traffic with the step interrupt; its instances for TLC |
| `RtExecProofs` | of `RtExec`, in four parts that build on each other: type correctness; that sleep and alarm lock; that the machine stands where it is said to; how holds, doors and cancelled jogs end |
| `GcodeBlock` | how a line of G-code is read and checked: pure operators |
| `Gcode`, `MCGcode`, `GcodeProofs` | the execution of lines: parser state, stored coordinates, planned motion, jogs, probing, resets, power losses; that position and offsets agree and lines end where they say, for all sets of lines |
| `Planner`, `MCPlanner`, `PlannerProofs` | the look-ahead planner and the velocity profiles of the segment generator; that no index leaves the ring, that the machine comes to the end of a block as planned, and, without overrides, that the plan is the fastest one that can be driven |
| `SegmentBuffer`, `MCSegmentBuffer`, `SegmentBufferProofs` | segment ring and block data ring between `st_prep_buffer` and the step interrupt; that steps are taken with their own block's data, and none is lost |
| `Homing`, `MCHoming`, `HomingProofs` | `$H`, the homing cycle and its polling loop; homed or locked, and limits armed, for all axes and distances |
| `Settings`, `MCSettings`, `SettingsProofs` | the EEPROM byte by byte, every record in it, power-up and power loss; its three invariants, for every layout whose startup lines fit |
| `LlpFrame` | the wire format: framing, stuffing, layer walk; the checksum is a parameter |
| `LlpParser` | the receive parser, one action per byte, any byte at any time |
| `LlpLink`, `LlpCrc`, `MCLlpLink` | host, faulty line, receive interrupt and parser composed; the real CRC16-CCITT and the instances |
| `SerialRx`, `MCSerialRx` | the receive ring, from the data of a frame to the lines the main loop executes |
| `ReceivingProofs` | of `LlpParser`, `LlpLink` and `SerialRx`, one after the other: buffer safety and headers; what comes through a faulty line; that lines are answered as sent |
| `ByteChannel` | abstract: what the serial output promises |
| `SerialTx`, `MCSerialTx`, `SerialTxProofs` | the sending half: printing, framing, transmit ring, transmit interrupt; that it implements `ByteChannel` and keeps lines whole |

A definition whose name has a suffix (`PlanFull_OffByOne`) is a wrong version of the
definition that follows it: a plausible bug. No action uses it; put in the place
of the right one it makes the property named for it in `PROJECT.json` fail, which
shows that the property says something about the code.

How the modules divide the machine. `RtExec` is the state machine, with motion as a
count of segments. `Gcode` has where motion goes and none of the holds; `Planner` how
fast it goes, and holds as one of five modes; `SegmentBuffer` how it is handed to the
interrupt, assignment by assignment, without speeds; `Homing` the one loop that polls
the flags by itself and not through the executor. What each leaves to another is
named in its header.

### RtExec

The variables are those of `sys` and the flags of `system.c` under their own
names, flag words as sets. `pc` is the place in the main program, one label per
point at which an interrupt can change what the code does next. A call of
`protocol_execute_realtime` goes through `alarm`, `critical`, `criticalWait`,
`clearAlarm`, `snapshot`, `status`, `hold`, `holdClear`, `start...`, `stop...`,
`finish` in the order of `protocol.c:235-524`; reading a flag word and clearing it are
steps of their own because the code does them apart. `cont` is the label the call
returns to and `ctx` the loop it was made from (top, suspend, the spindle's
restore delay, sleep). `isr = "idling"` is the step interrupt inside
`st_go_idle`, where it waits with interrupts enabled while the main program is
held up.

Motion is abstracted to counts: `work` is the number of segments that still have to
be cut from the queued blocks, `segs` the segments in the ring, and a block is
`BlockSegs` segments. Where the ramp of a hold ends is left open. `line` is the
kind of line in execution: a move, a jog, a dwell, a coordinate system setting
(which synchronizes), a probing cycle, `$C`, `$X`, `$SLP`. The delay of a dwell is one poll: more
would repeat the same step. That of a restore polls any number of times, because a cycle start
taken up within it acts at once. `resumeAsked`, `queued` and
`struck` are history variables: they remember for the properties what the code does not
(a resume since the stop, whose blocks are queued, a probing alarm in an unfinished hold).

### GcodeBlock and Gcode

A line is a sequence of words, a letter with a number or a G or M code; characters
are below the model. `GcodeBlock` is steps 1 to 3 of `gc_execute_line` as operators:
`Parse` collects words and modal groups, `Refused` makes the checks of the code, in the order that decides
whether a torn record is read and repaired first, and the targets, offsets and records the line will use follow. It has every word the
parser knows; spindle, coolant, tool and line number carry no value.

`Gcode` executes what was accepted. `AcceptLine` and `RefuseLine` are the check, `Sync` and
`Store` the wait for an empty buffer and the writing of a coordinate record, `PlanMove`
with `MoveBeyond` and `SkipMove` one call of `mc_line` (a G28 with axis words makes two),
the `Probe...` actions `mc_probe_cycle`. `gc` is `gc_state`, `stored` the coordinate
records, `queue` the planner, `machine` is `sys_position`. `job` is what is left of
the line in execution, so that a reset, the end of a motion, a jog cancel or a power loss can
come between its parts. A record torn by a power loss holds any of `Garbage`, which
contains the case that its checksum matches (`settings_torn`).

### Planner

The ring of blocks has the code's four indices (`next_buffer_head` is `next_head`,
`block_buffer_planned` is `planned`); `prep` and `pl_block` are those of `stepper.c`, and
`profile` is the rest of the velocity profile. Speeds are squared, as in the code,
and distances are multiplied by twice the acceleration, so that all arithmetic is
on integers: a block of length d can change the squared speed by d. `PrepSegment` is one
turn of the loop of `st_prep_buffer`, with the place where its segment ends left open.
The two passes of `planner_recalculate` count positions from the planned pointer
(`ReversePass`, `ForwardPass`), with the block the reverse pass skips and the
blocks before the planned pointer it does not look at.

What `RtExec` has in detail, Planner has in five values of `mode`: idle, in a cycle or
jog, in a hold, in a cancel (of a jog or a probing motion), in a completed hold. The
machine stops when the generator has nothing left to cut, because the segment ring is sized for
the main program to refill it in time; `RtExec` has the underruns. After the cancel of a
probing motion `step_control` keeps the hold's flags, as in the code
(`motion_control.c:307` resets planner and stepper and not `sys`), and a jog can start
with them (`JogStart`).

### SegmentBuffer

The ring variables carry the code's names. One turn of the loop of `st_prep_buffer` is
`LoadBlock` or `Recompute`, then `WriteSegment` (with `HoldTooShort` for a hold that
leaves no step), `Publish` (the head) and `Advance` (the next head, and the block's
end): three steps, because `Tick`, the interrupt, can run between any two and reads what
they assign. `Replan` is `st_update_plan_block_parameters`; `FeedHold`,
`HoldComplete`, `CycleStart`, `WakeUp`, `Reset` and `Kill` are what the executor does to the
ring. A segment counts how many step events it has. `counters` remembers for which block
the Bresenham counters were set up, and each segment in the model carries the number of its
block, which the code does not have: it is what the index into the block data ought to
lead to.

### Homing

`StartPass` begins one of the passes (approach at the seek rate, pull-off, approach at the
locating rate, pull-off), `Poll` is a turn of the inner loop (`limits.c:297-317`),
`Check` the first look at the flags, `Exit` the second, with its three ways out, `Stop`
the end of a pass with its delay, `SetPosition` the end of a cycle. `Realtime`, `Abort`,
`Sync` and `Reinit` are the parts of the executor and of `main` that follow.
`machine` is where the axes are and `position` what `sys_position` says: they differ until
homing succeeds. `Step` moves the axes that are not locked and counts for all that are
active, as the interrupt does. `Plan` and `RunMotion` are a motion sent beside the `$H`.
A door may come anywhere. One that the executor finds in IDLE suspends the machine until a cycle
start (`suspended`, `Resume`); one it finds in HOMING, at the end of the cycle, leaves only a
reset (`stranded`, `Abort`). `HomeRefused` is a `$H` with something behind it; `Malformed` are the
states in which the host sends one.

### Settings

`eeprom` is an array of bytes and `writes` the bytes still to be written; `WriteByte`
writes one and `PowerLoss` drops the rest. Layout, checksum (with the logical or of
`eeprom.c:133`), the version byte, conversions to and from bytes, restorations and repairs are
those of the code with a smaller byte: `Base` values instead of 256. Of the settings the model keeps
one byte with a lower limit (pulse length), one free byte (a mask), the two flags that
depend on one another and a value of two bytes. `expected`, `before` and `dirty` are history:
what was asked for last, what it replaced, and which records a power loss cut short.

### LlpParser and LlpLink

`process_byte` is `llp_parser_process_byte` with its branches in their order:
timeout, resynchronisation and wrong escape, unstuffed data by state.
`payload` is the filled part of the frame buffer. The clock keeps the 16 bits the
parser keeps of it (`Wrap`). `LlpLink` adds a host that sends given payloads, a line with a
bounded number of lost, damaged and inserted bytes and of pauses, and the receive
interrupt with the layer walk.

### SerialRx

`process_payload` puts the data of one frame into the ring, all within one interrupt; realtime characters are
taken out, and of those only the reset does something here (the others are in `RtExec`). `Read`, `Fetch` and
`Advance` are `serial_read`, between whose steps the interrupt can come; `Advance` ends with `Filter`, which is what
the main loop does with the character. `CheckPoint` and `Idle` are the two check points that can find a reset,
`Restart`, `ReadHead` and `WriteTail` the clearing that follows in `main`. `line` and `flags` are
`line` up to `char_counter` and `line_flags`. Characters are classes: a small letter, its capital, a blank, the two parentheses,
the semicolon, the end of a line. `answers` says what was executed, `stream` what
was put into the ring, both since the last clearing. `HostCounts` is what the host takes the size of the ring
for; `overrun` remembers that it sent more, or while the ring was being cleared.

### SerialTx

`text` is what the print functions have still to write. A line goes through
`line_buf`, becomes a frame, and is copied byte by byte: `test` compares the ring
indices, `wait` is a turn of the wait for room, `store` writes a byte, `enable` is the
last write of the interrupt enable bit. `Udre` is the transmit interrupt. The
history variables `queued` and `uart` are the bytes put into the ring and the bytes
that left.

How fast the transmitter is in comparison with the copying loop matters:
`Burst` bounds the bytes it takes between two steps of the loop. A step takes
a few microseconds and a byte 86, so 1 is the normal case; a larger value
stands for a main program that is held up by an interrupt.

## 3. Runs

| Run | Expect | Question |
|---|---|---|
| `rt_safety` | pass | all inputs and lines, soft limits, underruns: is the state machine safe? |
| `rt_liveness` | pass | does everything that has begun come to an end? |
| `plan_lookahead` | pass | is the plan always the fastest one that can be driven, and is it driven? |
| `segments` | pass | is every step taken once, and with its own block's data? |
| `gc_lines` | pass | do parser, planner, stored offsets and machine stay in agreement? |
| `homing` | pass | does homing end, homed or locked, with limits armed? |
| `homing_queued` | violation | `$H` behind a motion in the same stream |
| `settings_store` | pass | is what is in force what the next power-up reads? |
| `settings_torn` | violation | a power loss inside a record |
| `llp_link` | pass | delivery over a faulty line, and recovery |
| `rx_lines` | pass | does a host that counts get its lines executed as sent? |
| `tx_ring` | pass | output through a ring smaller than a frame |

Bounds, and why they are enough:

* `rt_safety`: one block in the planner of two segments, a ring of two segments, three
  realtime inputs of any kind and two lines of any kind. One block already gives a
  full and an empty planner, a ring that is full, partly full and empty, and a
  block that is cut over several refills; the races of the executor are between a
  flag being raised, copied and cleared, which takes one or two inputs; the third
  makes room for a resume after a stop, or a reset during either. Two lines give a
  line that waits for the first one's motion. `Underrun = TRUE` lets the ring run
  empty although the planner is not. 3.2 million states. `rt_safety_long.cfg` has a third
  line (an unlock between two motions, a motion behind a jog behind a probe): the same
  properties hold in its 15.5 million states; it takes three minutes and is run by hand.
* `rt_liveness`: blocks longer than the ring, so that a motion needs refills, two
  inputs, two lines. Left out are the inputs for which the code does not keep the
  promise: a limit's alarm discards a pending reset on purpose, a late jog cancel
  waits for a resume, the end of a probing cycle races with a resume (for the last
  two see below). `Underrun = FALSE`: the segment ring is sized for the main
  program to refill it in time.
* `plan_lookahead`: a ring of four slots, three usable, so that the reverse pass has a
  first, an inner and a last block, and four lines, so that the indices wrap. Squared
  speeds up to 3 with overrides to 2 and 1, lines of length 1 and 2 with corners of 2
  and 3: a hold that ends in a block, at its end and behind it, a slowdown to a lowered
  override that ends in a block and one that reaches over it, and all ramp types
  occur. All lines have one kind of rate (with two, see `plan_override` below). With five
  lines, and with lengths 1 and 3 and speeds up to 4, the properties hold as well, in up to
  four minutes. With speeds of 5, 4 and 1 and a ring of five slots they do not: see the override that is raised
  again, below. Nothing about type, indices and ends of blocks rests on these bounds, and without
  overrides nothing at all (section 5).
* `segments`: a ring of four segments and so three slots of block data, blocks of one and two
  steps cut in every way, six blocks: both rings wrap, at different times, and the
  segment ring is full with segments of three blocks, which is when the reuse of block data is
  closest to going wrong. A segment takes at least one step unless a hold ends, which
  is what the loop at `stepper.c:875-952` provides for. (The comment at `stepper.c:365` says it can
  be none; the interrupt would then count down from 65536.)
* `gc_lines`: one axis, because axes are treated alike and the sequence of modes is what
  matters; four of nineteen lines, which cover motions in both units and distance modes, arcs, G92 and G92.1,
  G10 L2 and L20, G28 and G28.1, G53, G54 and G55, probing, feed modes, G80 and a
  jog; a travel of 2, so that soft limits strike; an inch of 2 mm, so that a missing
  conversion shows; a planner of two moves, so that a line waits for room. Four
  lines let two set modes, one move and one use the result. 321,109 distinct states.
* `homing`: two cycles (Z, then X and Y), each axis on its switch, one step away, four, where
  the end of the approach and the switch come together, or five, where the approach of four
  does not reach; a locate pass after the search; three lines, so that a
  failed homing can be unlocked or repeated. `SeekStep = 2` overruns a switch, as
  motion at the seek rate does. `Malformed = {"IDLE"}`: with `$HX` in ALARM the property fails, see
  `homing_refused.cfg` below.
* `settings_store`: a byte of three bits (`Base = 8`) and 26 bytes of EEPROM keep the layout: version,
  settings with their checksum, two coordinate records, two startup lines, build info.
  Two commands and two power losses after any byte give a restoration that is itself cut
  short. An odd number of settings bytes is kept, because the checksum of erased bytes depends on
  it.
* `llp_link`: three payloads that need stuffing in data and layers, two faults and
  two pauses anywhere, pauses at and beyond the limit, the real checksum. A damaged
  byte can be a magic byte, zero or a length that does not fit. Two faults make a frame that
  ends wrongly and a resynchronisation that is itself damaged. Pauses stay
  below `Wrap - TimeoutMs`: after a silence of about a minute the 16-bit clock
  difference wraps and the timeout is missed, which the checksum has to catch.
* `rx_lines`: a ring of three usable characters, so that it wraps with every other frame and is full with one line and a
  half; a line buffer of two, so that a line of three is too long; four of ten frames, among them one with the end of
  a line within, comments that begin and end in other frames than the line, and resets with characters behind them. The host sends what it likes:
  the property asks whether it counted. 1.02 million states.
* `tx_ring`: a ring of four usable bytes, frames of eight and nine, two lines, a wait of two
  turns: each frame wraps around the ring twice, the copy waits, gives up in the
  first and in the second frame, and goes on after having given up.

Deadlock is checked in `rt_liveness`. It is not checked in the other runs of `RtExec`,
where the wait for a reset after a limit alarm may wait for an input that the bound no
longer allows, nor in the other runs, whose lines, blocks, payloads and power losses end.

### What the passing runs show

`RtExec`: the steppers never run where a reset would not kill them
(`SteppersKillable`); no hold is declared complete while they run, though a stale cycle
stop can race with the hold (`HoldCompleteMeansStopped`); IDLE and CHECK mean standing
still (`IdleMeansStopped`); these three except after an alarm that struck in an unfinished
hold (`struck`), where the code loses (`rt_alarm_lifted.cfg` below). Motion never resumes with the spindle
stopped by the override or with a request for the stop that was not served
(`NoMotionWithSpindleHeld`; struck again excepted, see `rt_spindle_left.cfg`, and a soft limit that is on
its way to the reset); hold and door end in motion only after a resume that came
after the stop (`ResumeNeedsOperator`; excepted is a hold made during a restore that had been completed
before, see `rt_unasked.cfg`); sleep ends in alarm (`SleepEndsInAlarm`); a
locked machine plans nothing, whatever wait the line was in (`NoPlanningWhenLocked`);
a cancelled jog leaves nothing in the buffers (`CancelledJogIsFlushed`). Under fairness,
resets re-initialise, holds, doors and cancels complete (`StopsComplete`), queued
motion runs, lines finish.

`Planner`: the planned pointer stays on a queued block (part of `TypeOK`); although only the blocks
behind it are recomputed, the plan can be driven (`Feasible`) and is the fastest there
is (`Optimal`, against a closed formula: the least of all limits before and after, each plus the
way to it). The generator drives it without a jump in speed (`Smooth`), also when a hold or a lowered
override reaches over the end of a block, takes no corner too fast
and stands when the segments run out (`EndsOfBlocks`).

`SegmentBuffer`: over replans, holds, resumes and resets between any two assignments, every step
of a loaded block is taken, in a segment, or still to be cut, exactly once
(`StepsConserved`), and is taken with the data and counters of its own block although block
data is reused without a test (`StepsOwnBlock`).

`Gcode`: between lines the parser's position is where the planner's last move ends, through
cancelled jogs, probing, alarms and resets (`PositionAgrees`); the offsets in use are those stored
(`OffsetsAgree`); a line that sets or goes to a work position ends there, in either unit and with a
change of system in the same line (`WorkPositionIsCommanded`); G28.1 and G30.1 store where the machine stands
(`HomeIsReached`).

`Homing`: once homing was tried, the machine is locked or its position is that of its switches,
whichever poll a reset, a door or the end of the motion falls between (`HomedOrLocked`); limits are
armed again on all five ways out (`LimitsArmed`); no pass waits for ever (`HomingEnds`).

`Settings`: what is in memory is what the next power-up reads (`SettingsPersist`); soft
limits are never in force without homing, nor a pulse too short, in memory or in what a power-up would
read (`SettingsSound`); a record keeps its contents whatever is written to others and
however often the power fails (`RecordsKeep`).

`LlpLink`: what is delivered is a subsequence of what was sent, in order
(`DeliveredInOrder`); an intact frame is delivered whatever came before
(`IntactFrameDelivered`); nothing is put together across a long pause
(`NoTornFrame`); a header begins a frame (`HeaderStartsFrame`); the frame buffer is safe
(`ParserOK`).

`SerialRx`: as long as the host counts, the ring drops nothing; as long as it drops nothing, lines are executed as they
were sent, without comments and blanks, each once and in order, and one that is too long is refused and not executed
(`LinesAreAnswered`). This holds anew after each reset. Characters of a line that arrive after the ring was
cleared count as the start of a line: a host that did not stop at the reset has the rest of its line executed.

`SerialTx`: the output implements `ByteChannel` (`SentAsQueued`); without a counted loss,
every line is one whole frame (`LinesFramed`); the interrupt is never off with
bytes left over (`NothingForgotten`); the wait ends even if the transmitter is stuck
(`FlushReturns`).

### What the violation runs show

Each quotes, in `PROJECT.json`, what the documentation or a comment says.

1. `settings_torn`: the checksum is rotated with a logical or (`eeprom.c:133` and `145`), so that little
   more than the last byte counts, and most records cut short by a power loss pass the
   check. `sizeof(settings_t)` is odd, so that erased bytes pass, too: a first boot
   interrupted after the version byte takes an erased EEPROM for settings.
2. `homing_queued`: `$H` asks for IDLE or ALARM, and with a motion before it in the same
   stream the state is still IDLE with a block queued. Homing sets the planner's position with
   the block still in it; executed afterwards, it leaves planner and machine apart.

### Other divergences, each with a configuration

These configurations are not in the table because their subject is covered by a passing
run under a stated assumption; run by hand, each ends in the violation described.

* `rt_alarm_lifted.cfg` (`AlarmLockKept`): `protocol_buffer_synchronize` waits while a block is queued or the state is
  CYCLE (`protocol.c:198`). In a feed hold whose last block is in the segment ring already, neither
  is so, and it returns while the steppers still ramp down. A probing line that waited
  there finds its pin triggered and raises the alarm (`motion_control.c:273-275`); the cycle stop at the end of the ramp
  then makes IDLE of ALARM (`protocol.c:418-422`). The machine is unlocked and nobody has unlocked it;
  `doc/markdown/commands.md:133` says the alarm locks all G-code until homing or `$X`.
* `rt_lost_door.cfg` (`DoorRequestKept`): all four hold flags are cleared together
  (`protocol.c:350`), also one raised after the copy was taken. A door command is lost, though
  `doc/markdown/commands.md:263` says it suspends immediately.
* `rt_sync_hold.cfg` (`SynchronizeIsClean`): the cause of `rt_alarm_lifted.cfg` by itself. A dwell behind a
  motion begins while the hold of that motion still ramps down, although the comment of the
  synchronize (`protocol.c:187-188`) promises a clean cycle end.
* `rt_unasked.cfg` (`ResumeIsAsked`): "Ensures auto-cycle-start doesn't resume a hold without an explicit
  user-input", says `protocol.c:356`. The end of a restore raises a cycle start (`protocol.c:737`).
  If a feed hold comes just then, the start is blocked and the next one begins a second restore, with
  `RESTORE_COMPLETE` still set. A cycle start within its delay resumes at once, a feed hold then is made
  and completes, and the end of the delay, still running below, resumes it.
* `rt_spindle_left.cfg` (`SpindleComesBack`): `doc/markdown/commands.md:325` promises that the spindle is
  restored when motion restarts. A spindle stop requested in the ramp of a hold that a probing alarm
  ends is not served and not taken back; a jog cancel that comes too late suspends the IDLE machine,
  where the request is served; the resume out of IDLE restores nothing. The next motion is
  made with the spindle off. Found by trying to prove `NoMotionWithSpindleHeld`, which then had no
  exception; it takes five commands and four lines, beyond the bounds of `rt_safety`.
* `rt_late_cancel.cfg` (`LateJogCancelIgnored`): the receive interrupt tests for JOG
  (`llp_transport.c:97`), the executor acts later. A cancel just before the jog ends
  suspends an IDLE machine until a cycle start; `doc/markdown/commands.md:276`
  says the command is ignored outside JOG.
* `rt_probe_end.cfg` (`ProbeRemainderRemoved`): a resume taken up at `motion_control.c:304`
  starts the remainder of the probing motion, the resets at 307 and 308 stop it,
  and the machine stays in CYCLE.
* `llp_resync.cfg` (`HeaderAlwaysResyncs`): the byte that ends a wrong escape pair is dropped
  even if it is the first byte of a header (`llp_protocol.h:229`); the frame after it is lost.
* `tx_replay.cfg` (`SentAsQueued` with a large `Burst`): if the ring drains between the test
  for room and the enabling of the interrupt, the interrupt runs on an empty ring
  and sends its old contents again.
* `rx_lines.cfg` with `HostCounts = 5`, as many over the size of the ring as the documentation is (`LinesAreAnswered`, its
  part `CountingLosesNothing`): `doc/markdown/interface.md:39`
  says "We know Grbl has a 128 character serial receive buffer"; it holds 80 (`serial.h:27`). A host that
  counts as described overruns it, characters in the middle of lines are dropped, and what is left of the
  lines is executed. `$I` reports the right number.
* `tx_long_line.cfg` (`LinesFramed` with a line that fills the buffer): 64 bytes of a line make
  a payload of 65, which is refused without being counted. The help text (`$`) has
  73 bytes and loses its first 64.
* `plan_override.cfg` (`Feasible` with two kinds of rate): a block entered at its maximum is
  not looked at again (`planner.c:158`). When an override lowers the block behind it
  and not itself, as it does with a rapid motion before a feed motion, it is
  entered faster than it can slow down.
* `plan_lookahead.cfg` with `BlockBufferSize = 5`, `NominalSqr <- FarApart` and `Shapes <- ShortAndFast`
  (`Smooth`): a lowered override makes the generator slow down over the end of a block, and when it is
  raised again just between two blocks, the new plan begins with the entry speed planned for the first of them
  (`planner.c:171`), not with the higher speed the machine still has (`stepper.c:598-605`). The block
  ends at a speed it cannot come down to, and the last segment drops to it
  at once. Guideline b of the comment before the planner (`planner.c:75-76`) excludes this. Found by looking
  for the inductive invariant of `Feasible`; the speeds of `plan_lookahead`, 3, 2 and 1, leave no room for it.
* `homing_refused.cfg` (`HomedOrLocked` with `Malformed = {"ALARM"}`): the state is HOMING before the rest
  of the line is looked at (`system.c:182`), and stays so when it is refused. A machine locked
  after a failed homing that gets a `$HX`, a door and a reset is in IDLE, neither homed nor
  unlocked. `doc/markdown/commands.md:133` says the lock holds until homing or `$X`.
* `homing_door.cfg` (`DoorCanResume`): a door that comes as the homing cycle ends, taken up while the state is still
  HOMING, sets DOOR without a hold to complete (`protocol.c:304`, `356-372`), so that a cycle start
  never resumes it. `doc/markdown/commands.md:241` says it resumes a door state.
* `gc_jog_cancel.cfg` (`JogsAreCancellable`): a jog sent right behind a G-code motion, with the state
  still IDLE, is queued behind it (`jog.c:41`) and runs in CYCLE, where a jog cancel is ignored. The jogging
  document (`jogging.md:37`) promises that a jog can be cancelled at any time.

### Observed while modelling

The models do what the code does here; no property is about it.

* Settings: a failed read of the settings restores *all* records, coordinates and startup
  lines included (`settings.c:310`). The number in `$N<k>=` is not checked. The restoration of a
  startup line writes its zero checksum beside the first byte (`settings.c:120`); the line then either
  reads as empty or is found invalid and stored again as empty
  (`RecordsKeep`). `eeprom_put_char` enables interrupts whether or not they were
  enabled (`eeprom.c:124`).
* Homing: a reset during the debounce delay is followed by `st_wake_up` of
  the next pass, with later resets taken for repetitions (`limits.c:268`, `335`,
  `349`). A cycle stop that comes after the approach has ended by its switches
  makes the pull-off end at once, which then fails.
* G-code: `$J=F100` without an axis is accepted and jogs to machine zero. A feed rate in
  inches given with G94 right after G93 is not converted. The coordinate system changes before the wait
  for the buffer (`gcode.c:951-954`), so that positions reported meanwhile are wrong. G10 with P or
  L missing is accepted (`gcode.c:521` refuses only both). G10 and G28.1 write their record also
  when the wait was aborted, and in check mode with a position never reached. G92.1 with axis words
  moves with the old offset. An arc by radius whose end is its start divides by
  zero (`gcode.c:745`). G-code queued in IDLE becomes part of a jog if a `$J=` follows. A jog
  that waits for room when a cancel comes is still planned. After a probe `step_control` keeps
  END_MOTION.

## 4. Fairness

* `RtExec`: weak fairness of the main program as a whole and of the step interrupt as a
  whole. The processor runs, and the timer fires while it is enabled. No fairness of any
  input: no command, line, pin or probe contact ever has to come.
* `SerialTx`: weak fairness of the main program only; the transmitter may be stuck.
* `Homing`: weak fairness of the main program and of the step interrupt with the end of its
  motion. Switches, reset, door and resume come or do not. After a door the program
  waits for a resume or a reset, so `HomingEnds` ends there, too. The loop reads the switches at least once per
  step: it is a few instructions long, and a step of homing takes milliseconds.

Other assumptions: writing one EEPROM byte is atomic; a power loss loses everything else.

## 5. Proofs

Checked by TLAPS for every value of the constants, from the assumptions named in
the modules (sizes are positive numbers, inputs are of the listed kinds) and nothing
else. Eight modules hold them.

* `RtExecProofs!TypeCorrect`: `Spec => []TypeOK`. `TypeOK` is inductive; one lemma per part
  of the program, one step per action. Its content is that every jump leads to a
  label and that planner and ring never overflow, which needs that room is tested
  after, not before, each wait.
* `RtExecProofs!SleepLasts` and `LockedMachinePlansNothing`: `SleepEndsInAlarm` and
  `NoPlanningWhenLocked`. Both are about a line that waits while the machine is locked under it.
  `LockInv` follows the main program: where it goes on with a line nothing is suspended
  (`SuspendOK`), once aborted it takes no flag but the reset (`AbortOK`), a sleep request is taken up before
  another line is (`SleepFlagOK`), and an alarm that strikes in one of the waits of a line
  is one of those that bring a reset (`AlarmOK`, `SoftOK`), so that the line unwinds before it plans
  (`LockOK`). The alarms of a probe bring none; they strike when the line plans no more. One
  lemma per part of the program shows `LockInv` inductive; `StateWriters` and `WorkWriters` name
  the few actions that leave SLEEP or add work, and the theorems look at those alone.
* `RtExecProofs!SteppersCanBeKilled`, `HoldCompleteStopped`, `IdleStopped`: the three stop
  invariants. None is inductive: that the machine stands in IDLE depends on where its one cycle stop
  is. `StopInv` follows it. The timer runs, or the interrupt is between its flag and the timer, or the flag is up,
  never two of them (`OneOK`); where the machine is said to stand, the flag is up only on the
  way to being cleared (`StandOK`), since the copy of the flags never has a stop that the flags have not
  (`CopyOK`); segments are prepared and the steppers started from rest only (`WakeOK`); steppers
  that run outside of CYCLE and JOG are braking (`RampOK`, `CancelOK`). A reset that races with a wake-up
  leaves a cycle stop over (`LeftOver`): it is taken up at the first check point, before anything
  is planned. All of it is excepted while a reset is under way or after an alarm struck in an unfinished hold.
* `RtExecProofs!ResumeIsOperators`, `SpindleIsRestored`, `JogIsFlushed`: `ResumeNeedsOperator`,
  `NoMotionWithSpindleHeld`, `CancelledJogIsFlushed`. `AskInv` says for each place a cycle start can be in
  why it was asked for: flagged (`AskedOK`), copied and not blocked (`CopiedStartOK`), or still to be
  raised by a restore (`RestoreAskedOK`) or by the restart of the spindle (`SpindleAskedOK`). A door
  request that was copied but not yet acted on is the delicate case (`DoorTaken`). `OverrideOK`: a
  spindle stop, requested or in effect, belongs to a hold, and behind a door the door
  is ajar until the retract has ended it. `CancelFlagOK`: a jog is cancelled in JOG only. The exceptions
  of the first two properties come out of these proofs: TLC confirmed each with a trace.
* `ReceivingProofs!BufferIsSafe`: `ParserSpec => []ParserOK`, for every sequence of
  bytes and times, every buffer size, timeout and checksum function. `ParserOK` is
  inductive: its length part says per state how the index, the announced length and the
  buffer size are related, which is what survives escape, resynchronisation and
  timeout.
* `ReceivingProofs!HeaderTheorem`: `HeaderStartsFrame`. The strengthening says in which
  states the parser can be after a first magic byte: waiting for the second one or
  with an escape pending, unless that byte ended a wrong escape pair. That exception
  is `llp_resync.cfg`.
* `ReceivingProofs!TornTheorem`: `NoTornFrame`, for all lines, payloads, timeouts and checksums, if no pause lasts
  for a whole turn of the clock (`[]ShortSilence`). The parser keeps times in 16 bits: a pause of 65.5 s or a
  little more looks short, and a frame torn by it is put together. `ClockOK` says that the time of the last byte and
  the silence since it give the present time.
* `ReceivingProofs!IntactTheorem`: `IntactFrameDelivered`, for all faults and pauses before the frame, if the host's
  payloads are frames the firmware can hold (`PayloadsFit`) and the checksum has 16 bits (`CrcIs16Bit`). It
  contains that the parser inverts `build_frame`. The invariant (`LinkInv`) follows an intact frame along the line. Until its
  header is through the parser may be anywhere; what matters is that it takes the two magic bytes in every state, with
  an escape pending or not (`HeaderDue`, `MagicDue`). From there on parser and line agree place by place on the
  frame as it was before stuffing (`Reads(p, k)`: `k` bytes are read, index, checksum and buffer are what
  these give, and what is on the wire is the rest, stuffed, with an escape pending where the first half of a pair is through). That a
  stuffed frame can be taken apart like this is a fact about flattened sequences (`FlattenFirst`), and that the checksum
  of a frame is built byte by byte one about folds (`CrcOfMore`); both are proved by induction from the definitions of the
  community modules.
* `ReceivingProofs!OrderTheorem` and `FaultlessTheorem`: `DeliveredInOrder`. On a faulty line it depends on the checksum: the first theorem
  assumes that a frame that did not arrive intact is not delivered (`ChecksumCatches`), which no checksum of 16 bits
  guarantees, and shows that then nothing is repeated, reordered or invented, however frames end early and begin anew. The
  second has no assumption about the checksum and is about a line without faults that pauses as it likes
  (`[]Faultless`): a frame given up for a pause leaves nothing on the line that could pass for a frame, since a magic byte inside
  of a frame is always followed by zero (`GivenUp`). That the real CRC catches the faults of the run is checked
  by TLC (`llp_link`).
* `ReceivingProofs!LinesTheorem`: `LinesAreAnswered`, for all sizes of ring and line and whatever frames bring, if the host counts on
  no more than the ring holds (`HostCounts <= RingSize - 1`; section 3 shows what happens to the host of the
  documentation). `RxInv` has four parts and was checked by TLC first. `InHand`: the ring holds the last characters of
  the stream, counted from its tail, or, between the two steps of the clearing, from the head that was read; a character in hand is the
  one next in the stream. `Answered`: one answer per line so far, each right, and the next line begins not after what
  has been read. `InLine`: line buffer and flags are those of the characters read since then (`Parsed`). `CountingLosesNothing`: what is unanswered
  is at least what is in the ring. A frame is a fold over its characters; what a frame does to the ring, whatever its
  length, is proved by induction over it (`FrameTaken`). The property defines lines by the rank of their ends and
  answers by the rank of the characters that count; that the filter, which sees one character at a time, comes to the same is
  `FilterKeeps`.
* `SerialTxProofs!TxTypeCorrect`, for every transmitter.
* `SerialTxProofs!TxImplementsChannel` and `TxNothingForgotten`, for `Burst <= 1`. The
  inductive invariant has two parts. `RingOK`: the ring holds exactly the bytes queued and
  not sent. `EnableOK`: how many bytes the ring holds at least at each place where
  the main program is about to enable the interrupt. Without the second, the
  interrupt could run on an empty ring and break the first; with `Burst` as large as the ring
  it does (`tx_replay.cfg`).
* `SegmentBufferProofs!StepsTakenWithOwnBlock`: `StepsOwnBlock`, for every ring of three segments or
  more, all block lengths and any number of blocks. The comment at `stepper.c:696` rests the
  reuse of block data on the size of the ring; the proof says why that is enough. `View` is the ring
  as a sequence from its tail. `Chain`: the block numbers along it, from the one the interrupt
  is at to the one being prepared, grow by at most one, because each block leaves at
  least one segment. Hence n segments span at most n blocks. `Indexed`: a segment whose block is d
  blocks back has an index d slots back, and the data there are that block's. As a block is
  loaded only with room for a segment, its slot is not one of those in use. `PrepOK`
  and `ExecOK` are what holds between the assignments of the main program and in the
  interrupt. `IInv`, their conjunction, was checked by TLC before it was proved; lemmas for the
  arithmetic of the two rings (`RingFacts`, `SlotFacts`, `BackFacts`), for the three ways a chain changes
  (`Loaded`, `Pushed`, `Popped`, with `Fetched` for the interrupt taking a segment up), and one per
  action make up `Inductive`.
* `HomingProofs!HomedOrLockedHolds`: `HomedOrLocked`, for all sets of axes, orders of cycles, distances,
  speeds and starting points, if no malformed `$H` is sent in ALARM, and `LimitsAreArmed`:
  `LimitsArmed`, without that condition. Assumed are what the code says of its configuration: each cycle homes
  an axis and each axis is homed (`CyclesAssumption`, `config.h:105-106`), and a locating pass reaches
  further than back to the switch (`LocateAssumption`; `limits.c:29-30` asks for a factor
  above 1, by default 5). `ControlInv` says which states, flags and running steppers occur where: an
  alarm is there until the executor has locked the machine. `CycleInv` follows the passes.
  In a locating approach every axis stops on its switch (`Locating`) while some motion is left, so no
  cycle stop is waiting when the pull-off begins (`Ready`); hence the pull-off is not cut short, its cycle stop
  means the whole distance (`PullingOff`), and all axes are `PullOff` off their switches when the position is
  set (`AtZero`, `Done` for the earlier cycles). `Turns` ties the direction to the number of passes
  left: the last one is a pull-off. `IInv` was checked by TLC first; there is a lemma per action of the
  cycle. It needs at least one locating pass: with the search alone (`Passes_NoLocate`), at the seek
  rate, the axes end where they overran their switches.

* `PlannerProofs!PlannerTypeCorrect`: `Spec => []TypeOK` of `Planner`, for all sizes of the ring, kinds of rate,
  overrides and lines. Besides the types, `TypeOK` says that the planned pointer stays on a queued block. It is not
  inductive: a squared speed could become negative in a profile that does not fit the rest of its
  block. `PlannerTyped` adds the form a profile has for a hold, for slowing down, or as planned (`HoldForm`, `SlowForm`, `PlanForm`),
  which survives every segment (`SpeedAtTyped`), and that the next head follows the head. The passes of the
  planner are recursive functions; that they have values, and which equations these satisfy, is proved by
  induction over the queue (`ReversePassFacts`, `ForwardPassFacts`, from `Recursion`).
* `PlannerProofs!MachineFollowsPlan`: `EndsOfBlocks`, if there is one kind of rate or no override
  (`OneRateOrNoOverride`; with two kinds a block can be entered too fast, as `plan_override.cfg` shows).
  `DriveOK` is inductive. A maximum entry speed never exceeds the corner and the two nominal speeds at it
  (`Limits`), and no entry speed exceeds it or what the block can slow down from (`Chain`). `Chain` is
  delicate where the planner does not recompute: the reverse pass stops early at a block that is
  entered at its maximum. `ReverseFloor` says what makes this right: whatever speeds could be driven
  before, the passes give each block at least those, or the most that the block before allows. `Stoppable` is independent of the plan: from the
  speed it has the machine can come to a stop in the queue through every corner, which is what a slowdown for an
  override relies on when it runs over the end of a block. `Speeds` says with which speed the generator goes on
  between two blocks, `Holds` and `ProfileFollowed` what a hold and a profile in progress promise. One lemma per action;
  cutting a segment is split into what stays within the block and what ends it.
* `PlannerProofs!PlanAlwaysFeasible`, `MachineIsSmooth`, `PlanAlwaysOptimal`: `Feasible`, `Smooth` and `Optimal`, for
  all sizes of the ring, kinds of rate, lines, holds, cancels and resets, if no override changes
  (`NoOverride`). The hypothesis is needed: an override that is lowered and raised again between two
  blocks breaks `Smooth` (section 3), and `Feasible` fails in `plan_override.cfg`. Overrides with one kind of rate are
  checked by `plan_lookahead` alone. `PlanDriven` adds to `DriveOK` what speeding up needs: each block is reached from
  the one before it (`Accelerates`), the first one from the speed the machine has (`Joins`), and a
  profile in progress ends at its exit speed without a jump (`ProfileFits`). In a hold the machine falls behind the
  plan, so that half of `Joins` is suspended until the new plan is made. `PlanTight` says of each entry speed which reason
  it has: its maximum, full acceleration from the block before, or braking for the block
  behind; and that the third is not that of the planned block, so that no line added later can raise
  a speed in front of it. The delicate block is the first corner, whose reason can be
  full acceleration from a block that is being cut: each segment then has to follow that acceleration exactly
  (`FitSpeed`). That entry speeds with such reasons equal the closed formula of `Optimal` is a fact
  about sequences of numbers (`FastestPlan`): a reason is followed from block to block, by
  induction, until it ends at a limit, and it cannot turn around because lines have a length.
* `GcodeProofs!PositionAlwaysAgrees`, `OffsetsAlwaysAgree`, `HomesAreReached`: `PositionAgrees`, `OffsetsAgree`,
  `HomeIsReached`, for all axes with X among them, travels, sizes of the queue and sets of lines, whose only
  restriction is that they are sequences of words (`LinesAssumption`). A line is read word by word; that the block is
  well-formed is proved by induction over the words (`ParseReads`), and that a block that is accepted reads no torn
  record (`AcceptedRecord`). `Position` and `Offsets` say for each point between reading a line and the
  end of its motion where the last planned move ends and which writes are still to come; `JobOK` that no jog is
  under way while a line waits, so that its cancel cannot change the position under the line; `Homes` what is
  about to be stored.
* `GcodeProofs!WorkPositionsAreCommanded`: `WorkPositionIsCommanded`, under the same assumptions. Modes set
  lines before, the units, a system selected in the same line and both kinds of offset enter
  into where a line ends; `Commanded`, checked by TLC first, says that the position, record and offsets the
  line is on the way to differ by the values it names, from the moment it is accepted. For G92 and G10 L20 this
  needs that such a line cannot also move, which is so because a second command for the
  axis words is refused (`NoMotion`, by induction over the words). The property reads the line again from the
  modes it left; that this gives the same block is `ParseAgain`: two readings differ at most in modes
  no word has set (`Echoes`).
* `SettingsProofs!SettingsAlwaysPersist`, `SettingsAlwaysSound`, `RecordsAlwaysKeep`: the three invariants of
  `Settings`, for every layout without overlaps, checksum base, contents and number of power losses. Whatever is still to
  be written leads to an image of the EEPROM that is already right: a command builds it (`Issued`), each byte comes
  nearer to it, and when the power fails the records without a byte missing are already those of the image. The
  bytes of the settings are sound one by one, so that no mixture of old and new ones is unsound. `LinesFit` is a
  hypothesis: the startup lines that commands store end before the build information. The code does
  not see to it, because the number in `$N<k>=` is not checked (`settings.c:64`, `system.c:264-266`); in the real
  layout line 3 reaches into the build information. `settings_store.cfg` satisfies it, with one line
  beyond `NLines`.
* `SegmentBufferProofs!StepsAlwaysConserved`: `StepsConserved`, from the same invariant as `StepsOwnBlock`
  and an account of where a step can be: the sum over the ring is a fold, and what adding and
  taking a segment does to it is proved by induction.
* `SerialTxProofs!TxLinesFramed`: `LinesFramed`, if each printed line has one line end, its last byte, and fits
  line buffer and payload (`AllLinesFit`; `tx_long_line.cfg` shows what happens otherwise). `TxOrder` follows a
  line from the line buffer through the frame being copied into what was queued.

Only model-checked: liveness, which is out of the prover's reach (`ResetReinitialises`, `StopsComplete`, `QueuedMotionRuns`,
`LineIsFinished`, `FlushReturns`, and `HomingEnds`, the end of a homing cycle); of `DeliveredInOrder`, that the real
checksum catches the faults of a run; of `Planner`, `Feasible`, `Optimal` and `Smooth` while overrides change. Every other
property of a passing run is stated by one of the theorems above.

## 6. Not modelled

* How override commands are counted, spindle speed and coolant overrides, and the control
  pins. A command that arrives between the copy of the counted value and its clearing
  (`protocol.c:431`) is lost: the flags are sets of bits like those of `rt_lost_door.cfg`, where the
  same pattern is modelled. Likewise an alarm raised between the reading of the alarm code
  and its clearing (`protocol.c:260`) loses its code, which `RtExec` does not distinguish; and a reset between
  preparation and wake-up (`protocol.c:382`) is seen at the next check point.
* `pos + meta_len` in 16 bits (`llp_protocol.h:405`): the buffer is too small for the sum to
  wrap unless the length field is damaged in a frame with a matching checksum.
* In `Planner`, different accelerations of the axes, system motions (homing, parking), and the
  geometry that gives a line its length and junction speed. In the stepper driver, the timing of a
  segment, the values of the Bresenham counters, pulses.
* The segments of an arc, each an `mc_line` call with a check for abort between them; the
  spindle, coolant and tool words, laser mode, program flow (M0, M2, M30).
* Other settings, and what storing one does at once to pins, limits and spindle.
* The streaming host: its time limits and assumed answers (`scripts/stream_gcode.py:510`) are guesses
  about the firmware.
* Reports and number formatting, pin polarity, floating point accuracy: layout or data that no
  property here depends on.
* `llp_find_layer` and `llp_get_final_payload`: the firmware does not call them.

## 7. Plan

Done: `RtExec`, `LlpFrame`, `LlpParser`, `LlpLink`, `SerialTx`, `Planner` (for one acceleration),
`SegmentBuffer`, `Gcode`, `Homing`, `Settings`, `SerialRx`, and the theorems of section 5. Left, in this order:

1. `SerialRx` joined with `LlpLink` before it and `RtExec` behind it, where the instances fit one run;
   `LinkInv` and `RxInv` are about neighbouring parts of the state and would be conjuncts of its invariant.
2. The override commands and control pins in `RtExec`, or in a module beside it that shares the
   flags. In the same place the jog after a probe, which finds END_MOTION set.
3. Program flow and the segments of an arc in `Gcode`.
4. `HostStream`: the reference sender against a device that answers late or not at all.
5. Proofs. `Planner`: `Feasible` and `Optimal` for overrides with one kind of rate, where `PlanDriven` has to
   except the slowdown to a lowered override. `LlpLink` and the real CRC16: which faults it is sure to catch, in the
   place of `ChecksumCatches`.
