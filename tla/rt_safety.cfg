SPECIFICATION Spec
CONSTANTS
  MaxBlocks = 1
  MaxSegs = 2
  BlockSegs = 2
  Commands <- EveryCommand
  Lines <- EveryLine
  MaxCommands = 3
  MaxLines = 2
  SpindleOn = TRUE
  SoftLimits = TRUE
  Underrun = TRUE
INVARIANTS
  TypeOK
  SteppersKillable
  HoldCompleteMeansStopped
  IdleMeansStopped
  NoMotionWithSpindleHeld
PROPERTIES
  ResumeNeedsOperator
  SleepEndsInAlarm
  NoPlanningWhenLocked
  CancelledJogIsFlushed
CHECK_DEADLOCK FALSE
