SPECIFICATION Spec
CONSTANTS
  Axes = {"X", "Y", "Z"}
  Cycles <- MCCycles
  Search = 4
  PullOff = 2
  LocateScalar = 2
  LocateCycles = 1
  SeekStep = 2
  Starts <- MCStarts
  Move <- MCMove
  Streams = FALSE
  Malformed = {"IDLE"}
  MaxLines = 3
INVARIANTS
  HomedOrLocked
  LimitsArmed
PROPERTIES
  HomingEnds
CHECK_DEADLOCK FALSE
