SPECIFICATION Spec
CONSTANTS
  Axes = {"X", "Y", "Z"}
  Cycles <- MCCycles
  Search = 4
  PullOff = 2
  LocateScalar = 2
  LocateCycles = 1
  SeekStep = 2
  Starts <- MCStarts
  Move <- MCMove
  Streams = TRUE
  Malformed = {"IDLE"}
  MaxLines = 2
INVARIANTS
  PlanAgrees
CHECK_DEADLOCK FALSE
