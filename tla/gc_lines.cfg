SPECIFICATION Spec
CONSTANTS
  Axes = {"X"}
  MmPerInch = 2
  NCoord = 2
  MaxLines = 4
  Lines <- MCLines
  MaxTravel = 2
  QueueSize = 2
  MaxOffset = 1
  Garbage <- MCGarbage
INVARIANTS
  PositionAgrees
  OffsetsAgree
PROPERTIES
  WorkPositionIsCommanded
  HomeIsReached
CHECK_DEADLOCK FALSE
