SPECIFICATION FairSpec
CONSTANTS
  MaxBlocks = 1
  MaxSegs = 2
  BlockSegs = 3
  Commands <- CalmCommands
  Lines <- CalmLines
  MaxCommands = 2
  MaxLines = 2
  SpindleOn = FALSE
  SoftLimits = FALSE
  Underrun = FALSE
PROPERTIES
  ResetReinitialises
  StopsComplete
  QueuedMotionRuns
  LineIsFinished
