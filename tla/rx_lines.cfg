SPECIFICATION RxSpec
CONSTANTS
  RingSize = 4
  LineSize = 3
  HostCounts = 3
  FrameData <- Pieces
  MaxPayloads = 4
INVARIANT
  LinesAreAnswered
CHECK_DEADLOCK FALSE
