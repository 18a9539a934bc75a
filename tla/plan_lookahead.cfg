SPECIFICATION Spec
CONSTANTS
  BlockBufferSize = 4
  Rates = {"feed"}
  Overrides = {"full", "half", "low"}
  Normal = "full"
  NominalSqr <- OneRate
  Shapes <- ShortAndLong
  MaxLines = 4
INVARIANTS
  TypeOK
  Feasible
  Optimal
  EndsOfBlocks

  
CHECK_DEADLOCK FALSE
