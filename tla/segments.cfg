SPECIFICATION Spec
CONSTANTS
  Size = 4
  Lengths = {1, 2}
  MaxBlocks = 6
INVARIANTS
  StepsConserved
PROPERTIES
  StepsOwnBlock
CHECK_DEADLOCK FALSE
