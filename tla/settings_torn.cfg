SPECIFICATION Spec
CONSTANTS
  Base = 8
  EepromSize = 26
  Version = 1
  AddrParameters = 7
  AddrStartup = 13
  AddrBuildInfo = 23
  NCoord = 2
  CoordSize = 2
  NLines = 2
  LineSize = 2
  Defaults <- MCDefaults
  MinPulse = 3
  Pulses = {2, 4}
  Masks = {5}
  Pulloffs = {17}
  Coords <- MCCoords
  Texts <- MCTexts
  LineNumbers = {0, 1, 2}
  MaxCommands = 1
  MaxLosses = 2
INVARIANTS
  WholeOrDefault
CHECK_DEADLOCK FALSE
