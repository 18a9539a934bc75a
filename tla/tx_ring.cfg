SPECIFICATION FairSpec
CONSTANTS
  CrcUpdate <- crc16_update
  MaxPayload = 3
  TxLineSize = 3
  RingSize = 5
  Spins = 2
  Burst = 1
  OutLines <- ShortLines
  MaxPrinted = 2
INVARIANTS
  NothingForgotten
  LinesFramed
PROPERTIES
  SentAsQueued
  FlushReturns
CHECK_DEADLOCK FALSE
