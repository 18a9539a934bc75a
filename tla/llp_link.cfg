SPECIFICATION Spec
CONSTANTS
  CrcUpdate <- crc16_update
  MaxPayload = 5
  TimeoutMs = 2
  Wrap = 16
  Payloads <- SomePayloads
  Noise <- SomeNoise
  Gaps <- SomeGaps
  MaxFaults = 2
  MaxPauses = 2
INVARIANTS
  ParserOK
  DeliveredInOrder
  IntactFrameDelivered
PROPERTIES
  HeaderStartsFrame
  NoTornFrame
CHECK_DEADLOCK FALSE
