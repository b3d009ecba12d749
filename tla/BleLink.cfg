SPECIFICATION LinkSpec
CONSTANTS
  SetRun = 2
  FilterWidth = 4
  RXBUFSIZE = 1
  DEFAULT_PACKET = 1
  LARGE_PACKET = 2
  MaxBytes = 2
  MaxEvents = 2
  MaxBlocks = 3
INVARIANTS
  SppTypeOK
  CaughtUp
  PacketFits
  InOrder
PROPERTIES
  TakesCleanLevels
  LossIsNoticed
  BytesMove
