SPECIFICATION FairSpec

CONSTANTS
  Radix <- MCRadix
  Sync1 <- MCSync1
  Sync2 <- MCSync2
  MaxPayload = 3
  Crc16 <- MCCrc16
  Commands <- MixedCommands
  SetThrottle <- SET
  MaxErrors = 1

INVARIANTS
  StoreInBounds
  PayloadFresh
  FramesDelivered
  LossEnds
  OverrideCommanded
PROPERTY ResyncsUnlessMisled
