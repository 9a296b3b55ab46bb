SPECIFICATION FairSpec

CONSTANTS
  Radix <- MCRadix
  Sync1 <- MCSync1
  Sync2 <- MCSync2
  MaxPayload = 3
  Crc16 <- MCCrc16
  Commands <- TrailingCommand
  SetThrottle <- SET
  MaxErrors = 1

PROPERTY Resyncs
