\* A second start after a normal stop.
CONSTANTS
  TimeMod = 5
  StuckCap = 1
  AfterCap = 1
  Config <- MCConfig
  EgtLimitMap <- MCEgtLimitMap
  RpmRateLimit = 5
  RpmStuckTolerance = 1
  RpmStuckCountLimit = 1
  EgtRangeMin = 0
  EgtRateLimit = 5
  EgtStuckTolerance = 1
  EgtStuckCountLimit = 0
  EgtCold = 1
  RawRpm = {0, 4}
  RawEgt = {0, 2}
  Throttles = {0, 50}
  Dts = {1}
  TicksPerMs = 1
SPECIFICATION Spec
PROPERTY IgnitionFuelled
