\* Healthy sensors on an engine at rest: 0 rpm, ambient temperature.
CONSTANTS
  TimeMod = 5
  StuckCap = 2
  AfterCap = 2
  Config <- MCConfig
  EgtLimitMap <- MCEgtLimitMap
  RpmRateLimit = 5
  RpmStuckTolerance = 1
  RpmStuckCountLimit = 2
  EgtRangeMin = 0
  EgtRateLimit = 5
  EgtStuckTolerance = 1
  EgtStuckCountLimit = 2
  EgtCold = 1
  RawRpm = {0}
  RawEgt = {0}
  Throttles = {0, 50}
  Dts = {1}
  TicksPerMs = 1
SPECIFICATION Spec
INVARIANT HealthySensorsPass
