\* Whole engine cycles, restarts included: slew-limited sensors of an engine
\* whose raw samples jump far beyond the limits, steps of one and of two ms,
\* and a clock of 6 ms that wraps many times in a run.
CONSTANTS
  TimeMod = 6
  StuckCap = 1
  AfterCap = 1
  Config <- MCConfig
  EgtLimitMap <- MCEgtLimitMap
  RpmRateLimit = 1
  RpmStuckTolerance = 1
  RpmStuckCountLimit = 1
  EgtRangeMin = 0
  EgtRateLimit = 2
  EgtStuckTolerance = 1
  EgtStuckCountLimit = 0
  EgtCold = 1
  RawRpm = {0, 7}
  RawEgt = {0, 7}
  Throttles = {0, 3, 50}
  Dts = {1, 2}
  TicksPerMs = 1
SPECIFICATION FairMonitorSpec
INVARIANTS
  DeadlineHonoured
  NoEarlyTimeout
  OverspeedCaught
  OvertempCaught
PROPERTIES
  FaultPermanent
  RampRespected
  ImplementsLifecycle
  StartConcludes
