\* A sensor channel whose samples leave the range, jump and rest; the filters,
\* the governor of the fuel valve and the state machine, each under every
\* sequence of calls.
CONSTANTS
  StuckCap = 3
  AfterCap = 3
  Cfg <- MCChannelCfg
  Raw <- MCRaw
  HeldBound = 4
  Coef <- MCCoef
  Samples <- MCSamples
  MaxFed = 5
  PidCfg <- MCPidCfg
  FuelMax <- MCFuelMax
  RampRate <- MCRampRate
  Setpoints <- MCSetpoints
  Measures <- MCMeasures
  Steps <- MCSteps
  MaxGuards <- MCMaxGuards
  TimeMod = 4
  Timeouts <- MCTimeouts
  Delays <- MCDelays
  MaxDepth <- MCMaxDepth
SPECIFICATION BlocksSpec
INVARIANTS
  NoSilentAlteration
  ConvergesToHeldSample
  StuckIsQuietWindow
  FollowsEquation
  MedianOfWindow
  WindupUnwinds
  SoftRestart
  TimedOutExact
PROPERTIES
  SlewBounded
  ListedUnlessOverruled
