\* A warning that turns fatal.
CONSTANTS
  Reports <- MCReports
  Times = {1}
  Retries = {1}
  MaxActive = 3
  LogSize = 2
  HistoryBound = 1
SPECIFICATION HistorySpec
INVARIANT FatalForcesShutdown
