\* A fault reported, retried and reported again.
CONSTANTS
  Reports <- MCReports
  Times = {1}
  Retries = {1}
  MaxActive = 2
  LogSize = 2
  HistoryBound = 3
SPECIFICATION HistorySpec
INVARIANT RetriesLimited
