\* A table that overflows, a log that wraps, and loops over both whose bodies
\* call the manager.
CONSTANTS
  Reports <- MCManyReports
  Times = {1}
  Retries = {1}
  MaxActive = 3
  LogSize = 2
SPECIFICATION FacadeSpec
INVARIANTS
  NoDuplicateCodes
  WalkMissesFew
  LogRotated
PROPERTY ImplementsBoard
