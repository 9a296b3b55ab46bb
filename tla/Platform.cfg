\* The task scheduler, the configuration loader, the two-dimensional tables,
\* the replay of recordings, persistent storage and the firmware loops.
CONSTANTS
  TimeMod = 13
  TaskKinds <- MCTaskKinds
  MaxTasks = 3
  RunCap = 1
  AfterRunCap = 1
  Costs = {0, 2}
  Gaps = {0, 1, 3}
  Params <- MCParams
  Durations <- MCDurations
  Defaults <- MCDefaults
  Numbers <- MCNumbers
  MaxDuration = 3
  MaxKeys = 2
  Tables <- MCTables
  Queries <- MCQueries
  MaxRows = 3
  MaxCols = 3
  Files <- MCFiles
  Steps = {0, 1, 3}
  MaxTime = 8
  Keys = {"config", "hours"}
  Bytes <- MCBytes
  Blobs <- MCBlobs
  BlobLen = 3
  WatchdogMs = 9
  MaxReload = 5
  PrintInterval = 3
  SlowSteps <- MCSlowSteps
  SlowMs = 2
  AgeCap = 12
SPECIFICATION PlatformSpec
INVARIANTS
  PlatformTypeOK
  PriorityOrder
  NeverEarly
  LoadedExact
  LookupsAgree
  ReplayExact
  Durable
  TornDetected
  NeverAhead
  OutputsFresh
  NoSpuriousBite
PROPERTY NeverLate
