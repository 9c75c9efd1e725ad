CONSTANTS
  MaxProcesses = 6
  Pids <- SevenPids
  WorkerProcesses = 1
  CacheManager = TRUE
  CacheLoader = FALSE
  AdminSignals <- Reloads
  MaxSignals = 2
  MaxCrashes = 1
  MaxFaults = 0
SPECIFICATION FairSpec
INVARIANTS NoDoubleWorkers ExitsLast
PROPERTIES  ReloadSparesNew TerminateCompletes QuitCompletes WorkersRestored
CHECK_DEADLOCK FALSE
