CONSTANTS
  MaxProcesses = 4
  Pids <- FivePids
  WorkerProcesses = 1
  CacheManager = FALSE
  CacheLoader = FALSE
  AdminSignals <- Abandon
  MaxSignals = 4
  MaxCrashes = 0
  MaxFaults = 0
SPECIFICATION Spec
INVARIANT ExitsLast
CHECK_DEADLOCK FALSE
