CONSTANTS
  MaxProcesses = 4
  Pids <- FivePids
  WorkerProcesses = 1
  CacheManager = TRUE
  CacheLoader = TRUE
  AdminSignals <- Upgrades
  MaxSignals = 2
  MaxCrashes = 1
  MaxFaults = 1
SPECIFICATION Spec
INVARIANTS NoLostChild NoneSparedTwice
CHECK_DEADLOCK FALSE
