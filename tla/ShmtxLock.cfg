CONSTANTS
  Procs = {p1, p2, p3}
  Spins = 1
  MaxFaults = 1
SPECIFICATION FairSpec
INVARIANTS BitMeansHeld  SleeperHasSuccessor
PROPERTIES LockProgress MutexSpec
