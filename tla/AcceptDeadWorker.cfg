CONSTANTS
  w1 = w1  w2 = w2
  Workers = {w1, w2}
  Unlocked = Unlocked
  LockBit = LockBit
  NListening = 1
  ConnectionN = 7
  Share = 8
  MultiAccept = FALSE
  UseAcceptMutex = TRUE
  MaxClients = 1
  MaxFaults = 0
  MaxCrashes = 1
  MayStop = FALSE
SPECIFICATION Spec
INVARIANT DeadWorkerReleases
