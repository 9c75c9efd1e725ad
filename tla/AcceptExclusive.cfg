CONSTANTS
  w1 = w1  w2 = w2
  Workers = {w1, w2}
  Unlocked = Unlocked
  LockBit = LockBit
  NListening = 2
  ConnectionN = 5
  Share = 8
  MultiAccept = TRUE
  UseAcceptMutex = TRUE
  MaxClients = 2
  MaxFaults = 1
  MaxCrashes = 1
  MayStop = TRUE
SPECIFICATION Spec
SYMMETRY Symmetry
INVARIANT MutexHeldByCritical
PROPERTY MutexSpec
CHECK_DEADLOCK FALSE
