CONSTANTS
  w1 = w1  w2 = w2
  Workers = {w1, w2}
  Unlocked = Unlocked
  LockBit = LockBit
  NListening = 1
  ConnectionN = 4
  Share = 4
  MultiAccept = FALSE
  UseAcceptMutex = TRUE
  MaxClients = 2
  MaxFaults = 0
  MaxCrashes = 1
  MayStop = TRUE
SPECIFICATION FairSpec
INVARIANTS NoAbandonedMutex ThresholdKeepsListening ListensAsHeld
PROPERTY ClientsAccepted
CHECK_DEADLOCK FALSE
