CONSTANTS
  MaxSub = 2
  MaxParts = 4
  MaxHolds = 1
  SpawnUnflushed = FALSE
SPECIFICATION Spec
CHECK_DEADLOCK FALSE
INVARIANTS
  
  NoUseAfterFree
  ActiveIsAwaited

  
  
