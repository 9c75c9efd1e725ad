CONSTANTS
  MaxProcesses = 3
  MaxSpawns = 5
  Capacity = 2
SPECIFICATION Spec
CHECK_DEADLOCK FALSE
INVARIANTS
  TableAgrees
  
  NoLeak
