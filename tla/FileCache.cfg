CONSTANTS
  r1 = r1
  r2 = r2
  Keys = {a, b, d}
  Nodes = {n1, n2}
  Requests <- TwoRequests
  Managers = {m}
  None = None
  MinUses <- OneEach
  MaxUses = 1
  Tries = 2
  MaxKills = 1
  KillInDelete = FALSE
SPECIFICATION Spec
SYMMETRY Symmetry
INVARIANTS
  NodeCount
  HeldIsInTree
  QueueExact
  UpdatingClaimed
  
