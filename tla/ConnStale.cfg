CONSTANTS
  ConnectionN = 4
  DrainMax = 1
  MaxStimuli = 6
  MaxLives = 6
SPECIFICATION Spec
INVARIANTS StaleDetected
