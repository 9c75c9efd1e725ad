CONSTANTS
  ConnectionN = 3
  DrainMax = 2
  MaxStimuli = 4
  MaxLives = 5
SPECIFICATION FairSpec
INVARIANTS PoolExact ReusableExact PostedLive MatesAgree LateOnlyAfterTwoLives NoLostInput
PROPERTIES InputServed
