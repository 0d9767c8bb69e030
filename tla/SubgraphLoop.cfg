SPECIFICATION FairSpec
CONSTANTS
  Library <- EmptyLoops
  MaxSteps = 5
  MaxRestarts = 1
PROPERTIES
  LoopsBounded
CHECK_DEADLOCK FALSE
