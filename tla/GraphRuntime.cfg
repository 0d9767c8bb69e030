SPECIFICATION FairSpec
CONSTANTS
  Node = {1, 2, 3}
  Interruptible = {1, 2}
  MaxSteps = 3
  StartSteps = 2
  RunTimeout = TRUE
  NodeTimeout = TRUE
INVARIANTS
  DeterministicCommit
  RunIsAccounted
  DurableBeforeProgress
PROPERTIES
  TimedRunEnds
  HaltTakesEffect
