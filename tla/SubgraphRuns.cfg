SPECIFICATION FairSpec
CONSTANTS
  Library <- BoundedLibrary
  MaxSteps = 5
  MaxRestarts = 1
INVARIANTS
  FrontiersRunnable
  ScopesNest
PROPERTIES
  ImplementsNestedGraph
  LoopsBounded
CHECK_DEADLOCK FALSE
