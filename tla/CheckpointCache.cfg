SPECIFICATION CacheSpec
CONSTANTS
  Tasks = {t1, t2}
  Ids = {i1, i2}
  Copies = {1, 2, 3}
  CleanupFloor = 2
  Lies = {FALSE, TRUE}
  None = None
INVARIANT CacheIsFaithful
INVARIANT GarbageBounded
SYMMETRY Symmetry
CHECK_DEADLOCK FALSE
