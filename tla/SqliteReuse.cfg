SPECIFICATION Spec
CONSTANTS
  ThreadId = {t1, t2}
  BranchId = {b1}
  CheckpointId = {c1, c2}
  Content = {x1}
  NoCheckpoint = NoCheckpoint
  NoTransaction = NoTransaction
INVARIANTS
  DifferentContentConflicts
