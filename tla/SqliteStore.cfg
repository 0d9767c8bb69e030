SPECIFICATION Spec
CONSTANTS
  ThreadId = {t1, t2}
  BranchId = {b1, b2}
  CheckpointId = {c1, c2, c3}
  Content = {x1}
  NoCheckpoint = NoCheckpoint
  NoTransaction = NoTransaction
SYMMETRY Symmetric
INVARIANTS
  ReadsAgree
  ConstraintsNeverFire
PROPERTIES
  ImplementsCheckpointStore
