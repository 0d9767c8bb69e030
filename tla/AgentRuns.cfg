CONSTANTS
  a = a
  b = b
  c1 = c1
  c2 = c2
  Call = {c1, c2}
  Kinds <- TaskKinds
  Deployments <- SmallDeployments
  CallLists <- Batches
  Openings <- SmallOpenings
  Handoffs <- SmallHandoffs
  CallId = {a, b}
  Decisions = {"Approve", "Reject"}
SPECIFICATION Spec
CHECK_DEADLOCK FALSE
INVARIANTS EffectsApproved SavedStatesUsable InternalErrorsNeverFire ConversationContinues
