SPECIFICATION FairSpec
CONSTANTS
  Subscribers = {s1}
  Requested = 3
  MaxRing = 4
  Absent = Absent
  None = None
  MaxIndex = 1
  MaxText = 3
  MaxCallArgs = 3
  MaxOutput = 2
  JsonArgs <- Arguments
  ValidOutput <- Schema
  RetainDetails = TRUE
  MaxSseEvent = 5
  MaxToolCalls = 3
  MaxArguments = 4
  RetainReasoning = TRUE
  MaxReasoning = 2
  MaxSignature = 1
  ResolvedModel = "m"
  Scripts <- TurnScripts
  MaxChunk = 3
  GraphOpening = 3
  GraphClosing = 3
INVARIANT StreamIsFaithful
INVARIANT LossIsExact
INVARIANT ResponseIsWhatWasSent
INVARIANT DeltasAddUp
INVARIANT FailureIsDeserved
PROPERTY WatchingEnds
CHECK_DEADLOCK FALSE
