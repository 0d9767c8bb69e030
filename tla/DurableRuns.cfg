SPECIFICATION FairSpec
CONSTANTS
  r1 = r1
  r2 = r2
  r3 = r3
  na = na
  nb = nb
  v1 = v1
  Run = {r1, r2, r3}
  Applications <- RaceOrTwoWriters
  Policy = {"EverySuperstep", "FinalOnly"}
  ThreadId = {t1}
  BranchId = {b1}
  NoBranch = NoBranch
  Node = {na, nb}
  NoNode = NoNode
  Interruptible = {na}
  Entry <- EntryOrEmpty
  Route <- GraphRoute
  Version = {v1, NoVersion}
  NoVersion = NoVersion
  MaxSteps = 2
  MaxCheckpoint = 9
INVARIANTS
  LineageContinuity
  WritesContinueWhatWasRead
  ReportedOutcomeIsDurable
  ResumeValueReachesItsNode
PROPERTIES
  OwnLineageOnly
  CallsEnd
