SPECIFICATION FairSpec
CONSTANTS
  MaxItems = 3
  MaxLimit = 2
INVARIANTS
  OverlapAllowed
  ReportMatchesFacts
PROPERTIES
  FailFastStops
  BatchEnds
