SPECIFICATION FairSpec
CONSTANTS
  Workers = {w1, w2}
  Clusters = 3
  Limit = 1
  MinTarget = 2
  MaxRetries = 2
  MaxSchema = 1
  Threshold = 2
  MaxCalls = 2
INVARIANTS StopIsFinal OutageIsCut GuardStopsNewCalls EveryClusterIsAccounted
PROPERTY RunEnds
