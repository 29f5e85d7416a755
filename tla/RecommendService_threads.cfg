SPECIFICATION FairSpec
CONSTANTS
  Requests = {1, 2, 3}
  NoJob = NoJob
  NoList = NoList
  Slots = 2
  Workers = 1
  ShadowWorkers = 1
  MaxPending = 2
  BreakerAfter = 2
INVARIANTS PendingIsTrue LateJobsCount
PROPERTIES EveryRequestIsServed BacklogDrains
CHECK_DEADLOCK FALSE
