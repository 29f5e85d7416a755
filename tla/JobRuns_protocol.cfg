SPECIFICATION FairSpec
CONSTANTS
  Execs = {e1, e2}
  MaxWork = 1
  SessionsDie = TRUE
INVARIANTS OneOpenRow ExitZeroIsRecorded FailureIsTold BodiesExclusive
PROPERTIES ImplementsRegistry LockIsReleased
CHECK_DEADLOCK FALSE
