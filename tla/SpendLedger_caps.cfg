SPECIFICATION Spec
CONSTANTS
  N = 2
  Runs = {"r1", "r2"}
  Days = {"d1", "d2"}
  Calls <- MCCalls
  TotalCap = 3
  DayCap = 2
  RunCap = 2
  Overrun = 1
  ErrorsAreFree = TRUE
INVARIANTS SentIsBooked BooksBalance BilledWithinCaps
PROPERTY SettledNeverFalls
CHECK_DEADLOCK FALSE
