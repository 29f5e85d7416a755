SPECIFICATION FileSpec
CONSTANTS
  Count = 2
  WorstCost = 2
  Cap = 5
  MaxFiles = 2
  MaxDamages = 2
PROPERTIES LossIsCarried OperatorCanResume
CHECK_DEADLOCK FALSE
