SPECIFICATION FileSpec
CONSTANTS
  Count = 3
  WorstCost = 2
  Cap = 5
  MaxFiles = 1
  MaxDamages = 1
PROPERTY SpendingIsProven
CHECK_DEADLOCK FALSE
