SPECIFICATION FairSpec
CONSTANTS
  Items <- MCItems
  Outputs <- MCOutputs
  ItemOf <- MCItemOf
  Relabel <- MCRelabel
  Converted <- MCConverted
  MaxAsks = 2
  MaxInterruptions = 1
INVARIANTS CoverageFitsFacts SettingsAreConfirmed
PROPERTY EveryDraftIsSettled
CHECK_DEADLOCK FALSE
