SPECIFICATION FairSpec
CONSTANTS
  NIter = 2
  NGpu = 3
  NSteps = 4
  EmptyBatches = {{}, {2}, {2, 3, 4}}
  SaveFreq = 2
  Reuse = TRUE
  MaxKills = 2
  MaxFails = 1
INVARIANTS
  OnPolicy
  BudgetCoversAllShards
  TrackerNamesCompleteCheckpoint
  DoneNamesTheLastSave
PROPERTIES
  CompletedIterationsFrozen
  ResubmitFinishesUnlessWedged
CHECK_DEADLOCK FALSE
