SPECIFICATION FairSpec
CONSTANTS
  Ranks = {r1, r2}
  UseCritic = TRUE
  NBatches = 5
  EmptyChoices <- NoneOrSecond
  SaveFreq = 2
  MaxKeep = 2
  MaxCrashes = 2
INVARIANTS
  RanksAgree
  TrackedCheckpointLoadable
  BoundedLoss
PROPERTIES
  ImplementsDurableTraining
  RestartedRunFinishes
CHECK_DEADLOCK FALSE
