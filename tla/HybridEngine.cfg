CONSTANT Settings <- MCSettings
SPECIFICATION Spec
INVARIANTS
  GeneratesWithTheTrainedWeights
  RandomStreamsApart
  ComputesInItsPlace
  GenerationHasTheMemory
  RowsComeHome
  SampledAsAsked
