SPECIFICATION Spec
CONSTANT Settings <- MCSettings
INVARIANTS
  RanksHoldWholeNeurons
  NothingIsLost
  ExportIsTheModel
PROPERTIES
  EveryRankFinishes
