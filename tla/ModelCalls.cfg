CONSTANTS
  Settings <- MCSettings
  Batches <- MCBatches
  Width = 5
  ResponseLength = 2
  Unit = 144
SPECIFICATION Spec
INVARIANTS
  ResultsAreTheRowsOwn
  StepsWeighRowsEvenly
  RaisesOnlyIfRowsDoNotFit
