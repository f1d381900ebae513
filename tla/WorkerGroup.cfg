SPECIFICATION Spec
CONSTANTS
  Settings <- MCSettings
  Nodes <- ThreeNodes
  Gpus <- TwoGpus
  Polls = 2
  MaxJobs = 2
  MaxCalls = 1
  ValSizes <- SomeSizes
  None = None
INVARIANTS
  RanksStayOnTheirNodes
  OneRendezvous
  RowsComeBack
