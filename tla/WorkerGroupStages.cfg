SPECIFICATION Spec
CONSTANTS
  Settings <- StagesSettings
  Nodes <- ThreeNodes
  Gpus <- TwoGpus
  Polls = 1
  MaxJobs = 1
  MaxCalls = 1
  ValSizes <- SomeSizes
  None = None
INVARIANT GenerationKeepsTheOrder
