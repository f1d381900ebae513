SPECIFICATION Spec
CONSTANTS
  BatchSize = 2
  Settings <- Everything
INVARIANTS
  RowsStayTogether
  EveryRolloutOnce
  BatchGetsThrough
  EveryPromptCountsOnce
CHECK_DEADLOCK FALSE
