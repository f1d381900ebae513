SPECIFICATION Spec
CONSTANTS
  BatchSize = 2
  Settings <- OnlyReuse
INVARIANT PilotsCountTowardsTheBudget
CHECK_DEADLOCK FALSE
