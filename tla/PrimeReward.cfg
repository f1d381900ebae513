SPECIFICATION PrimeSpec
CONSTANTS
  NumRows = 3
  Processes = 1
INVARIANTS
  EachRowItsOwnScore
PROPERTIES
  EveryRowGetsAResult
  ReturnsIfEveryCallEnds
CHECK_DEADLOCK FALSE
