SPECIFICATION BalanceSpec
CONSTANTS
  Inputs <- SmallInputs
  Partitions <- UpToThree
INVARIANTS
  EachItemOnce
  EvenStates
  WithinOneSequence
CHECK_DEADLOCK FALSE
