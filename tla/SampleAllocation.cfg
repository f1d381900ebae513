SPECIFICATION Spec
CONSTANTS
  World = 3
  MaxPrompts = 4
  Pilots = 2
  Norms <- TwoNorms
  Discount <- TwoPilots
  Budgets <- SmallBudgets
INVARIANTS
  
  
  PilotsFollowThePrompt
CHECK_DEADLOCK FALSE
