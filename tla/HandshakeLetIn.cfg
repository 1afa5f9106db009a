CONSTANTS
  Creator = Creator
  MaxJoiners = 1
  MaxTargeted = 2
  Scenarios <- ScenariosOne
  None = None
SPECIFICATION Spec
INVARIANT LetIn
CHECK_DEADLOCK FALSE
