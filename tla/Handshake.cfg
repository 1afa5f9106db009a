CONSTANTS
  Creator = Creator
  MaxJoiners = 3
  MaxTargeted = 2
  Scenarios <- ScenariosSafe
  None = None
SPECIFICATION FairSpec
INVARIANTS TypeOK Authentic
PROPERTY Returns
CHECK_DEADLOCK FALSE
