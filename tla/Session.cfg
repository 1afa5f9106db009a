CONSTANTS
  Initiator = Initiator
  Joiners = {j1, j2}
  MaxEvents = 2
  None = None
SYMMETRY Symmetric
SPECIFICATION Spec
INVARIANTS TypeOK RelayedOnce RosterCurrent ClosedForAll
CHECK_DEADLOCK FALSE
