CONSTANTS
  MaxPeers = 2
  MaxRequests = 2
  Kinds = {"file", "bytes"}
  Faults = {"leave", "exit", "close", "timeout", "read", "change", "disk", "full"}
  MaxFaults = 1
  None = None
SPECIFICATION FairSpec
INVARIANTS TypeOK Verified SavedWhenOK
PROPERTIES  HandedOver
CHECK_DEADLOCK FALSE
