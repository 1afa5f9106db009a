CONSTANTS
  f1 = f1
  f2 = f2
  Files = {f1, f2}
  Size <- TwoSizes
  ChunkSizes = {1, 2}
  Kinds = {"disk", "mem"}
  Window = 2
  AckCap = 2
  Faults = {"crash", "cancel", "disk"}
  MaxTries = 2
  None = None
  Torn = Torn
SPECIFICATION FairSpec
INVARIANTS TypeOK ResumeSound AcksInOrder
PROPERTIES Delivers LoopEnds Delivered
CHECK_DEADLOCK FALSE
