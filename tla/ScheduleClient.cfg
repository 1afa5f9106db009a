CONSTANTS
  Workers = {w1, w2}
  Cleaner = Cleaner
  Uploads = {u1}
  Files = {f1}
  None = None
  Totals = {1, 2}
  Requested <- FewLimits
  Cap = 0
  SameDevice = TRUE
  OwnClient = TRUE
  MaxChunks = 2
  MaxServed = 1
  MaxCrashes = 1
SPECIFICATION FairSpec
INVARIANTS ContentExact Kept DeletedGone
PROPERTIES Reclaimed
