CONSTANTS
  Workers = {w1, w2}
  Cleaner = Cleaner
  Uploads = {u1}
  Files = {f1, f2}
  None = None
  Totals = {1}
  Requested <- AnyLimit
  Cap = 2
  SameDevice = FALSE
  OwnClient = FALSE
  MaxChunks = 1
  MaxServed = 2
  MaxCrashes = 1
SYMMETRY Symmetric
SPECIFICATION Spec
INVARIANTS TypeOK DownloadLimit SinglePublication
