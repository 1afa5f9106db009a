CONSTANTS
  b1 = b1
  b2 = b2
  c1 = c1
  c2 = c2
  c3 = c3
  Brokers = {b1, b2}
  Conns = {c1, c2, c3}
  Codes = {k1}
  None = None
  Home <- MCHome
  TTL = 2
  DefaultTTL = 2
  MaxAttempts = 2
  MaxFaults = 1
  DefaultMaxPeers = 2
  MaxAllowedPeers = 3
SPECIFICATION FairSpec
INVARIANTS TypeOK NoDangling CodeKept
PROPERTIES Reaped
CHECK_DEADLOCK FALSE
