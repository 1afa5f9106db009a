CONSTANTS
  Conns = {c1, c2, c3}
  Hub = Hub
  Codes = {k1, k2}
  BadCode = BadCode
  Messages <- SessionMessages
  Events = {"ttl"}
  MaxRequests = 1
  MaxFailedJoins = 5
  DefaultMaxPeers = 2
  MaxAllowedPeers = 3
  RegisterCap = 2
  UnregisterCap = 2
  InboundCap = 1
  SendBufSize = 1
SYMMETRY Symmetric
SPECIFICATION Spec
INVARIANTS CodeIndex SlotShape RoutesToOpen NoGhostMember
PROPERTIES FullIsForever
CHECK_DEADLOCK FALSE
