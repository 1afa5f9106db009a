CONSTANTS
  Conns = {c1}
  Hub = Hub
  Codes = {k1}
  BadCode = BadCode
  Messages <- SessionMessages
  Events = {}
  MaxRequests = 1
  MaxFailedJoins = 5
  DefaultMaxPeers = 2
  MaxAllowedPeers = 3
  RegisterCap = 1
  UnregisterCap = 1
  InboundCap = 1
  SendBufSize = 2
SPECIFICATION Spec
INVARIANTS NoPanic
CHECK_DEADLOCK FALSE
