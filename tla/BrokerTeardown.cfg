CONSTANTS
  Conns = {c1, c2}
  Hub = Hub
  Codes = {k1, k2}
  BadCode = BadCode
  Messages <- ErrorMessages
  Events = {"badjson", "pong", "writefail"}
  MaxRequests = 1
  MaxFailedJoins = 1
  DefaultMaxPeers = 2
  MaxAllowedPeers = 3
  RegisterCap = 1
  UnregisterCap = 1
  InboundCap = 1
  SendBufSize = 1
SPECIFICATION FairSpec
INVARIANTS TypeOK RelayIsolation
PROPERTIES TornDown
CHECK_DEADLOCK FALSE
