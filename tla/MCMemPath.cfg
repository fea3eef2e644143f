SPECIFICATION Spec
CONSTANTS
  Requestors = {"cpu", "cache"}
  Packets <- MCPackets
  SrcOf <- MCSrcOf
  AddrOf <- MCAddrOf
  PortOf <- MCPortOf
  NeedsResponse <- MCNeedsResponse
  RespLatency <- MCRespLatency
  ReqQueueLimit = 1
  RespQueueLimit = 1
  NULL = NULL
INVARIANTS
  AssertsHold
  NoLostRetry
  NothingLostOrDuplicated
PROPERTIES
  SameAddressInOrder
  BlockedGetsThrough
  AcceptedIsAnswered
