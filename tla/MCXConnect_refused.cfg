\* The system may stop: nothing established, and nobody calls
SPECIFICATION Spec
CONSTANTS
  Conn = {"c1"}
  Endpoint = {"e1"}
  Node = {"e1", "e2", "nsmgr2"}
  Null = Null
  FwdNs = "fwd"
  SrcCls <- FromAfar
  DstCls <- NseHere
  Url <- NodeOf
  ClientIf <- PodIf
  NseIf <- EndpointIf
  LinkName <- OwnName
  PeerName <- OwnPeerName
  MaxFaults = 0
PROPERTY CleanupDeletes
CHECK_DEADLOCK FALSE
