\* The system may stop: nothing established, and nobody calls
SPECIFICATION Spec
CONSTANTS
  Conn = {"c1", "c2"}
  Endpoint = {"e1"}
  Node = {"e1", "e2", "nsmgr2"}
  Null = Null
  FwdNs = "fwd"
  SrcCls <- FromBoth
  DstCls <- NseHere
  Url <- NodeOf
  ClientIf <- PodIf
  NseIf <- EndpointIf
  LinkName <- OwnName
  PeerName <- OwnPeerName
  MaxFaults = 1
INVARIANT NoLeak
PROPERTIES Isolation Serialised
CHECK_DEADLOCK FALSE
