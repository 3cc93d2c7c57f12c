\* The system may stop: nothing established, and nobody calls
SPECIFICATION Spec
CONSTANTS
  Conn = {"c1"}
  Endpoint = {"e1", "e2"}
  Node = {"e1", "e2", "nsmgr2"}
  Null = Null
  FwdNs = "fwd"
  SrcCls <- FromHere
  DstCls <- NseHere
  Url <- NodeOf
  ClientIf <- PodIf
  NseIf <- EndpointIf
  LinkName <- OwnName
  PeerName <- OwnPeerName
  MaxFaults = 3
INVARIANTS TypeOK OnePair NoStrays
CHECK_DEADLOCK FALSE
