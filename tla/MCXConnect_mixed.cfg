\* The system may stop: nothing established, and nobody calls
SPECIFICATION FairSpec
CONSTANTS
  Conn = {"c1"}
  Endpoint = {"e1", "e3"}
  Node = {"e1", "e2", "nsmgr2"}
  Null = Null
  FwdNs = "fwd"
  SrcCls <- FromHere
  DstCls <- NseBoth
  Url <- NodeOf
  ClientIf <- PodIf
  NseIf <- EndpointIf
  LinkName <- OwnName
  PeerName <- OwnPeerName
  MaxFaults = 3
INVARIANTS NoLeak Bookkept
PROPERTIES SessionsKnown CallsReturn CallsAdvance CloseReclaims
CHECK_DEADLOCK FALSE
