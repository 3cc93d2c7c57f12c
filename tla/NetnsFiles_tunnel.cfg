\* The system may stop: no process is left
SPECIFICATION FairSpec
CONSTANTS
  Pid = {"p1", "p2", "p3"}
  Ns = {"n1", "n2"}
  None = None
  ClientNs = {"n1"}
  EndpointNs = {"n2"}
  Ends = {"src"}
  MaxFaults = 1
  MaxMoved = 1
INVARIANT TypeOK
PROPERTY Recovers
CHECK_DEADLOCK FALSE
