\* The system may stop: no process is left
SPECIFICATION Spec
CONSTANTS
  Pid = {"p1", "p2", "p3"}
  Ns = {"n1", "n2"}
  None = None
  ClientNs = {"n1"}
  EndpointNs = {"n1", "n2"}
  Ends = {"src", "dst"}
  MaxFaults = 1
  MaxMoved = 0
INVARIANT NoLeak
PROPERTY RightNamespace
CHECK_DEADLOCK FALSE
