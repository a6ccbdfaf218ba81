SPECIFICATION Spec
CONSTANTS
  Conns = {c1, c2}
  MaxRequests = 2
  NoReq = NoReq
  Running = Running
INVARIANTS
  GracefulExitDrained
PROPERTIES
  RequestsFinish
  GracefulEnds
  SignalsHeeded
CHECK_DEADLOCK FALSE
