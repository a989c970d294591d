CONSTANTS
  Requests <- MCRequests
  MaxConns = 2
  QueueSize = 2
  MaxPackets = 2
SPECIFICATION Spec
INVARIANT OneConnection
PROPERTIES  EveryRequestServed
CHECK_DEADLOCK FALSE
