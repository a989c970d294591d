CONSTANTS
  Nodes <- MCNodes
  Setups <- MCSetups
  MaxStreams = 3
  MaxQueue = 1
SPECIFICATION MCSpec
INVARIANTS OneStream
PROPERTIES ClearsNoNewer HealsOnceDialled
CHECK_DEADLOCK FALSE
