CONSTANTS
  Ports <- MCPorts
  InnerPorts = {1}
  Seen <- AnyPort
  Duration = 4
  MaxAnswers = 2
  MaxFaults = 2
  Addrs <- MCPorts
  MaxAddrs = 2
  BusSize = 2
  MaxNoise = 1
  MaxLinks = 2
SPECIFICATION MCSpec
INVARIANTS Kept NothingLeftBehind
PROPERTIES MappingFollowsTransport 
CHECK_DEADLOCK FALSE
