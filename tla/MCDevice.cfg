CONSTANTS
  HostPorts <- MCPorts
  Retries = 3
  Peers <- MCPeers
  Capacity = 1
  PeerCapacity = 1
  MaxData = 3
SPECIFICATION MCSpec
INVARIANT OnePort
 
CHECK_DEADLOCK FALSE
