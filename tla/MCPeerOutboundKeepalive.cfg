CONSTANTS
  Peers = {p, q}
  p = p
  q = q
  Capacity = 1
  Persistent = {p}
  None = None
SPECIFICATION Spec
PROPERTY TunServed
CHECK_DEADLOCK FALSE
