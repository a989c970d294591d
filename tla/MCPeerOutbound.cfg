CONSTANTS
  Peers = {p, q}
  p = p
  q = q
  Capacity = 1
  Persistent = {p}
  None = None
SPECIFICATION Spec
PROPERTIES TunServedUnlessSelfWait ConfirmationStaged
CHECK_DEADLOCK FALSE
