CONSTANTS
  MAX_REPLAY_SIZE = 4
  REJECT_AFTER_MESSAGES = 11
  U64_MAX = 16
  Keepalives = {2}
SPECIFICATION Spec
INVARIANT FreshCounterAccepted
CHECK_DEADLOCK FALSE
