CONSTANTS
  Clients = {"c"}
  Servers = {"s", "t"}
  MaxKeys = 3
  MaxLinks = 2
  MaxTurns = 3
  BusSize = 1
  CtrlSize = 1
SPECIFICATION MCSpec
INVARIANTS  FlagIsTrue LinkIsOwn
PROPERTIES RefusedOnlyByGhost EventuallyJoins
CHECK_DEADLOCK FALSE
