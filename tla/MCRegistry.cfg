CONSTANTS
  None = None
  Keys = {a, b}
  Conns = {c1, c2, c3}
  Requests = {"enter", "leave", "forward", "config", "endpoint", "complete", "other"}
  TokenLogin = TRUE
  Protos = {"NatUdp"}
  Default = "NatUdp"
  Size = 4
  Queue = 1
  MaxRequests = 3
SPECIFICATION MCSpec
SYMMETRY Symmetry
INVARIANTS OnlineIsAlive SoleStaysOnline SomeoneKnows NoGhost AddressesAreOwn
PROPERTY NoSilentLoss
CHECK_DEADLOCK FALSE
