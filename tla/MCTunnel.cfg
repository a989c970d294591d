CONSTANTS
  None = None
  a = a
  b = b
  c = c
  Nodes = {a, b, c}
  Online <- AllOnline
  Traffic = {"data", "empty"}
  MaxRestarts = 1
  MaxIndex = 3
  MaxNonce = 2
  SendMayFail = TRUE
  Window = 1
  InboundCap = 1
  OutboundCap = 1
SPECIFICATION MCSpec
INVARIANTS NoNonceReuse CurrentIsConfirmed IndexExact PacketFindsItsSession
PROPERTIES CurrentMovesForward ImplementsChannel
CHECK_DEADLOCK FALSE
