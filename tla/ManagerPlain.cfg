SPECIFICATION FairSpec
CONSTANTS
  Reconnect = TRUE
  Timer = "none"
  Replays = TRUE
  MaxAttempts = 2
  MaxConns = 4
  DialErrors = {"refused"}
  Closers = {"k1", "k2"}
INVARIANTS TypeOK SomeoneReconnects OneTaskInCharge
PROPERTIES NoDialAfterClose TerminalIsFinal CloseReturns ReconnectSettles
CHECK_DEADLOCK FALSE
