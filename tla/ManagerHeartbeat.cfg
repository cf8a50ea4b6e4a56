SPECIFICATION FairSpec
CONSTANTS
  Reconnect = TRUE
  Timer = "heartbeat"
  Replays = TRUE
  MaxAttempts = 1
  MaxConns = 3
  DialErrors = {"refused"}
  Closers = {"k1"}
PROPERTIES DeadConnectionNoticed
CHECK_DEADLOCK FALSE
