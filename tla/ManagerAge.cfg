SPECIFICATION Spec
CONSTANTS
  Reconnect = TRUE
  Timer = "age"
  Replays = FALSE
  MaxAttempts = 2
  MaxConns = 3
  DialErrors = {"refused", "raw"}
  Closers = {"k1"}
 
PROPERTIES NoDialAfterClose
CHECK_DEADLOCK FALSE
