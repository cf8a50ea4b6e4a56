SPECIFICATION SessionSpec
CONSTANTS None = None
          Capacity = 1
          Items = {1, 2}
          SeqIds = {1, 2}
          MaxDropped = 9
          DedupWindow = 1
          PongMatcher = TRUE
          MaxMsgs = 2
          MaxConns = 3
          MaxBeating = 2
INVARIANTS ReplayMissesNothing AppInOrder EchoedOnce
PROPERTIES VerdictIsRight ReplayEnds
CHECK_DEADLOCK FALSE
