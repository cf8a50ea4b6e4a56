SPECIFICATION SessionSpec
CONSTANTS None = None
          Capacity = 1
          Items = {1}
          SeqIds = {1}
          MaxDropped = 9
          DedupWindow = 1
          PongMatcher = FALSE
          MaxMsgs = 1
          MaxConns = 2
          MaxBeating = 2
PROPERTIES VerdictIsRight
CHECK_DEADLOCK FALSE
