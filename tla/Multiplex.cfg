SPECIFICATION MuxSpec
CONSTANTS Channels = {"trades", "depth"}
          QueueSize = 2
          MaxSubs = 2
          MaxMsgs = 3
INVARIANTS QueueHoldsNewest
PROPERTIES ConsumerEnds
CHECK_DEADLOCK FALSE
