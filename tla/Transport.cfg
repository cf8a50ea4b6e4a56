SPECIFICATION TransportSpec
CONSTANTS Senders = {s1, s2}
          s1 = s1
          s2 = s2
          MaxAddrs = 2
          MaxFrames = 4
INVARIANTS InOrder OneCloseFrame
PROPERTIES TransportCallsEnd WaitingReaderReturns BlockedSenderGoesOn
CHECK_DEADLOCK FALSE
