SPECIFICATION SyncSpec
CONSTANTS Consumers = {c1, c2}
          c1 = c1
          c2 = c2
          Senders = {s1}
          s1 = s1
          Handlers = {h1}
          h1 = h1
          RecursionLimit = 2
          MaxConnects = 2
          MaxMsgs = 2
INVARIANTS MessagesKept HandlersKept
PROPERTIES CallersReleased
CHECK_DEADLOCK FALSE
