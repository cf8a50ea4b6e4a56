SPECIFICATION PoolSpec
CONSTANTS Users = {u1, u2}
          u1 = u1
          u2 = u2
          Uris = {"a"}
          MaxConnections = 2
          Closers = {k1, k2}
          k1 = k1
          k2 = k2
          MaxConns = 3
INVARIANTS PermitsAccounted Exclusive NothingLeaks NothingIdleOnceClosed
PROPERTIES PoolCloseReturns
CHECK_DEADLOCK FALSE
