SPECIFICATION FairSpec
CONSTANTS
  r1 = r1
  r2 = r2
  r3 = r3
  Startup = Startup
  None = None
  Request = {r1, r2, r3}
  MaxConnections = 2
INVARIANT CleanExit
INVARIANT PoolOutlivesRequests
PROPERTY StopsInTime
PROPERTY StartupEnds
PROPERTY CapacityReturns
CHECK_DEADLOCK FALSE
