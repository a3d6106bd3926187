SPECIFICATION FairSpec
CONSTANTS
  c1 = c1
  c2 = c2
  k1 = k1
  k2 = k2
  None = None
  Call = {c1, c2}
  Kid = {k1}
  Ttl = 2
  Interval = 1
  MaxTime = 3
  Walls = {0, 1, None}
  Exps = {1}
  ClockMayFail = FALSE
PROPERTY BusyEnds
