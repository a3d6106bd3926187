SPECIFICATION FairSpec
CONSTANTS
  p1 = p1
  d1 = d1
  d2 = d2
  d3 = d3
  None = None
  Proc = {p1}
  Denial = {d1, d2, d3}
  Owner <- AllInOne
  MaxRecords = 1
  MaxPerWindow = 1
  Window = 1
  MaxTime = 1
  MaxRestarts = 1
  ClockFaults = {None}
INVARIANT RowCap
INVARIANT RateBounded
INVARIANT CountsAreTrue
PROPERTY LockEnds
CHECK_DEADLOCK FALSE
