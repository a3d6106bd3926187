SPECIFICATION Spec
CONSTANTS
  c1 = c1
  c2 = c2
  k1 = k1
  k2 = k2
  None = None
  Call = {c1, c2}
  Kid = {k1, k2}
  Ttl = 2
  Interval = 1
  MaxTime = 4
  Walls = {0}
  Exps = {1}
  ClockMayFail = TRUE
SYMMETRY Symmetric
INVARIANT OneFetch
PROPERTY TrustIsBounded
PROPERTY FetchesAreSpaced
PROPERTY InvalidIsHonest
PROPERTY NeverNewlyFresh
PROPERTY TrustIsKept
