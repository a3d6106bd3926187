SPECIFICATION RetrySpec
CONSTANTS
  r1 = r1
  r2 = r2
  r3 = r3
  r4 = r4
  k1 = k1
  u1 = u1
  u2 = u2
  u3 = u3
  a1 = a1
  a2 = a2
  p1 = p1
  None = None
  Keys = {k1}
  Uids = {u1, u2, u3}
  Aliases = {a1, a2}
  Payloads = {p1}
  Retentions = {2}
  Request = {r1, r2, r3}
  Inputs <- RetryInputs
  MaxClock = 4
  ClockMaySlip = TRUE
SYMMETRY Symmetric
INVARIANT AcceptedEvidence
INVARIANT AnswersAreTrue
INVARIANT OneLiveCreation
PROPERTY WritesAreAtomic
PROPERTY RetryNotRefused
CHECK_DEADLOCK FALSE
