SPECIFICATION Spec
CONSTANTS
  r1 = r1
  r2 = r2
  r3 = r3
  c1 = c1
  c2 = c2
  A = A
  B = B
  k1 = k1
  p1 = p1
  p2 = p2
  None = None
  Call = {r1, r2}
  Caller = {c1, c2}
  Named = {c1}
  Sources = {A, B}
  Keys = {k1}
  Payloads = {p1, p2}
  Policies <- RetryPolicies
  Inputs <- RetryInputs
  Connections = 2
  MaxRevisions = 2
SYMMETRY Symmetric
INVARIANT ReplayIsReauthorized
CHECK_DEADLOCK FALSE
