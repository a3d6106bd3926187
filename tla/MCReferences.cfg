SPECIFICATION FairSpec
CONSTANTS
  a = a
  b = b
  Id = {a, b}
  Part <- Parts
  None = None
  Nonlocal = Nonlocal
  Empty = Empty
  BadEscape = BadEscape
  MaxComponents = 4
  MaxReferences = 2
  MaxDepth = 3
  MaxSteps = 5
INVARIANT TypeOK
INVARIANT VerdictIsFirstFault
PROPERTY Terminates
CHECK_DEADLOCK FALSE
