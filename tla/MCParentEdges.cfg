SPECIFICATION Spec
CONSTANTS
  s1 = s1
  s2 = s2
  s3 = s3
  t1 = t1
  t2 = t2
  None = None
  System = {s1, s2, s3}
  Txn = {t1, t2}
SYMMETRY Symmetric
INVARIANT NoCycle
INVARIANT ChecksAreCurrent
INVARIANT CheckIsExact
