CONSTANTS
  t1 = t1  t2 = t2  m1 = m1  m2 = m2
  Task = {t1, t2}
  First = m1
  Minors <- TwoMinors
SPECIFICATION Spec
INVARIANT Inv SafeOnceLoaded
CHECK_DEADLOCK FALSE
