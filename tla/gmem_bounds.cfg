CONSTANTS
  t1 = t1  t2 = t2  t3 = t3  f1 = f1  f2 = f2
  Task = {t1, t2, t3}
  File = {f1, f2}
  FileOf <- Sharing
  Size = 2
  Offset <- Offsets
  MaxCount = 3
  Uint = 4
  MaxReads = 1
  Far = 4
SPECIFICATION Spec
INVARIANT TypeOK InBounds PosInRange OwnersBounded FreeWhenIdle
SYMMETRY Symmetry
CHECK_DEADLOCK FALSE
