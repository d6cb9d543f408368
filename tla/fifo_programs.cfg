CONSTANTS
  p1 = p1  p2 = p2  p3 = p3  w = w
  Proc = {p1, p2, p3, w}
  GLOBALFIFO_SIZE = 3
  Casts <- AllCasts
  MaxWrite = 2
  Chunk = 1
SPECIFICATION FairSpec
INVARIANT Inv SleepsOnlyIfRobbed
PROPERTY EveryWriteSignals DataIsAnnounced
CHECK_DEADLOCK FALSE
