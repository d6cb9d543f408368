CONSTANTS
  c1 = c1  c2 = c2  c3 = c3
  Client = {c1, c2, c3}
  MaxIn <- Ahead
  Quiet = {c3}
  Window = 1
  FD_SETSIZE = 6
  Limits = {6, 7}
  Wild = 4
  ProcLimit = 2
SPECIFICATION FairSpec
INVARIANT Inv EndsOnlyBy
PROPERTY EveryClientServed EveryClientReleased
CHECK_DEADLOCK FALSE
