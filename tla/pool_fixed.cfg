CONSTANTS
  c1 = c1  c2 = c2  Main = Main  Manager = Manager  NoOne = NoOne
  Callers = {c1,c2}
  Min = 2
  Max = 2
  NumJobs = 3
  NumWorkers = 2
  Rounds = 0
  CanFail = FALSE
  DirtyHeap = TRUE
  Closes = TRUE
CHECK_DEADLOCK FALSE
SPECIFICATION FairSpec
INVARIANT SlotExclusive WholeJobs
PROPERTY PoolSpec CallsReturn
