CONSTANTS
  c1 = c1  c2 = c2  Main = Main  Manager = Manager  NoOne = NoOne
  Callers = {c1}
  Min = 1
  Max = 3
  NumJobs = 4
  NumWorkers = 3
  Rounds = 0
  CanFail = TRUE
  DirtyHeap = FALSE
  Closes = FALSE
CHECK_DEADLOCK FALSE
SPECIFICATION FairSpec
INVARIANT EverySlotServed
PROPERTY PoolSpec SignalledJobRuns
