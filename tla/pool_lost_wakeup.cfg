CONSTANTS
  c1 = c1  c2 = c2  Main = Main  Manager = Manager  NoOne = NoOne
  Callers = {c1}
  Min = 1
  Max = 1
  NumJobs = 1
  NumWorkers = 1
  Rounds = 0
  CanFail = FALSE
  DirtyHeap = FALSE
  Closes = FALSE
CHECK_DEADLOCK FALSE
SPECIFICATION FairSpec
PROPERTY EveryJobRuns
