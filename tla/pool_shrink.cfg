CONSTANTS
  c1 = c1  c2 = c2  Main = Main  Manager = Manager  NoOne = NoOne
  Callers = {c1}
  Min = 1
  Max = 3
  NumJobs = 3
  NumWorkers = 3
  Rounds = 1
  CanFail = FALSE
  DirtyHeap = FALSE
  Closes = FALSE
CHECK_DEADLOCK FALSE
SPECIFICATION Spec
INVARIANT TypeOK Counted
