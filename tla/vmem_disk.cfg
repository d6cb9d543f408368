CONSTANTS
  w = w  r = r  u = u  v = v  pc = pc  a1 = a1  a2 = a2
  NDEVICES = 2
  NSECTORS = 5
  Addr = {a1, a2}
  NULL = NULL
  Junk = Junk
  Bio = {w, r, u, v, pc}
  io <- Io
SPECIFICATION FairSpec
INVARIANT Inv HarmOnlyFrom
PROPERTY SectorSpec EverythingEnds
CHECK_DEADLOCK FALSE
