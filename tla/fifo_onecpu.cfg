CONSTANTS
  r1 = r1  w1 = w1  w2 = w2  c1 = c1  p1 = p1  p2 = p2
  NoTask = NoTask  z = z  a = a
  Readers = {r1,p1}
  Writers = {w1}
  Clearers = {c1}
  Pollers = {p1}
  Epollers = {p1}
  OutPollers = {}
  Nonblock = {w1,p1}
  Asyncers = {}
  Signalled = {p1}
  Byte = {z}
  Zero = z
  Size = 1
  MaxCount = 1
  Smp = FALSE
SPECIFICATION FairSpec
PROPERTY TimeoutMeansNoData MutexReleased DataWakesReader
