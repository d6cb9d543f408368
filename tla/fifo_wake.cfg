CONSTANTS
  r1 = r1  w1 = w1  w2 = w2  c1 = c1  p1 = p1  p2 = p2
  NoTask = NoTask  z = z  a = a
  Readers = {r1}
  Writers = {w1}
  Clearers = {}
  Pollers = {p1,p2}
  Epollers = {p1}
  OutPollers = {p2}
  Nonblock = {}
  Asyncers = {r1}
  Signalled = {}
  Byte = {z}
  Zero = z
  Size = 1
  MaxCount = 1
  Smp = TRUE
SPECIFICATION Spec
INVARIANT MutexHeldInside NoMissedReader NoMissedPoller NoStaleEntry NoAsyncClosedFile NoMissedWriter
