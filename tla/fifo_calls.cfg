CONSTANTS
  r1 = r1  w1 = w1  w2 = w2  c1 = c1  p1 = p1  p2 = p2
  NoTask = NoTask  z = z  a = a
  Readers = {w1,w2}
  Writers = {w1,w2}
  Clearers = {c1}
  Pollers = {}
  Epollers = {}
  OutPollers = {}
  Nonblock = {w2}
  Asyncers = {}
  Signalled = {w1}
  Byte = {z,a}
  Zero = z
  Size = 2
  MaxCount = 2
  Smp = FALSE
SPECIFICATION Spec
INVARIANT TypeOK NoMissedWriter
PROPERTY QueueSpec
