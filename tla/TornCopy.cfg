SPECIFICATION Spec
CONSTANTS
  t1 = t1
  t2 = t2
  s1 = s1
  s2 = s2
  h1 = h1
  h2 = h2
  NoStream = NoStream
  Invalid = Invalid
  Threads = {t1, t2}
  Streams = {s1, s2}
  Handles = {h1, h2}
SYMMETRY Symmetric
CHECK_DEADLOCK FALSE
INVARIANTS
  MapIsThreadSafe
