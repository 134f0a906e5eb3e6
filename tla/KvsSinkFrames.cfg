SPECIFICATION Spec
CONSTANTS
  a = a
  v = v
  Tracks = {a, v}
  HasDts = {}
  FileStarts = {3, 4}
  FrameDuration = 2
  Second = 2
  Latency = 1
  Epoch = 2
  MaxTime = 6
  Width = 64
INVARIANTS
  TracksInStep
  SessionsInOrder
PROPERTIES
  DtsGrows
CHECK_DEADLOCK FALSE
