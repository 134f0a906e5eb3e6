SPECIFICATION Spec
CONSTANTS
  a = a
  v = v
  Tracks = {a, v}
  HasDts = {v}
  FileStarts = {3, 4}
  FrameDuration = 2
  Second = 2
  Latency = 1
  Epoch = 2
  MaxTime = 6
  Width = 64
CHECK_DEADLOCK FALSE
PROPERTY DtsMonotonic
