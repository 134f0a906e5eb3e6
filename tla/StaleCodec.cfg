SPECIFICATION Spec
CONSTANTS
  Pads = {p1, p2, p3}
  Blocks = {b1, b2, b3}
  Free = Free
  TotalRetry = 4
  VideoCaps = {"h264", "h265"}
  AudioCaps = {"aac", "pcm"}
  NoCaps = NoCaps
SYMMETRY Symm
CHECK_DEADLOCK FALSE
INVARIANT H264HasDefaultCodec
