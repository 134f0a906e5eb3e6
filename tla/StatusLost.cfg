SPECIFICATION Spec
CONSTANTS
  MaxStreams = 2
  Tracks = {video, audio}
  PcmTracks = {audio}
  NoTrack = NoTrack
  TotalRetry = 4
INVARIANT StatusOfStream
CHECK_DEADLOCK FALSE
