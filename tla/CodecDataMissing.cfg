SPECIFICATION Spec
CONSTANTS
  MaxStreams = 2
  Tracks = {video, audio}
  PcmTracks = {audio}
  NoTrack = NoTrack
  TotalRetry = 4
CHECK_DEADLOCK FALSE
INVARIANT CpdReachesStream
