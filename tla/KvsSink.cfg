SPECIFICATION FairSpec
CONSTANTS
  MaxStreams = 2
  Tracks = {video, audio}
  PcmTracks = {audio}
  NoTrack = NoTrack
  TotalRetry = 4
INVARIANTS
  StreamUsable
  OneLiveStream
  NoPutAfterStop
  CpdReachesFirstStream
PROPERTIES
  OfflineErrorSticks
  StateChangeReturns
CHECK_DEADLOCK FALSE
