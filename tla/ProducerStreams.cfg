SPECIFICATION FairSpec
CONSTANTS
  t1 = t1   t2 = t2
  s1 = s1   s2 = s2   s3 = s3
  h1 = h1   h2 = h2
  NoStream = NoStream   Invalid = Invalid
  Threads = {t1, t2}   Streams = {s1, s2, s3}   Handles = {h1, h2}
CHECK_DEADLOCK FALSE
INVARIANTS
  FreesOwnStream
  CallsReachOwnStream
  TrackedWhileLive
  NoNullDeref
PROPERTIES
  RegistrySpec
  FreeStreamsReturns
