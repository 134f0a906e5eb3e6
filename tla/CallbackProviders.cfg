SPECIFICATION Spec
CONSTANTS
  t1 = t1
  t2 = t2
  Threads <- MCThreads
  Raised <- MCRaised
  MaxRaises = 2
INVARIANTS
  CallbacksReachLiveObjects
  NothingLeftBehind
PROPERTIES
  DeleteEnds
