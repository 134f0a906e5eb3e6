SPECIFICATION Spec
CONSTANTS
  t1 = t1
  t2 = t2
  b1 = b1
  b2 = b2
  NoThread = NoThread
  Null = Null
  Threads = {t1, t2}
  Buffers = {b1, b2}
  Periods <- MCPeriods
  GracePeriod = 2
  NanosInSecond = 4
  HundredNanosInSecond = 2
  Width = 64
  MaxTime = 2
INVARIANTS
  NoTornCredentials
  FreshOrJustFetched
  NoNeedlessFetch
  TokenFreedOnce
  PicReadsOwnToken
  NoTokenLeak
  TokensComplete
