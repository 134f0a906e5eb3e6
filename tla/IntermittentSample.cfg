SPECIFICATION FairSpec
CONSTANTS
  MaxSignals = 1
  MaxSpurious = 1
  MaxErrors = 1
PROPERTIES
  FlushAfterEos
  SampleEnds
CHECK_DEADLOCK FALSE
