SPECIFICATION FairSpec
CONSTANTS
  MaxSignals = 0
  MaxSpurious = 0
  MaxErrors = 0
CHECK_DEADLOCK FALSE
PROPERTY DurationEnds
