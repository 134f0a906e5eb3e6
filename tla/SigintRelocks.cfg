SPECIFICATION FairSpec
CONSTANTS
  MaxSignals = 1
  MaxSpurious = 0
  MaxErrors = 0
CHECK_DEADLOCK FALSE
PROPERTY SigintReturns
