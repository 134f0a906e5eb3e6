SPECIFICATION FairSpec
CONSTANTS
  Files <- TwoFiles
  LiveSamples <- Live
  Retries = 3
  ProducerStartTime = 10
  TicksPerMs = 2
  MaxErrors = 2
CHECK_DEADLOCK FALSE
PROPERTY ControlReturns
