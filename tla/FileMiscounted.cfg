SPECIFICATION Spec
CONSTANTS
  Files = 3
  Retries = 3
  MaxSignals = 2
INVARIANT CountedFilesSent
