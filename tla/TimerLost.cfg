SPECIFICATION Spec
CONSTANTS
  Files = 1
  Retries = 3
  MaxSignals = 0
PROPERTIES
  RuntimeEnds
