\* The child stalls with its stdout open.
SPECIFICATION TimeoutSpec
CONSTANTS
  Lines = 2
  PipeSize = 1
PROPERTY StalledReturns
CHECK_DEADLOCK FALSE
