\* Two lines through a pipe of one: the child can block.
SPECIFICATION FairSpec
CONSTANTS
  Lines = 2
  PipeSize = 1
INVARIANTS TypeOK CleanExitIsKept NoOrphan AbortKeepsItsCause
PROPERTIES CancelledReturns EncodeReturns
\* After run_encode has returned nothing more happens.
CHECK_DEADLOCK FALSE
