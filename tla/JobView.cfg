\* Estimates age by one tick and the clock shows three times.
SPECIFICATION Spec
CONSTANTS
  EtaMaxAge = 1
  MaxTime = 2
  None = None
INVARIANT TerminalReplyIsComplete
\* After its last write the worker is done with the job.
CHECK_DEADLOCK FALSE
