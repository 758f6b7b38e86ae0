\* A put that loses the race against the sentinels of shutdown().
SPECIFICATION EndingSpec
CONSTANTS
  Job = {j1}
  Thread = {t1}
  Workers = 1
  MaxQueue = 0
  Ttl = 1
  MaxTime = 0
  MaxFatal = 0
  None = None
PROPERTY SubmittedJobsEnd
CHECK_DEADLOCK FALSE
