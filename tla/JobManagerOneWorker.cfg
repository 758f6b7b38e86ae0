\* The default deployment: one worker, here with a restart and a backlog of one.
SPECIFICATION Spec
CONSTANTS
  Job = {j1, j2, j3}
  Thread = {t1, t2}
  Workers = 1
  MaxQueue = 1
  Ttl = 1
  MaxTime = 0
  MaxFatal = 1
  None = None
SYMMETRY Symmetry
INVARIANTS TypeOK PendingCountsWaiting ShutdownReachesEveryJob NoJobLost EncodesWithinWorkers
\* Once it is shut down the process has nothing left to do.
CHECK_DEADLOCK FALSE
