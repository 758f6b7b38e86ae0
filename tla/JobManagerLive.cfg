\* Encodes end only when they are cancelled, or by themselves for the first of
\* the properties; the worker may die.  One thread, so the manager lives once:
\* what a worker of an earlier life does is checked by JobManagerOneWorker.cfg.
\* No symmetry: the properties are liveness.
SPECIFICATION FairSpec
CONSTANTS
  Job = {j1, j2}
  Thread = {t1}
  Workers = 1
  MaxQueue = 0
  Ttl = 1
  MaxTime = 0
  MaxFatal = 1
  None = None
PROPERTIES AcceptedJobsEnd DeletedJobsEnd WorkersExit
\* Once it is shut down the process has nothing left to do.
CHECK_DEADLOCK FALSE
