\* Two workers at once, and jobs that age: the clock ticks past the TTL while
\* sweep() and the workers are anywhere.
SPECIFICATION Spec
CONSTANTS
  Job = {j1, j2}
  Thread = {t1, t2}
  Workers = 2
  MaxQueue = 1
  Ttl = 1
  MaxTime = 2
  MaxFatal = 1
  None = None
SYMMETRY Symmetry
INVARIANT TerminalIsComplete
PROPERTIES SingleWriter EvictedOnlyWhenOld ImplementsLifecycle
\* Once it is shut down the process has nothing left to do.
CHECK_DEADLOCK FALSE
