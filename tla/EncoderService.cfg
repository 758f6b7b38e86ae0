\* One job, one worker; HandBrake stalls, ends or is killed, and prints nothing.
\* The staging file may be replaced by a link to the source.
SPECIFICATION ServiceSpec
CONSTANTS
  TheJob = j1
  TheThread = t1
  Lines = 0
  PipeSize = 1
  None = None
  Replacements = {"link to source"}
INVARIANTS
  TypeOK PublishedIsWhole ReplacementIsRefused CleansUp SourceSurvives
  StatusIsTrue
PROPERTIES ImplementsManager CancelKillsHandBrake
\* The service stops when it was shut down or has died.
CHECK_DEADLOCK FALSE
