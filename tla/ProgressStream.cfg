SPECIFICATION Spec
CONSTANTS
  MaxBuffer = 26
  MaxNoise = 1
  Messages = {"final", "early", "unknown", "version"}
  None = None
INVARIANTS LossIsBounded EtaIsCurrent
PROPERTY EveryObjectFound
