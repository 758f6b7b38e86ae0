\* One client and the startup thread; the caches are reset once.
SPECIFICATION AdmissionSpec
CONSTANTS
  Key = {"encoders", "x264"}
  Caller = {caller, starter}
  Client = caller
  Starter = starter
  MaxResets = 1
  MaxBytes = 1
  MaxSize = 2
  NoLength = NoLength
  None = None
  Real <- Reals
  File <- Files
INVARIANTS
  AdmissionTypeOK
  NoStaleAnswer BodyWithinLimit WholeIsComplete FittingIsServed
  AcceptedIsRunnable EncodedIsInside PresetIsFirstLeaf
  RefusedLeavesNoJob RefusalsAreTrue
