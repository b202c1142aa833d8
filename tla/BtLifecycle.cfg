CONSTANTS
  EarlySuspendOS = FALSE
  PinReliable = FALSE
  BusyPowerOn = TRUE
  BoundFaults = FALSE
  MaxFaults = 0
  LateRetries = 1
SPECIFICATION Spec
INVARIANT TypeOK
INVARIANT ResetMonitored
INVARIANT DumpEnds
INVARIANT SuspendCounted
INVARIANT UrbsMarked
INVARIANT Serving
INVARIANT StackTold
INVARIANT Stirring
PROPERTY DumpWatched
CHECK_DEADLOCK FALSE
