CONSTANTS
  EarlySuspendOS = TRUE
  PinReliable = FALSE
  BusyPowerOn = TRUE
  BoundFaults = TRUE
  MaxFaults = 3
  LateRetries = 1
SPECIFICATION Spec
INVARIANT DumpEnds
CHECK_DEADLOCK FALSE
