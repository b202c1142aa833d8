CONSTANTS
  EarlySuspendOS = FALSE
  PinReliable = TRUE
  BusyPowerOn = FALSE
  BoundFaults = TRUE
  MaxFaults = 2
  LateRetries = 1
SPECIFICATION FairSpec
PROPERTY Recovers
CHECK_DEADLOCK FALSE
