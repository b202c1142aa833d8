SPECIFICATION Spec
CONSTANTS
  Size = 2
  Counters = 8
  Senders = {s1, s2}
  MaxMsgs = 3
  MaxTries = 1
  MaxSignals = 1
  RetryLimit = 0
  MaxLost = 0
  MaxResets = 1
  s1 = s1
  s2 = s2
INVARIANT TypeOK
INVARIANT Kept
INVARIANT OwnResult
PROPERTY OnceInOrder
SYMMETRY Symmetry
CHECK_DEADLOCK FALSE
