SPECIFICATION FairSpec
CONSTANTS
  Size = 3
  Counters = 8
  Senders = {s1}
  MaxMsgs = 3
  MaxTries = 2
  MaxSignals = 2
  RetryLimit = 1
  MaxLost = 1
  MaxResets = 1
  s1 = s1
PROPERTY SenderReturns
PROPERTY Answered
CHECK_DEADLOCK FALSE
