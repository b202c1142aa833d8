SPECIFICATION FairSpec
CONSTANTS
  Size = 3
  Senders = {s1, s2}
  Ids = {1}
  MaxMsgs = 3
  Signals = TRUE
  s1 = s1
  s2 = s2
INVARIANT TypeOK
INVARIANT Turn
INVARIANT OwnAck
INVARIANT HeadServed
PROPERTY InOrder
PROPERTY LeftForGood
PROPERTY Served
CHECK_DEADLOCK FALSE
