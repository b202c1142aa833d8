SPECIFICATION FairIoSpec
CONSTANTS
  Size = 4
  Tags = 1
  EventLens = {1}
  HdrLen = 1
  MaxAcl = 1
  AclData = {0}
  Counts = {2, 4}
  FullTimes = 1
  KeepsUp = TRUE
  Writers = 2
  MaxFaults = 2
CHECK_DEADLOCK FALSE
INVARIANTS IoTypeOK Roused EventWhole
PROPERTIES WriterReturns NoticeTaken
