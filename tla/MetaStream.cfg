SPECIFICATION Spec
CONSTANTS
  Size = 5
  Tags = 6
  EventLens = {1, 2}
  HdrLen = 1
  MaxAcl = 1
  AclData = {0, 1, 2}
  Counts = {1, 2, 4}
  FullTimes = 2
  KeepsUp = TRUE
INVARIANT TypeOK
PROPERTY StreamSpec
PROPERTY PatientReset
PROPERTY StraysAtTheEnd
CHECK_DEADLOCK FALSE
