SPECIFICATION Spec
CONSTANTS
  Size = 4
  Word = 2
  Tags = 4
  DropUnits = {0, 1, 2, 3, 5}
  Drops = 3
PROPERTY DropCounted
CHECK_DEADLOCK FALSE
