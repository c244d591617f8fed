CONSTANTS
  Propset = {"stats", "notes"}
  For <- MCFor
  Type = {"creature", "player"}
  Value = {0, 1}
  Default = 0
  Line <- MCLine
  None = None
  KeepRefs = FALSE
  MaxId = 1
  MaxVersion = 1
SPECIFICATION Spec
INVARIANT RefsOwn
CHECK_DEADLOCK FALSE
