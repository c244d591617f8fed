CONSTANTS
  Propset = {"stats", "notes"}
  For <- MCFor
  Type = {"creature", "item"}
  Value = {0, 1}
  Default = 0
  Line <- MCLine
  None = None
  KeepRefs = FALSE
  MaxId = 1
  MaxVersion = 2
SPECIFICATION Spec
INVARIANTS TypeOK CacheOwns RefsOwn
PROPERTY ImplementsValues
CHECK_DEADLOCK FALSE
