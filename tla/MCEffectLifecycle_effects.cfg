CONSTANTS
  c1 = c1
  c2 = c2
  i1 = i1
  t1 = t1
  Obj = {c1, c2, i1}
  Slot = {s1, s2}
  Type = {t1}
  Mask <- MCMask
  None = None
  MaxGeneration = 2
  Reuses = 1
  MaxCalls = 1
  MaxEvents = 1
  Natives = {"set_type", "pin", "destroy", "apply", "remove", "item"}
  Liberties = {"heap_full"}
SYMMETRY Symmetric
SPECIFICATION Spec
INVARIANTS TypeOK AppliedRemovable
CHECK_DEADLOCK FALSE
