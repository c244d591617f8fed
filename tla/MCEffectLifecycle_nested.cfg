CONSTANTS
  c1 = c1
  c2 = c2
  i1 = i1
  t1 = t1
  Obj = {c1, c2}
  Slot = {s1, s2}
  Type = {t1}
  Mask <- MCMask
  None = None
  MaxGeneration = 3
  Reuses = 2
  MaxCalls = 2
  MaxEvents = 1
  Natives = {"set_type", "destroy", "apply", "remove", "keep"}
  Liberties = {}
SYMMETRY Symmetric
SPECIFICATION Spec
INVARIANTS AppliedLive AppliedPinned
PROPERTIES StaleStaysStale EventsHitTheirEffect ReturnsHitTheirEffects
CHECK_DEADLOCK FALSE
