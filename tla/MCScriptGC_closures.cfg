CONSTANTS
  Obj = {o1, o2, o3}
  Field = {f1}
  Reg = {r1, r2}
  Glob = {g1}
  Null = Null
  Kinds = {"struct", "closure", "upvalue"}
  EntryPoints = {"collect_minor"}
  PromotionThreshold = 1
  MajorThreshold = 0
  WorkBudget = 1
  EmergencyLimit = 9
SYMMETRY Symmetric
SPECIFICATION Spec
INVARIANT ReachableLive
CHECK_DEADLOCK FALSE
