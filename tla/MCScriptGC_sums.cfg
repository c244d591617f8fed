CONSTANTS
  Obj = {o1, o2}
  Field = {f1}
  Reg = {r1, r2}
  Glob = {g1}
  Null = Null
  Kinds = {"struct", "sum"}
  EntryPoints = {"collect_minor"}
  PromotionThreshold = 2
  MajorThreshold = 0
  WorkBudget = 1
  EmergencyLimit = 9
SYMMETRY Symmetric
SPECIFICATION Spec
INVARIANT ReachableLive
CHECK_DEADLOCK FALSE
