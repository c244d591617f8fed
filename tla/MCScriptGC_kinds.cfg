CONSTANTS
  Obj = {o1, o2, o3}
  Field = {f1}
  Reg = {r1, r2}
  Glob = {}
  Null = Null
  Kinds = {"struct", "sum", "backing", "string", "closure", "upvalue"}
  EntryPoints = {"collect_minor", "collect_major"}
  PromotionThreshold = 1
  MajorThreshold = 0
  WorkBudget = 1
  EmergencyLimit = 2
SYMMETRY Symmetric
SPECIFICATION Spec
INVARIANT OpenUpvaluesLive
