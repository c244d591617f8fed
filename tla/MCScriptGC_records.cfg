CONSTANTS
  Obj = {o1, o2, o3, o4}
  Field = {f1}
  Reg = {r1, r2}
  Glob = {}
  Null = Null
  Kinds = {"struct", "backing"}
  EntryPoints = {"collect_minor"}
  PromotionThreshold = 2
  MajorThreshold = 0
  WorkBudget = 1
  EmergencyLimit = 1
SYMMETRY Symmetric
SPECIFICATION Spec
INVARIANTS TypeOK ReachableLive OldToYoungRemembered YoungListExact OldBytesExact MinorPrecise BlackSeesNoWhite RescanFixpoint
PROPERTY ImplementsManagedHeap
