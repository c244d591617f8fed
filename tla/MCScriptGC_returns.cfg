CONSTANTS
  Obj = {o1, o2}
  Field = {f1}
  Reg = {r1, r2}
  Glob = {g1}
  Null = Null
  Kinds = {"struct"}
  EntryPoints = {"collect_minor", "collect_minor_step"}
  PromotionThreshold = 1
  MajorThreshold = 0
  WorkBudget = 1
  EmergencyLimit = 1
SPECIFICATION FairSpec
INVARIANT SweepTodoYoung
PROPERTY CollectorReturns
