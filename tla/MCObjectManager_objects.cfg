SPECIFICATION FairSpec
CONSTANTS
  Type = {"item", "player"}
  Tag = {t1}
  NoTag = NoTag
  NoObject = NoObject
  MaxVersion = 2
  MaxSlots = 3
  MaxObjects = 4
  MaxLoads = 2
  MaxContents = 2
  MaxNesting = 2
INVARIANTS TypeOK SlotsExact TagsExact CallersLive OwnersLive
PROPERTIES ContentsDie EntriesStay CallsReturn ImplementsRegistry
CHECK_DEADLOCK FALSE
