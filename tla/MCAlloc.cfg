SPECIFICATION Spec
CONSTANTS
  AddrLimit = 8
  MaxAddr32 = 5
  MaxAllocs = 3
  PageSize = 2
  Aligns = {1, 2, 4}
INVARIANTS TypeOK TableSane NeverHangs
PROPERTIES KeepsPromise LowestSuitable
CHECK_DEADLOCK FALSE
