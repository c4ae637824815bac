SPECIFICATION Spec
CONSTANTS
  Count = 3
  MaxSize = 3
  Top = 6
  MemLimit = 13
  SafeMem <- SafeAbove
  Tables <- AllDistinct
INVARIANTS BreaksCycle
PROPERTIES Resolves
CHECK_DEADLOCK FALSE
