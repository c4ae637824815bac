SPECIFICATION Spec
CONSTANTS
  Count = 3
  MaxSize = 2
  Top = 6
  MemLimit = 9
  SafeMem <- SafeAbove
  Tables <- AllSmall
INVARIANT BreaksCycle
CHECK_DEADLOCK FALSE
