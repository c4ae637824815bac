SPECIFICATION Spec
CONSTANTS
  AddrLimit = 64
  MaxAddr32 = 39
  MaxAllocs = 8
  PageSize = 4
  LowMegabyte = 4
  Maps <- AllMaps
  Loads <- SmallLoads
  MaxRelocs = 11
  MaxMoves = 2
  X86 = TRUE
  LowSize = 2
  DataSize = 3
  CodeSize = 2
  TablesSize = 4
  VmapSize = 1
  AlignPtr = 2
  AlignFunc = 2
INVARIANTS TypeOK DestinationsSafe MemoryNotLost HandsOverLayout SafeStaysSafe
  InfoBelow4GB DestinationsAligned TableNotOverrun NeverHangs
CHECK_DEADLOCK FALSE
