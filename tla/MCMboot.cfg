SPECIFICATION Spec
CONSTANTS
  OverflowLen = 3
  LogPage = 4
  MsgSizes = {3}
  LastSizes = {2}
  MaxLog = 10
  Consoles = {"fbcon", "serial"}
  MapBuffers = {b1, b2, b3, b4}
  MaxChanges = 1
  NULL = NULL
  Fanout = 2
  Levels = 3
  Arm = TRUE
  UefiMap <- Kinds
  rts_vaddr = 100
  rts_size = 12
  Near = 12
  ModulesNr = 2
  MaxAcpiTabs = 1
  Trees <- SmallTrees
  Root = 8
  Copy1 = 16
  Copy2 = 22
  RtMaps <- Ranges
INVARIANTS TypeOK LostIsMarked MapsOwned MapIsCurrent FirmwareDiscipline CleanReturn
  KernelLog TablesFaithful RtsSound
PROPERTIES OverflowIsLast Ends
CHECK_DEADLOCK FALSE
