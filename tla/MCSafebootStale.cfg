SPECIFICATION Spec
CONSTANTS
  MaxVolume = 3
  MaxUpdated = 3
  MaxIncidents = 2
  Uefi = TRUE
  ReadErrors = TRUE
  WriteErrors = FALSE
  Disks <- Installed
PROPERTY KeepsOne
