SPECIFICATION Spec
CONSTANTS
  MaxVolume = 3
  MaxUpdated = 3
  MaxIncidents = 1
  Uefi = TRUE
  ReadErrors = FALSE
  WriteErrors = FALSE
  Disks <- Installed
PROPERTY KillsCurrent
