SPECIFICATION Spec
CONSTANTS
  MaxVolume = 3
  MaxUpdated = 3
  MaxIncidents = 2
  Uefi = FALSE
  ReadErrors = TRUE
  WriteErrors = TRUE
  Disks <- InstalledStateless
PROPERTIES KeepsOne Recovers
