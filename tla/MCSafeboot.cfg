SPECIFICATION Spec
CONSTANTS
  MaxVolume = 4
  MaxUpdated = 3
  MaxIncidents = 2
  Uefi = TRUE
  ReadErrors = FALSE
  WriteErrors = FALSE
  Disks <- Installed
INVARIANTS TypeOK TriedOnce BootsEligible BootsLatest
PROPERTIES KeepsOne Recovers
