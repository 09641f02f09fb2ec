\* The config on its way from the file to the UI.
CONSTANTS
  ServerMode = FALSE
  Traffic = FALSE
  UserQuits = FALSE
  MaxEdits = 2
  MaxSaves = 1
SPECIFICATION FairSpec
INVARIANT QuietConfigAgrees
PROPERTIES ConfigSettles
CHECK_DEADLOCK FALSE
