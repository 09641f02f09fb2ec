\* A quit in server mode.
CONSTANTS
  ServerMode = TRUE
  Traffic = FALSE
  UserQuits = TRUE
  MaxEdits = 0
  MaxSaves = 0
SPECIFICATION Spec
INVARIANT LogAddressRemoved
CHECK_DEADLOCK FALSE
