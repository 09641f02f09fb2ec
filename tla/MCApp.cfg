\* Server mode: starting, quitting and panicking, log events and snapshots
\* all the while.
CONSTANTS
  ServerMode = TRUE
  Traffic = TRUE
  UserQuits = TRUE
  MaxEdits = 1
  MaxSaves = 0
SPECIFICATION FairSpec
INVARIANT TypeOK
PROPERTIES QuitReturns NobodyIsStuck
CHECK_DEADLOCK FALSE
