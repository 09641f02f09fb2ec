\* Liveness in server mode, with a context that may be cancelled. No
\* symmetry: it is not sound for liveness.
CONSTANTS
  SteamIDs = {s1}
  Remote = TRUE
  Cancellable = TRUE
  UIAttached = FALSE
  MaxPlayerCount = 1
  PlayerTimeout = 0
  MaxTime = 2
  NumUpdates = 0
SPECIFICATION FairSpec
PROPERTIES StaleRowsGo StopsOnCancel
CHECK_DEADLOCK FALSE
