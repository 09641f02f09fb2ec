\* The unlocked walk of the UI over a Snapshot, in client mode.
CONSTANTS
  SteamIDs = {s1, s2}
  Remote = FALSE
  Cancellable = FALSE
  UIAttached = TRUE
  MaxPlayerCount = 2
  PlayerTimeout = 0
  MaxTime = 2
  NumUpdates = 0
SPECIFICATION Spec
SYMMETRY Symmetry
INVARIANTS TypeOK UIRowsDistinct
PROPERTIES SlotsKeepTheirPlayer
