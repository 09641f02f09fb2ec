\* Server mode, two players.
CONSTANTS
  SteamIDs = {s1, s2}
  Remote = TRUE
  Cancellable = FALSE
  UIAttached = FALSE
  MaxPlayerCount = 2
  PlayerTimeout = 1
  MaxTime = 2
  NumUpdates = 0
SPECIFICATION Spec
INVARIANT DumpedPlayersListed
