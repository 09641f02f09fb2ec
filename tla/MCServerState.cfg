\* Safety of the player list in client mode: two players, every dump of
\* them, expiry, one bot detector update.
CONSTANTS
  SteamIDs = {s1, s2}
  Remote = FALSE
  Cancellable = FALSE
  UIAttached = FALSE
  MaxPlayerCount = 2
  PlayerTimeout = 1
  MaxTime = 3
  NumUpdates = 1
SPECIFICATION Spec
SYMMETRY Symmetry
INVARIANTS OneWriter UniqueSIDs TickLosesNothing
PROPERTIES ImplementsPlayerBook
