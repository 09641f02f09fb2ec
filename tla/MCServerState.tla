--------------------------- MODULE MCServerState ----------------------------
(* ServerState on small instances.                                         *)
EXTENDS ServerState, TLC

Symmetry == Permutations(SteamIDs)

=============================================================================
