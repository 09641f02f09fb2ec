--------------------------- MODULE MCEventRouter ----------------------------
(* EventRouter on small instances.                                         *)
EXTENDS EventRouter

OneServer  == <<[address |-> "sea-1:27015", secret |-> 1]>>
TwoServers == OneServer \o <<[address |-> "sea-1:27025", secret |-> 2]>>

=============================================================================
