-------------------------------- MODULE Upnp --------------------------------
(***************************************************************************)
(* internal/network/upnp: the port mapping through which game servers      *)
(* reach the log listener.                                                 *)
(*                                                                         *)
(* The router is external.  It forgets a mapping when its lease is over,   *)
(* an hour after it was made; UPNPManager makes it at the start and again  *)
(* every 15 minutes, which is the unit of time here.  A network has any    *)
(* number of the three services that can do it, and a lookup or a call may *)
(* fail.                                                                   *)
(***************************************************************************)
EXTENDS Naturals

CONSTANT MaxServices  \* bound: services of one kind

ASSUME UpnpAssumption == MaxServices \in Nat \ {0}

VARIABLES
  lease,  \* for how long the router still keeps the mapping
  made,   \* history: it was made once
  due,    \* Start is to call updateMapping
  failed  \* history: how many calls have failed since the last that did not

upnpVars == <<lease, made, due, failed>>

(* Mutated form of LeaseQuarters: the seconds of a quarter of an hour.     *)
LeaseQuartersShort == 1

LeaseQuarters == 4

ServiceKinds == {"WANIPConnection1", "WANIPConnection2", "WANPPPConnection1"}

(* findRouterClient: it takes the one service of a kind, of the best there *)
(* is, and no two of a kind.                                               *)
FindsClient(found) == \E kind \in ServiceKinds : found[kind] = 1

(* updateMapping: ok is whether the lookups and the router's calls work.   *)
UpdateMapping(found, ok) ==
  LET mapped == FindsClient(found) /\ ok IN
  /\ due /\ due' = FALSE
  /\ lease' = IF mapped THEN LeaseQuarters ELSE lease
  /\ failed' = IF mapped THEN 0 ELSE IF failed < LeaseQuarters THEN failed + 1 ELSE failed
  /\ made' = (made \/ mapped)

(* The ticker of Start.                                                    *)
QuarterPasses ==
  /\ ~due /\ due' = TRUE
  /\ lease' = IF lease > 0 THEN lease - 1 ELSE 0
  /\ UNCHANGED <<made, failed>>

UpnpInit == lease = 0 /\ made = FALSE /\ due = TRUE /\ failed = 0

UpnpNext ==
  \/ QuarterPasses
  \/ \E found \in [ServiceKinds -> 0 .. MaxServices], ok \in BOOLEAN : UpdateMapping(found, ok)

UpnpSpec == UpnpInit /\ [][UpnpNext]_upnpVars

-----------------------------------------------------------------------------
(* Properties.                                                             *)

(* The mapping, once it is there, outlives two failures in a row.          *)
MappingOutlives == made /\ failed < 3 => lease > 0

=============================================================================
