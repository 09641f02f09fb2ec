-------------------------------- MODULE MCUI --------------------------------
(***************************************************************************)
(* Views, Tabs and Selection on small instances.  They have no variable in *)
(* common: one of them runs, rather than all of them in every combination. *)
(***************************************************************************)
EXTENDS Views, Tabs, Selection

VARIABLE part  \* the one that runs

uiVars == <<part, viewVars, tabVars, selVars>>

Init == part \in {"views", "tabs", "selection"} /\ ViewsInit /\ TabsInit /\ SelInit

Next ==
  /\ UNCHANGED part
  /\ \/ part = "views" /\ ViewsNext /\ UNCHANGED <<tabVars, selVars>>
     \/ part = "tabs" /\ TabsNext /\ UNCHANGED <<viewVars, selVars>>
     \/ part = "selection" /\ SelNext /\ UNCHANGED <<viewVars, tabVars>>

Spec == Init /\ [][Next]_uiVars

(* bubbletea runs every command, and ticks go on.  The user of the views   *)
(* presses the key that is named again and again.                          *)
ViewsFairness ==
  /\ WF_viewVars(part = "views" /\ Resize)
  /\ \A msg \in ViewMsgs : WF_viewVars(part = "views" /\ Arrive(msg))

KeepsPressing(key) == SF_viewVars(part = "views" /\ Press(key))

SelFairness ==
  /\ WF_selVars(part = "selection" /\ (FirstSize \/ SendAll))
  /\ WF_selVars(part = "selection" /\ SendFirst)
  /\ WF_selVars(part = "selection" /\ \E cmd \in BagToSet(running) : CommandSends(cmd))

FairSpec == Spec /\ ViewsFairness /\ KeepsPressing("esc") /\ SelFairness

=============================================================================
