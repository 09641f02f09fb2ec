-------------------------------- MODULE Tabs --------------------------------
(***************************************************************************)
(* internal/ui: the tabs of the main view, the panels they show, and the   *)
(* RCON input of the console tab.                                          *)
(*                                                                         *)
(* tabsModel marks a tab at once and has a command tell the other models:  *)
(* rootModel draws the panels of the tab it was told of last, and the      *)
(* console takes keys from then on.  As in Views, the messages of pending  *)
(* commands arrive in any order, and keys go to every model.               *)
(***************************************************************************)
EXTENDS Naturals, Bags

CONSTANTS InServerMode,    \* config.ServerModeEnabled
          TabKeys,         \* the keys that are pressed
          MaxTabCommands   \* bound: commands pending at the next key or click

ASSUME TabsAssumption ==
  /\ InServerMode \in BOOLEAN
  /\ MaxTabCommands \in Nat

VARIABLES
  selectedTab,  \* tabsModel.selectedTab
  activeTab,    \* rootModel.activeTab
  console,      \* consoleModel: inputActive, and whether input has text
  sent,         \* the RCONCommand messages that were made
  rushed,       \* history: a tab was selected while another was announced
  tabCommands   \* a bag: the messages of the commands that run

tabVars == <<selectedTab, activeTab, console, sent, rushed, tabCommands>>

TabNames   == <<"servers", "players", "bans", "bd", "comp", "chat", "console">>
TabView    == DOMAIN TabNames
tabConsole == 7

(* The keys that select a tab.  "d" and "`" are bound and shown in the     *)
(* help, but not asked for; no key is called "shift tab".                  *)
TabOfKey == [o |-> 1, b |-> 3, c |-> 5, t |-> 6]

-----------------------------------------------------------------------------
(* rootModel.View, the main view of it.                                    *)

UpperPanel == IF InServerMode /\ activeTab = 1 THEN "servers" ELSE "players"

LowerPanel == TabNames[activeTab]

-----------------------------------------------------------------------------
Send(msgs) == tabCommands' = tabCommands (+) SetToBag(msgs)

MayAct == BagCardinality(tabCommands) <= MaxTabCommands

Announced == {msg \in BagToSet(tabCommands) : msg.kind = "tab"}

(* Mutated form of SelectTab: it announces the tab there was before.       *)
SelectTabStale(tab) ==
  /\ selectedTab' = tab
  /\ Send({[kind |-> "tab", val |-> selectedTab]})
  /\ rushed' = (rushed \/ Announced # {})
  /\ UNCHANGED <<activeTab>>

(* tabsModel.Update: select a tab, setTab.                                 *)
SelectTab(tab) ==
  /\ selectedTab' = tab
  /\ Send({[kind |-> "tab", val |-> tab]})
  /\ rushed' = (rushed \/ Announced # {})
  /\ UNCHANGED <<activeTab>>

NextTab == IF selectedTab = tabConsole THEN 1 ELSE selectedTab + 1

(* consoleModel.Update of a key: an active input takes it, and is emptied. *)
InputAfter(key) ==
  IF console.inputActive THEN [console EXCEPT !.text = FALSE] ELSE console

PressTabKey(key) ==
  /\ MayAct
  /\ console' = InputAfter(key)
  /\ sent' = IF key = "enter" /\ console'.text THEN 1 ELSE sent
  /\ \/ key \in DOMAIN TabOfKey /\ SelectTab(TabOfKey[key])
     \/ key = "tab" /\ SelectTab(NextTab)
     \/ key \notin DOMAIN TabOfKey \cup {"tab"}
        /\ UNCHANGED <<selectedTab, activeTab, rushed, tabCommands>>

(* A click on the label of a tab.                                          *)
ClickTab(tab) ==
  /\ MayAct
  /\ SelectTab(tab)
  /\ UNCHANGED <<console, sent>>

(* A click on a row of the server table, if it is drawn.                   *)
ClickServerRow ==
  /\ MayAct
  /\ UpperPanel = "servers"
  /\ Send({[kind |-> "zone", val |-> 0]})
  /\ UNCHANGED <<selectedTab, activeTab, console, sent, rushed>>

(* setTab's message: rootModel and consoleModel.  Another tab than the     *)
(* console's leaves the input active.                                      *)
TabArrives(msg) ==
  /\ msg.kind = "tab"
  /\ activeTab' = msg.val
  /\ console' = [console EXCEPT !.inputActive = @ \/ msg.val = tabConsole]

(* setInputZone's message; zoneServers is the only zone ever set.          *)
ZoneArrives(msg) ==
  /\ msg.kind = "zone"
  /\ console' = [console EXCEPT !.inputActive = FALSE]
  /\ UNCHANGED activeTab

TabArrive ==
  \E msg \in BagToSet(tabCommands) :
    /\ TabArrives(msg) \/ ZoneArrives(msg)
    /\ tabCommands' = tabCommands (-) SetToBag({msg})
    /\ UNCHANGED <<selectedTab, sent, rushed>>

TabsInit ==
  /\ selectedTab = 1 /\ activeTab = 1
  /\ console = [inputActive |-> FALSE, text |-> FALSE]
  /\ sent = 0
  /\ rushed = FALSE
  /\ tabCommands = EmptyBag

TabsNext ==
  \/ \E key \in TabKeys : PressTabKey(key)
  \/ \E tab \in TabView : ClickTab(tab)
  \/ ClickServerRow \/ TabArrive

TabsSpec == TabsInit /\ [][TabsNext]_tabVars

-----------------------------------------------------------------------------
(* Properties.                                                             *)

(* The panel that is drawn is the one of the tab that is marked, once the  *)
(* commands are through, unless a tab was selected before the last one was *)
(* announced: those two messages may arrive the other way round.           *)
PanelOfTab == tabCommands = EmptyBag /\ ~rushed => LowerPanel = TabNames[selectedTab]

=============================================================================
