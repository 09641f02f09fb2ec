------------------------------ MODULE Selection -----------------------------
(***************************************************************************)
(* internal/ui: the selected server and the selected player, in the tables *)
(* and in the panels that show them.                                       *)
(*                                                                         *)
(* Every model keeps a copy of its own.  app.updateUIState sends all       *)
(* snapshots and then one of them; the server table answers the first with *)
(* setServer, the player tables the second with a sequence of selectTeam   *)
(* and selectPlayer.  Clicks and keys make such commands too.  A command   *)
(* runs in a goroutine of its own: those of a tea.Sequence arrive in their *)
(* order, others in any.                                                   *)
(*                                                                         *)
(* Rows are drawn from best to worst; the model keeps which rows there are *)
(* and which one is first, as the scores of the snapshot will have it.     *)
(* moveSelection is left out: zonePlayersRED is never set, so the tables   *)
(* of players take no keys.                                                *)
(***************************************************************************)
EXTENDS Naturals, Sequences, Bags

CONSTANTS Hosts,       \* the servers, by HostPort
          NoHost,      \* ""
          SIDs,        \* players
          NoSID,       \* the zero SteamID
          MaxInputs,   \* bound: clicks and keys of the user
          MaxAtTick    \* bound: commands that still run when a tick comes

ASSUME SelectionAssumption ==
  /\ NoHost \notin Hosts
  /\ NoSID \notin SIDs
  /\ MaxInputs \in Nat /\ MaxAtTick \in Nat

VARIABLES
  ready,     \* rootModel.isInitialized
  server,    \* serverTableModel.selectedsServer
  panels,    \* the server of the console, the chat, the status bar and the detail panel
  lists,     \* the server whose plugins and cvars the detail panel lists
  tables,    \* the two tablePlayerModels
  chosen,    \* the player of the panels for one player
  running,   \* a bag: what the commands that run have still to send
  syncer,    \* where updateUIState is
  inputs,    \* how many clicks and keys there have been
  rash       \* history: one of them came while a command ran, or within a tick

selVars == <<ready, server, panels, lists, tables, chosen, running, syncer, inputs, rash>>

Teams == {"RED", "BLU"}

Team(t)     == [kind |-> "team", val |-> t]
Player(sid) == [kind |-> "player", val |-> sid]
Server(h)   == [kind |-> "server", val |-> h]

Run(bag, cmds) == bag (+) SetToBag(cmds)

-----------------------------------------------------------------------------
(* tablePlayerModel.                                                       *)

(* The selected player if it is listed, or the first, or nobody.           *)
Closest(table) == IF table.selected \in table.rows THEN table.selected ELSE table.first

(* Mutated form of SelectClosest: the other table acts as well.            *)
SelectClosestBoth(t, table) == [table EXCEPT !.selected = Closest(table)]

(* selectClosestPlayer: only the table of the selected team acts.          *)
SelectClosest(t, table) ==
  IF table.team = t THEN [table EXCEPT !.selected = Closest(table)] ELSE table

(* ... and says so if that changed its selection.                          *)
Announce(old, new) ==
  {<<Team(t), Player(new[t].selected)>> : t \in {u \in Teams : new[u].selected # old[u].selected}}

(* Both tables take something, and select.                                 *)
Reselect(taken, left) ==
  LET new == [t \in Teams |-> SelectClosest(t, taken[t])] IN
  /\ tables' = new
  /\ running' = Run(left, Announce(tables, new))

(* newTablePlayerData and Sort: the players of the team, some of them      *)
(* first.                                                                  *)
Listings(t, players) ==
  LET rows == {sid \in SIDs : players[sid] = t} IN
  {[rows |-> rows, first |-> f] : f \in IF rows = {} THEN {NoSID} ELSE rows}

-----------------------------------------------------------------------------
(* app.updateUIState: ui.Send(uiSnaps), ui.Send(uiSnaps[0]).               *)

SendAll ==
  /\ ready /\ syncer = "select"
  /\ BagCardinality(running) <= MaxAtTick
  /\ syncer' = "sendFirst"
  /\ server' \in IF server = NoHost THEN Hosts ELSE {server}
  /\ running' = Run(running, {<<Server(server')>>})
  /\ UNCHANGED <<ready, panels, lists, tables, chosen, inputs, rash>>

(* The server table has sorted the slice meanwhile, or is about to: the    *)
(* first may be any of the servers, with any players.                      *)
SendFirst ==
  /\ syncer = "sendFirst"
  /\ syncer' = "select"
  /\ \E players \in [SIDs -> Teams \cup {"none"}] :
       \E red \in Listings("RED", players), blu \in Listings("BLU", players) :
         LET listing == [t \in Teams |-> IF t = "RED" THEN red ELSE blu] IN
         Reselect([t \in Teams |-> [tables[t] EXCEPT !.rows = listing[t].rows,
                                                     !.first = listing[t].first]], running)
  /\ UNCHANGED <<ready, server, panels, lists, chosen, inputs, rash>>

-----------------------------------------------------------------------------
(* The user.                                                               *)

Input ==
  /\ ready
  /\ inputs < MaxInputs
  /\ inputs' = inputs + 1
  /\ rash' = (rash \/ running # EmptyBag \/ syncer = "sendFirst")
  /\ UNCHANGED <<ready, server, panels, lists, chosen, syncer>>

(* The keys for left and right.                                            *)
KeyTeam(t) ==
  /\ Input
  /\ running' = Run(running, {<<Team(t)>>})
  /\ UNCHANGED tables

ClickServer(h) ==
  /\ Input
  /\ server # NoHost  \* there are rows to click on
  /\ running' = Run(running, {<<Server(h)>>})
  /\ UNCHANGED tables

ClickPlayer(t, sid) ==
  /\ Input
  /\ sid \in tables[t].rows
  /\ tables' = [tables EXCEPT ![t].selected = sid, ![t].team = t]
  /\ running' = Run(running, {<<Team(t), Player(sid)>>})

(* A click on a header of a player table: Sort.                            *)
ClickHeader(t) ==
  /\ Input
  /\ \E sid \in tables[t].rows : tables' = [tables EXCEPT ![t].first = sid]
  /\ UNCHANGED running

-----------------------------------------------------------------------------
(* The messages of commands.                                               *)

TeamArrives(msg, left) ==
  /\ msg.kind = "team"
  /\ Reselect([t \in Teams |-> [tables[t] EXCEPT !.team = msg.val]], left)
  /\ UNCHANGED <<server, panels, lists, chosen>>

(* selectedPlayerMsg: both tables and the panels for one player.           *)
PlayerArrives(msg, left) ==
  /\ msg.kind = "player"
  /\ tables' = [t \in Teams |-> [tables[t] EXCEPT !.selected = msg.val]]
  /\ chosen' = msg.val
  /\ running' = left
  /\ UNCHANGED <<server, panels, lists>>

(* Mutated form of ServerArrives: the server table has made up its mind.   *)
ServerArrivesTwice(msg, left) ==
  /\ msg.kind = "server"
  /\ server' = IF server = NoHost THEN msg.val ELSE server
  /\ panels' = msg.val
  /\ lists' = panels
  /\ running' = left
  /\ UNCHANGED <<tables, chosen>>

(* Mutated form of ServerArrives: the lists are filled when there are none. *)
ServerArrivesOnce(msg, left) ==
  /\ msg.kind = "server"
  /\ server' = msg.val
  /\ panels' = msg.val
  /\ lists' = IF lists = NoHost THEN panels ELSE lists
  /\ running' = left
  /\ UNCHANGED <<tables, chosen>>

(* selectServerSnapshotMsg.  serverDetailPanelModel fills its lists from   *)
(* the snapshot it has, and then takes the one of the message.             *)
ServerArrives(msg, left) ==
  /\ msg.kind = "server"
  /\ server' = msg.val
  /\ panels' = msg.val
  /\ lists' = panels
  /\ running' = left
  /\ UNCHANGED <<tables, chosen>>

Left(cmd) ==
  LET rest == Tail(cmd) IN
  Run(running (-) SetToBag({cmd}), IF rest = <<>> THEN {} ELSE {rest})

(* Before the first WindowSizeMsg rootModel drops what arrives.            *)
CommandSends(cmd) ==
  /\ cmd \in BagToSet(running)
  /\ \/ ready /\ ( \/ TeamArrives(Head(cmd), Left(cmd))
                   \/ PlayerArrives(Head(cmd), Left(cmd))
                   \/ ServerArrives(Head(cmd), Left(cmd)) )
     \/ ~ready /\ running' = Left(cmd) /\ UNCHANGED <<server, panels, lists, tables, chosen>>
  /\ UNCHANGED <<ready, syncer, inputs, rash>>

FirstSize ==
  /\ ~ready /\ ready' = TRUE
  /\ UNCHANGED <<server, panels, lists, tables, chosen, running, syncer, inputs, rash>>

-----------------------------------------------------------------------------

(* rootModel.Init has selectTeam(tf.RED) run.                              *)
SelInit ==
  /\ ready = FALSE
  /\ server = NoHost /\ panels = NoHost /\ lists = NoHost
  /\ tables = [t \in Teams |-> [rows |-> {}, first |-> NoSID, team |-> "RED", selected |-> NoSID]]
  /\ chosen = NoSID
  /\ running = SetToBag({<<Team("RED")>>})
  /\ syncer = "select"
  /\ inputs = 0
  /\ rash = FALSE

User ==
  \/ \E t \in Teams : KeyTeam(t) \/ ClickHeader(t) \/ \E sid \in SIDs : ClickPlayer(t, sid)
  \/ \E h \in Hosts : ClickServer(h)

SelNext == FirstSize \/ SendAll \/ SendFirst \/ User \/ \E cmd \in BagToSet(running) : CommandSends(cmd)

SelSpec == SelInit /\ [][SelNext]_selVars

-----------------------------------------------------------------------------
(* Properties.                                                             *)

Quiet == running = EmptyBag

(* Whatever order the messages came in, when no command runs all models    *)
(* have the same server, the same player and the same team selected.       *)
QuietModelsAgree ==
  Quiet => /\ server = panels
           /\ \A t \in Teams : tables[t].selected = chosen
           /\ tables["RED"].team = tables["BLU"].team

(* The player that is selected is in the table of the selected team, if    *)
(* there is one to select.                                                 *)
InItsTable(t) == tables[t].team = t => tables[t].selected = Closest(tables[t])

(* The tables stop announcing: from the first size of the window on, again *)
(* and again no command runs and the selected player is in its table.  It  *)
(* takes a user who lets the commands of the last click and of a tick get  *)
(* through: two sequences that run at once can take the selection from     *)
(* each other for ever.                                                    *)
SelectionSettles == [](~rash) => (ready ~> Quiet /\ \A t \in Teams : InItsTable(t))

(* The lists of the detail panel are one message behind its server, and    *)
(* catch up, as long as commands get through.                              *)
ListsCatchUp == []<>Quiet => <>[](lists = panels)

=============================================================================
