------------------------------- MODULE MCParts ------------------------------
(***************************************************************************)
(* Lines, Rcon, MetaCache, BotLists, Upnp, PlayerTable, Tables, Panels,    *)
(* Startup, DumpText and Settings on small instances.                      *)
(* They have no variable in common: one of them runs, rather than all of   *)
(* them in every combination.                                              *)
(***************************************************************************)
EXTENDS Lines, Rcon, MetaCache, BotLists, Upnp, PlayerTable, Tables, Panels, Startup, DumpText,
        Settings

(* A list that names a player twice, one with an entry that is none.       *)
MCEntries == [l1 |-> <<"s1", "s1">>, l2 |-> <<"none", "s2", "s1">>, l3 |-> <<"s2">>]

VARIABLE part  \* the one that runs

partVars == <<part, lineVars, rconVars, metaVars, botVars, upnpVars, playerVars,
              tableVars, panelVars, startVars, dumpVars, setVars>>

Idles(p) == part # p

Init ==
  /\ part \in {"lines", "rcon", "meta", "bots", "upnp", "players", "tables", "panels", "startup",
              "status", "g15", "settings"}
  /\ LinesInit /\ MetaInit /\ BotInit /\ UpnpInit
  /\ RconInit /\ (Idles("rcon") => answer = 0 /\ ~large)
  /\ StartupInit /\ (Idles("startup") => conf.file = "missing")
  /\ DumpInit /\ (Idles("status") => Len(slots) = MaxPlayerCount)
  /\ SettingsInit
  /\ Idles("settings") => yaml.steam_id = "" /\ yaml.console_log_path = ""
                            /\ yaml.servers.key = "logsecret"
  /\ PlayersInit /\ (Idles("players") => serverMode)
  /\ TablesInit /\ (Idles("tables") => fleet = <<>> /\ career = <<>>)
  /\ PanelsInit /\ (Idles("panels") => host = CHOOSE h \in LogHosts : TRUE)

Next ==
  /\ UNCHANGED part
  /\ \/ part = "lines" /\ LinesNext
     \/ Idles("lines") /\ UNCHANGED lineVars
  /\ \/ part = "rcon" /\ RconNext
     \/ Idles("rcon") /\ UNCHANGED rconVars
  /\ \/ part = "meta" /\ MetaNext
     \/ Idles("meta") /\ UNCHANGED metaVars
  /\ \/ part = "bots" /\ BotNext
     \/ Idles("bots") /\ UNCHANGED botVars
  /\ \/ part = "upnp" /\ UpnpNext
     \/ Idles("upnp") /\ UNCHANGED upnpVars
  /\ \/ part = "players" /\ PlayersNext
     \/ Idles("players") /\ UNCHANGED playerVars
  /\ \/ part = "panels" /\ PanelsNext
     \/ Idles("panels") /\ UNCHANGED panelVars
  /\ \/ part = "tables" /\ TablesNext
     \/ Idles("tables") /\ UNCHANGED tableVars
  /\ \/ part = "startup" /\ StartupNext
     \/ Idles("startup") /\ UNCHANGED startVars
  /\ \/ part = "status" /\ StatusNext
     \/ part = "g15" /\ G15Next
     \/ part \notin {"status", "g15"} /\ UNCHANGED dumpVars
  /\ \/ part = "settings" /\ SettingsNext
     \/ Idles("settings") /\ UNCHANGED setVars

(* Downloads end, as the HTTP client has a timeout, and goroutines run.    *)
FairSpec == Init /\ [][Next]_partVars /\ WF_botVars(part = "bots" /\ BotNext)

-----------------------------------------------------------------------------

(* bd.Fetcher.Update returns, however many of the downloads fail: the      *)
(* channel it ranges over is closed, since every goroutine calls Done.     *)
BotUpdateReturns == part = "bots" ~> updater = "returned"

=============================================================================
