-------------------------------- MODULE Panels ------------------------------
(***************************************************************************)
(* internal/ui: what the lower panel shows of a log or a list that is      *)
(* longer than the panel.                                                  *)
(*                                                                         *)
(* After every message rootModel.View draws the panel of the active tab    *)
(* below the tables of players, and gives it what height the tables leave. *)
(* A viewport keeps its content, its height and an offset; the wheel, the  *)
(* arrow keys and some letters move the offset, of all the viewports at a  *)
(* time, shown or not.  The console keeps the viewport it has drawn with   *)
(* and follows the end of the log.  The panels of a player, his overview   *)
(* and his bans, draw with a copy of their viewport: their Render has a    *)
(* value for its receiver.                                                 *)
(* A row of a log is one line here: wrapped rows only make more lines.     *)
(*                                                                         *)
(* PanelsAssumption leaves the panel a line at least.  In a window that is *)
(* lower still rootModel.View computes a height of zero or less: what the  *)
(* library makes of it is not part of the model.                           *)
(***************************************************************************)
EXTENDS Naturals, FiniteSetsExt

CONSTANTS LogHosts,    \* servers
          MaxWindow,   \* bound: lines for the tables and the panel
          MaxRows,     \* bound: players in the longer of the tables
          MaxLog       \* bound: rows of a log, and bans of a player

ASSUME PanelsAssumption ==
  MaxWindow \in Nat /\ MaxRows \in Nat /\ MaxLog \in Nat /\ MaxRows < MaxWindow

VARIABLES
  window,    \* rootModel.height, less the header and the footer
  teamRows,  \* the rows of the longer table of players
  tab,       \* rootModel.activeTab
  rowsCount, \* consoleModel.rowsCount
  host,      \* consoleModel.selectedServer
  console,   \* consoleModel.viewPort
  person,    \* the player of tableBansModel and of detailPanelModel
  banView,   \* tableBansModel.viewport
  overview,  \* detailPanelModel.viewport
  drawn,     \* what was drawn last: the viewport at that time
  away       \* history: the user scrolled up, or the panel became lower

panelVars == <<window, teamRows, tab, rowsCount, host, console, person, banView,
               overview, drawn, away>>

-----------------------------------------------------------------------------
(* The viewport of the bubbles library.                                    *)

MaxYOffset(v) == IF v.lines > v.height THEN v.lines - v.height ELSE 0
AtBottom(v)   == v.offset >= MaxYOffset(v)
GotoBottom(v) == [v EXCEPT !.offset = MaxYOffset(v)]

SetContent(v, n) ==
  LET w == [v EXCEPT !.lines = n] IN IF v.offset + 1 > n THEN GotoBottom(w) ELSE w

ScrolledUp(v) ==
  IF v.offset = 0 THEN v ELSE [v EXCEPT !.offset = Min({v.offset - 1, MaxYOffset(v)})]

ScrolledDown(v) ==
  IF AtBottom(v) THEN v ELSE [v EXCEPT !.offset = Min({v.offset + 1, MaxYOffset(v)})]

-----------------------------------------------------------------------------
(* rootModel.View and the panels.                                          *)

(* lowerPanelViewportHeight, less the title and the input of a panel.      *)
Room(w, upper) == w - upper

(* A log begins with an empty line; without one there is a message.        *)
LogLines(n) == IF n = 0 THEN 2 ELSE n + 1

(* Mutated form of ConsoleRender: the question comes after the content.    *)
ConsoleRenderLate(v, room, n) ==
  LET w == SetContent([v EXCEPT !.height = room], LogLines(n)) IN
  IF AtBottom(w) THEN GotoBottom(w) ELSE w

(* consoleModel.Render: it is asked whether the end is in sight with the   *)
(* height that is and the content that was.                                *)
ConsoleRender(v, room, n) ==
  LET w == [v EXCEPT !.height = room]
      c == SetContent(w, LogLines(n)) IN
  IF AtBottom(w) THEN GotoBottom(c) ELSE c

(* tableBansModel.Render: a title and a heading, or a title and a message. *)
BansRender(v, room, p) ==
  SetContent([v EXCEPT !.height = room], IF p.bans = 0 THEN 2 ELSE p.bans + 2)

(* detailPanelModel.Render: the ID and the profile, a row for whatever     *)
(* else is known of the player, and two rows for his friends.              *)
DetailRender(v, room, p) ==
  IF ~p.valid THEN v ELSE [SetContent(v, 2 + p.known + 2) EXCEPT !.height = room]

(* The viewport of the model once Render has drawn with w.                 *)
Kept(v, w) == v

(* bubbletea calls View when Update is done.                               *)
View(c, b, o) ==
  LET room == Room(window', teamRows') IN
  \/ /\ tab' = "console"
     /\ console' = ConsoleRender(c, room, rowsCount'[host'])
     /\ drawn' = console'
     /\ banView' = b /\ overview' = o
     /\ away' = IF AtBottom(drawn') THEN FALSE
                ELSE away \/ console'.offset < console.offset \/ room < console.height
  \/ /\ tab' = "bans"
     /\ drawn' = BansRender(b, room, person')
     /\ banView' = Kept(b, drawn')
     /\ console' = c /\ overview' = o
     /\ away' = (away \/ c.offset < console.offset)
  \/ /\ tab' = "players"
     /\ drawn' = DetailRender(o, room, person')
     /\ overview' = Kept(o, drawn')
     /\ console' = c /\ banView' = b
     /\ away' = (away \/ c.offset < console.offset)

-----------------------------------------------------------------------------
(* The messages.                                                           *)

(* onLogs: the other lines have no ": ", or nothing after it.              *)
OnLogs(h) ==
  /\ rowsCount[h] < MaxLog
  /\ rowsCount' = [rowsCount EXCEPT ![h] = @ + 1]
  /\ UNCHANGED <<window, teamRows, tab, host, person>>
  /\ View(console, banView, overview)

(* selectServerSnapshotMsg.                                                *)
SelectServer(h) ==
  /\ host' = h
  /\ UNCHANGED <<window, teamRows, tab, rowsCount, person>>
  /\ View(console, banView, overview)

(* selectedPlayerMsg.                                                      *)
SelectPerson(p) ==
  /\ person' = p
  /\ UNCHANGED <<window, teamRows, tab, rowsCount, host>>
  /\ View(console, banView, overview)

(* Snapshot: players come and go.                                          *)
PlayersChange(n) ==
  /\ teamRows' = n
  /\ UNCHANGED <<window, tab, rowsCount, host, person>>
  /\ View(console, banView, overview)

(* tea.WindowSizeMsg.                                                      *)
WindowSize(h) ==
  /\ window' = h
  /\ UNCHANGED <<teamRows, tab, rowsCount, host, person>>
  /\ View(console, banView, overview)

SelectPanel(t) ==
  /\ tab' = t
  /\ UNCHANGED <<window, teamRows, rowsCount, host, person>>
  /\ View(console, banView, overview)

(* The wheel or a key; a letter in the input of the console is one too.    *)
ScrollUp ==
  /\ UNCHANGED <<window, teamRows, tab, rowsCount, host, person>>
  /\ View(ScrolledUp(console), ScrolledUp(banView), ScrolledUp(overview))

ScrollDown ==
  /\ UNCHANGED <<window, teamRows, tab, rowsCount, host, person>>
  /\ View(ScrolledDown(console), ScrolledDown(banView), ScrolledDown(overview))

-----------------------------------------------------------------------------

Nobody  == [valid |-> FALSE, bans |-> 0, known |-> 0]
Persons == {Nobody} \cup {[valid |-> TRUE, bans |-> n, known |-> MaxLog - n] : n \in {0, MaxLog}}

Fresh(height) == [lines |-> 0, height |-> height, offset |-> 0]

PanelsInit ==
  /\ window = MaxWindow
  /\ teamRows = 0
  /\ tab = "bans"
  /\ rowsCount = [h \in LogHosts |-> 0]
  /\ host \in LogHosts
  /\ console = Fresh(MaxWindow)
  /\ person = Nobody
  /\ banView = Fresh(MaxWindow)
  /\ overview = Fresh(MaxWindow)
  /\ drawn = BansRender(banView, MaxWindow, Nobody)
  /\ away = FALSE

PanelsNext ==
  \/ \E h \in LogHosts : OnLogs(h) \/ SelectServer(h)
  \/ \E p \in Persons : SelectPerson(p)
  \/ \E n \in 0 .. MaxRows : PlayersChange(n)
  \/ \E h \in MaxRows + 1 .. MaxWindow : WindowSize(h)
  \/ \E t \in {"console", "bans", "players"} : SelectPanel(t)
  \/ ScrollUp \/ ScrollDown

PanelsSpec == PanelsInit /\ [][PanelsNext]_panelVars

-----------------------------------------------------------------------------
(* Properties.                                                             *)

(* The console shows the newest line of the selected server's log, across  *)
(* lines that come while another tab or another server is shown, unless    *)
(* the user has scrolled up or the panel has become lower.  The latter is  *)
(* the user's doing only when he resizes the window: a player who joins    *)
(* makes a table longer, and the console stops to follow the log.          *)
TailFollowed ==
  tab = "console" /\ ~away => drawn.offset + drawn.height >= drawn.lines

(* The panels of a player show them from the first row, whatever was       *)
(* scrolled while another player, of whom more is known, or another tab    *)
(* was shown; the rows below the edge of the panel are out of reach.       *)
PlayerFromTheTop == tab \in {"bans", "players"} => drawn.offset = 0

(* What a lower panel that is too small shows: of a log the end, of a      *)
(* player the top.                                                         *)
PanelInSight == TailFollowed /\ PlayerFromTheTop

=============================================================================
