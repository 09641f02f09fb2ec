# A verification of tf-tui

TLA+ models of [tf-tui](../src), a terminal UI that follows Team Fortress 2
servers through RCON and their logs, with the TLC runs that check them on small
instances and TLAPS proofs for every instance. Paths below are relative to
`src/internal/`.

## The system

One process, many goroutines. `cmd/tf-tui/main.go` reads the config, opens what
is needed and starts the goroutines; `App.Start` is the main loop. Client mode
follows the local game (`console.log` and RCON to localhost), server mode any
number of servers (log packets over UDP and RCON to each).

| Component | State | Operations | Talks to |
|---|---|---|---|
| `state/server.go` serverState, one per server | the list of players and the status, under `s.mu`; tickers; the dump fetcher | `start` (event loop), `onStart`, `onDumpTick` (= `updateBD` ∥ `updateDump`), `onIncomingEvent`, `setPlayer`, `player`, `removeExpired`, `Snapshot` | RCON, router (channel), bot detector lists, UI (snapshots) |
| `state/manager.go` Manager | the serverStates, the log source | `NewManager`, `Start`, `Snapshots`; `Close` and the meta queue have no caller | serverState, console source |
| `state/blackbox.go` blackBox, one per server | the match of the moment, the SteamIDs known to the store | `Start`, `onKill`, `onMsg`, `ensureSID` | router (channel), store |
| `tf/events` Router, Parser | three tables of handlers under an RWMutex; compiled expressions | `ListenFor`, `Send`, `Parse` | every listener |
| `tf/console` Local, Remote, Debug | a file tail, a UDP socket, a replayed file; the map from secrets to hosts | `Open`, `Start`, `Close` | router |
| `tf/rcon` Fetcher, Connection | the last dump and status | `Fetch`, `Exec` | the game |
| `bd/bd.go` Fetcher | the bot detector lists | `Update`, `Search` | HTTP |
| `meta`, `cache`, `tfapi` | cached profiles on disk | `MetaProfiles`; `Get`, `Set` | HTTP |
| `config` Loader | viper: the file, the overrides; a watcher | `Read`, `Write`, `onConfigChange` | main loop (channel), config form |
| `cmd/tf-tui` App, run | `app.ui`, the channel `uiUpdates`; what is to be closed | `run`, `Start`, `uiSender`, `logEventUpdater`, `stateSyncer`, `createUI` | everything above, the UI |
| `ui` | bubbletea models, each with a copy of what it needs: view, tab, server, player, form, tables, viewports | one `Update` per model, and commands that run in goroutines | App (`Send`), config loader |
| `store` | SQLite | `Open`, `Migrate`, generated queries | blackBox |
| `network` | – | UPnP port mapping, GeoIP | router at home, serverState |

What is hard here: `Snapshot` hands out the slice `s.players` itself, so its
readers walk an array that others write; `updateBD` and `updateDump` write back
rows they computed from a list that may have changed; `Send` must neither block
on a slow listener nor mix up servers while listeners register; `app.ui` is an
unsynchronised interface; the main loop sends on an unbuffered channel inside the
select that waits for the quit; a config travels from file to viper to channel to
channel to UI, and the UI writes it too; in the UI every model keeps its own copy
of the selection, keys go to all of them, and commands overtake each other; files
and the database are left half written by a process that ends. `PROJECT.json`
lists each under `hazards`, at its line, with the properties aimed at it.

What makes each component correct:

- player list: no duplicates, nobody forgotten, old rows leave, a tick does not
  undo what was known, the UI sees rows of real players only;
- router and parser: a line reaches those who listen for its server and nobody
  else, in order, at most once; a slow listener hurts only itself; what a player
  says is not taken for what a server says;
- App, run and config: a quit always ends the process, no goroutine is stuck with
  a message, the UI ends up with the config in the file, a saved file can be
  loaded, nobody uses a database without its tables;
- UI: the models agree on what is selected, a view can be left, a message goes
  away, rows are in the order of their column, the console follows its log;
- RCON, lists, cache: an answer is whole or an error; a hit is a complete value;
  no download is lost and the update ends; the port mapping does not lapse.

## Modules

| Module | Models | Checked by |
|---|---|---|
| `PlayerBook` | abstract: at most one entry per player, written one at a time, swept when old | implemented by `ServerState` |
| `ServerState` | `state/server.go`, the outcomes of `rcon/fetcher.go`, `App.updateUIState`'s walk over a snapshot | `MCServerState`, `ServerStateProofs` |
| `LossyFeed` | abstract: what a listener may count on, the lines of a source in order and at most once | implemented by `EventRouter` |
| `EventRouter` | `events/router.go`, the loops of the console sources, registration by `NewManager` and `App` | `MCEventRouter`, `EventRouterProofs` |
| `App` | `cmd/tf-tui/app.go`, quitting in `main.go`, `config/loader.go` with viper and the watcher, the root of the UI and its form | `MCApp`, `AppProofs` |
| `Views` | `ui/root.go`, `config.go`, `help.go`, `status_bar.go`: which view is shown, who takes which key | `MCUI`, `UIProofs` |
| `Tabs` | `ui/tabs.go`, the panels of `root.go`, the input of `console.go` | `MCUI`, `UIProofs` |
| `Selection` | `table_servers.go`, `table_player.go`, `overview_server.go`, `App.updateUIState`: the selected server and player | `MCUI`, `UIProofs` |
| `Lines` | `events/parser.go`, `state/blackbox.go`, `store/queries.sql.go`, what `chat.go` and the status bar do with an event | `MCParts`, `StoreProofs` |
| `Rcon` | `rcon/rcon.go` | `MCParts`, `NetworkProofs` |
| `DumpText` | `rcon/fetcher.go` (dumps made of a status or of `g15_dumpplayer`) | `MCParts`, `NetworkProofs` |
| `MetaCache` | `meta/meta_profiles.go`, `cache/cache.go`, the one operation of `tfapi` that is used | `MCParts`, `StoreProofs` |
| `BotLists` | `bd/bd.go` | `MCParts`, `NetworkProofs` |
| `Upnp` | `network/upnp/upnp.go` | `MCParts`, `NetworkProofs` |
| `Sorting` | `slices.SortStableFunc`, as an operator | `PlayerTable`, `Tables`, `TableProofs` |
| `PlayerTable` | `ui/table_player*.go`: rows, headers, cells, styles | `MCParts`, `TableProofs` |
| `Tables` | `ui/table_servers*.go`, `table_comp.go`, `network/geoip`, `styles/flags.go` | `MCParts`, `TableProofs` |
| `Panels` | the viewports of `ui/console.go`, `overview.go`, `table_bans.go` | `MCParts`, `TableProofs` |
| `Startup` | `cmd/tf-tui/main.go` run, `store/store.go`, `NewManager`, the sources' `Open` | `MCParts`, `StoreProofs` |
| `Settings` | the validators and the save of `ui/config.go`, `Loader.Write` and `Read`, the keys of `config/config.go` | `MCParts`, `StoreProofs` |

`Loops` has the lemmas about recursive functions that `TableProofs` and
`NetworkProofs` share. The `MC` modules give constants their values. `MCUI` and `MCParts` put parts side
by side that have no variable in common: one of them runs in a behaviour, named
by `part`, and the others stay as they are, so that a run is the sum and not the
product of its parts. Operators called "Mutated form of ..." stand next to the
definition they mutate; `PROJECT.json` says which property each breaks.

### ServerState

`players` is the contents of the array under `s.players`. A snapshot (`snaps`) is a
length and a mark that says whether it still shares that array: setPlayer
overwrites slots in place, an append goes in place or to a new array (the
capacity is the runtime's choice, so both are possible), `removeExpired` always
builds a new one; an array left behind is frozen, with the snapshots that have it.
A row is a SteamID, the time of the dump its fields come from (`g15`, 0 for a row
that only a status line made) and the version of the bot detector lists its
matches come from (`bd`); names, scores and pings are left out.

`pc`, `batch` and `existing` are where `updateBD` and `updateDump` are and their
locals. Every acquisition of `s.mu`, every row read without it and every row
written inside it is a step; the sections that are one assignment long (`UpdateStatus`,
`player`, `Snapshot`, `removeExpired`) are one step that needs the lock free. A row
copied while the other goroutine stores into its slot may be torn (`Copies`).
`Fetch` has four outcomes: a dump, which may name a player twice, an unparsed reply, and an error with or
without a last dump to return. Other events of `onIncomingEvent` change
no player. `close`, `Stats` and `UpdateMetaProfile` have no caller.

### EventRouter

`NewServerState` registers a blackBox and a serverState per server, in order, and
fills Remote's map from secrets to hosts. `Send` is `RLock` (which finds the handlers), then
one `Deliver` or `Drop` per handler, then `RUnlock`. A listener with an unbuffered
channel accepts while it is parked in its select; the App has a buffer. An event
is its source, its number, who logged it, the host it was given and a type
that the parser may choose freely. `listener[App] = "registering"` is a writer
that waits for the lock, which in a Go RWMutex holds back later readers.

Assumed, because the comments in the config say so: addresses and secrets are
unique. A sender that knows no secret of ours is `Stranger`. `SecretKey` is the
key under which a server's secret stands in the config file.

### App

Configs are numbered in the order they are made. `file` holds one, whole or
half written; `cached` is what viper read last, `override` what `Write` Set,
which viper prefers. `appUI` is `nil`, `torn` or `set`: an interface is written
in two stores, and a reader that sees only the first panics. Handovers on
unbuffered channels are single steps of both sides. `startConfs` is what the
command that `configModel.Init` returns may send: it reads the form's config in a
goroutine of its own, at any time, and its message may come after newer configs.
`Traffic` switches log events and state ticks on, `UserQuits` the keys that end
the UI. Assumptions: an edit that begins ends; the file is not
deleted; a replacement by rename shows as a `create` event, which
`onConfigChange` ignores, and the property speaks of files written in
place; the message of a save is handled before the user can save again;
`WriteConfig` is one step, since after `Set` the content of the file no longer
shows.

### Views, Tabs, Selection

A message goes through `rootModel.Update`, which may keep it, and then to every
model; each answers with commands, whose messages are a bag (`commands`,
`tabCommands`, `running`) and arrive in any order, but for the members of a
`tea.Sequence`. The three modules follow three groups of copies: the view (root,
form, help), the tab (tabs, root, console) and the selection (two player tables,
the server table, the panels). Texts of inputs are unedited, valid or invalid;
scores are no more than which row is first. `updateUIState` sends all snapshots
and then one, which may be any of the servers: the table sorts the slice in
place meanwhile.

### Lines

A line is the set of patterns that it matches and whether a player said it;
`Parse` is the order of the patterns, on all lines that match two. What follows
is who keeps it: the recorder's match, the two statements of a chat line with
their failures, the status bar. A restart keeps the database.

### Rcon, DumpText, MetaCache, BotLists, Upnp

`Rcon` has one `Exec` against a server that sends pieces of the answer, foreign
packets, or nothing. `DumpText` has the two texts that a dump is made of:
a status, of which it keeps who is in which slot, and the lines of a
`g15_dumpplayer`, as field, index and text. `MetaCache` has several callers on one directory, with
`os.Create` and `Write` as two steps between which the process may end.
`BotLists` has a goroutine per download, the channel and the WaitGroup. `Upnp`
counts quarters of an hour.

### PlayerTable, Tables, Panels

A table is its rows and what they were sorted by. `Sorting` has the insertion
sort that `slices.SortStableFunc` is for up to 20 rows, because two of the four
comparisons are no order and what comes out depends on the algorithm. Beyond 20
rows the library sorts blocks and merges them: for an order the stable result is
the same, and of the others the properties say no more than that no row is lost. A cell is
what `At` shows, which is not what the comparison sees. A viewport is the number
of its lines, its height and its offset; each message ends with `View`, which
draws the panel of the active tab with the height that the tables leave.

### Startup, Settings

`Startup` has the steps of `run` for two processes on one directory: each may
fail, and each process may be killed anywhere. The database is golang-migrate's
version and whether the tables exist. `Settings` has the crossings of a config: text of an
input, `Config`, YAML and back, each with what it loses.

## Runs

| Run | Config | Shows | States |
|---|---|---|---|
| `player_list` | 2 players, client mode, clock to 3, one bot detector update | `OneWriter`, `UniqueSIDs`, `TickLosesNothing`, `ImplementsPlayerBook` | 219 k |
| `unlocked_readers` | 2 players, the UI attached | `TypeOK`, `UIRowsDistinct`, `SlotsKeepTheirPlayer` | 740 k |
| `server_loop_live` | 1 player, server mode, cancellable, fair | `StaleRowsGo`, `StopsOnCancel` | 114 k |
| `dumped_players_listed` | 2 players, server mode | **violated**: `DumpedPlayersListed` | – |
| `last_dump_kept` | 2 players, server mode | **violated**: `LastDumpKept` | – |
| `router_owners` | 2 servers and a stranger, 2 lines of 2 sources | `TypeOK`, `NoCrossTalk`, `OwnerIsOffered`, `ImplementsLossyFeed` | 300 k |
| `router_live` | client mode, 2 sources, cancellable, fair | `AppGetsRegistered`, `SourcesStop` | 126 k |
| `app_shutdown` | server mode, traffic, 1 edit, fair | `TypeOK`, `QuitReturns`, `NobodyIsStuck` | 57 k |
| `config_settles` | 2 edits, 1 save, nobody quits, fair | `QuietConfigAgrees`, `ConfigSettles` | 345 k |
| `log_address_removed` | server mode | **violated**: `LogAddressRemoved` | – |
| `ui` | 2 inputs, 9 keys; all tabs; 2 servers, 2 players, 2 clicks; fair | views: `StatusClears`, `FormCanBeLeft`; tabs: `PanelOfTab`; selection: `QuietModelsAgree`, `SelectionSettles`, `ListsCatchUp` | 257 k |
| `parts` | see `MCParts.cfg` | below | 269 k |

What `parts` shows, part by part:

| Part | Property |
|---|---|
| Lines | `ChatForgesNothing`: no chat line changes what the recorder or the status bar keep of a server. `ChatHasItsPlayer`: a chat line is stored only after its player, whatever fails |
| Rcon | `LargeIsWhole`: the answer whole or an error, with foreign packets and a connection that falls silent |
| DumpText | `DumpsAreTrue`: in client mode a field is what its last line says, in server mode nobody's made-up team changes while nobody leaves |
| MetaCache | `AnswerIsComplete`: every known player's profile, or an error, with other callers and ended processes |
| BotLists | `DownloadsKept`: after an update every list that was downloaded is there, once, and `Search` finds each player it names. `BotUpdateReturns`: the update ends |
| Upnp | `MappingOutlives`: two failed renewals in a row do no harm |
| PlayerTable | `PlayerTableReads`: over snapshots with which players come and go, the rows are the team's, the cells below the header clicked last can be read in order, the highlight stays with its player |
| Tables | `ServerTableReads`: every server once, in order, with its own flag. `LatestTeamFirst`: the league history of a player who was never in two teams at a time |
| Panels | `PanelInSight`: the console shows the end of its log, the panels of a player their top |
| Startup | `SchemaBeforeUse`: whoever has the database open has its tables, with kills and two processes |
| Settings | `SavedFileLoads`: what a save wrote can be read, and is what was saved |

**Bounds.** Two players are what a duplicate, a lost update and the order of a
dump need; three ticks with a timeout of one give a row younger than, exactly
at and older than the timeout. Symmetry over SteamIDs is used for safety only.
Two servers and a stranger distinguish right from wrong owners; two lines, of one source or of two at a time, show order, repetition and interleaved calls of `Send`.
Two edits and a save give every order of two writers and the watcher; both properties of
`config_settles` speak of a UI that runs, and are left without the quit. In the UI,
two inputs and the save button have a first, a middle and a last place; a key may be
pressed while a command is pending (`MaxCommands`, two in `Tabs`), which is what
overtaking takes; two clicks are two selections that meet; ticks wait for the
commands of the last one (`MaxAtTick` = 0), as they are a second apart. In the
parts: an answer of up to two packets and a half covers none, exact and inexact
multiples; two callers, recorders and processes are what a race takes; three rows
(and two, when a player has left) tell a sort that is stable from one that is not, and a comparison that is no
order from one that is; four lines are a log longer than its panel. The
proofs remove the bounds for all of the safety properties (see Proofs).

**Deadlock** is checked where nobody ends the system. It is off in the App's runs
(the process ends), in those where the context is cancelled, in `ui` (the user
quits, or has made his clicks) and in `parts` (a call returns, a list is full).

**Fairness.** Weak for a goroutine that runs alone: the Go scheduler is
preemptive, and RCON and HTTP calls have timeouts. Strong for a
case of a `select` that is ready again and again (Go chooses at random; a
ticker's channel keeps its tick) and for a sender on a channel with several
(its queue is first in, first out). bubbletea runs each command in a goroutine of
its own: weak fairness for each message, for the ticks and for the first size of
the window. Downloads end, as the HTTP client has a timeout. None for the game,
the file's editors to begin with, or the listeners of the router; none for the
user either, but for the one of `Views`, who presses esc again and again when he
wants to leave (strong: commands that are pending put a key off, never for good).

### Findings

1. `setPlayer` declares `existing` outside its loop: once one row of a dump
   matches, no newcomer after it is added (`server.go:230`).
2. `Fetch` has a value receiver and forgets the last dump it promises to return
   (`fetcher.go:45`, comment at `server.go:342`).
3. `Manager.Close` is never called, so the log address stays registered
   (`main.go:182`, comment at `server.go:89`).

### What the models show besides

Behaviour that a reader of the code may not expect; the models have it, and the
properties above are stated so as to hold with it.

- The log secret is read from `logsecret`, the README and the defaults write
  `log_secret` (`config.go:100`): with `SecretKey = "log_secret"`
  `OwnerIsOffered` fails, signed logs are refused.
- After a save from the form the file's later changes are hidden by viper's
  overrides (`loader.go:77`); a config file that does not parse is taken for an
  empty one (`loader.go:100`).
- A config change while the UI starts may be lost in three places: in `uiSender`, in the root
  model (`app.go:134`, `root.go:100`), and by the config that the form announces when it
  starts. `configModel.Init` does that in a goroutine of its own (`ui/config.go:178`); if it is
  late, the tables take the first config again in the place of a newer one
  (`table_player.go:91`), and nothing sends the newer one until the next change. Hence
  `missed` in `QuietConfigAgrees` and `ConfigSettles`: the last change that the start hid.
- With an address configured for the client (`ClientAddress`), `OwnerIsOffered`
  fails: the lines of `console.log` are sent for the host `""`, the serverState
  listens for the address (`local.go:95`).
- The key back never leaves the help (`help.go:41`), and a form that is opened a
  second time takes no key: it can neither be saved nor left with esc
  (`config.go:202`). Both models take their keys only while they know that they are shown, and
  the only view ever announced is the main one (`OnlyMainIsAnnounced`); the form
  starts with its own, and the first esc counts wherever it is pressed, in the main view and in
  the help too. `FormCanBeLeft` speaks of a form that still takes itself to be shown.
- After that, help, then the form and the form again leave the help with itself
  as the view before it: only help and form can be reached from there, back does
  nothing, and neither does the key that quits, which is for the main view.
- Two tables that announce a selection each can take it from each other for ever
  when a click meets a tick (`rash` in `SelectionSettles`).
- The RCON input is emptied before enter is handled (`console.go:110`): no
  command is ever sent, stray or not. The first chat line writes to a nil map
  (`chat.go:134`) and ends the UI.
- The console stops following its log when a player joins (`Panels`); bans and details
  below the edge of their panel cannot be scrolled to.
- No header of the server table sorts it, but the flags of Poland and Colombia
  do (`table_servers.go:121`).
- An RCON answer whose last packet has 4096 bytes waits for the timeout and is
  lost (`rcon.go:84`).
- A process killed while the first schema is created leaves a database with which
  no later process starts (`store.go:90`).
- `InsertPlayer` has sqlc's macros in its text and `InsertChat` gives every line the
  same key, so that they fail at this commit; `Lines` lets them succeed, once, and speaks
  of the code around them.

## Proofs

Each theorem is for every value of the constants that the assumption of its module
allows (types, and that special values are told apart from ordinary ones) and needs
nothing more unless the table says so.

| Module | Theorem | Property | Holds for any |
|---|---|---|---|
| `ServerStateProofs` | `TypeCorrect` | `TypeOK`, which includes that no reader runs past its array | players, mode, clock |
| | `MutualExclusion` | `OneWriter` | |
| | `NoDuplicates` | `UniqueSIDs` | |
| | `UIDistinct` | `UIRowsDistinct` | |
| | `TickSafe` | `TickLosesNothing` | |
| | `SlotsStable` | `SlotsKeepTheirPlayer` | |
| | `Refinement` | `ImplementsPlayerBook` | |
| `EventRouterProofs` | `TypeCorrect` | `TypeOK` | servers, mode, size of the App's buffer, lines |
| | `NoCrossTalkHolds` | `NoCrossTalk` | the same, if `SecretKey = "logsecret"` |
| | `OwnerIsOfferedHolds` | `OwnerIsOffered` | the same, and in client mode a client without an address |
| | `RouterImplementsLossyFeed` | `ImplementsLossyFeed` | |
| `AppProofs` | `TypeCorrect` | `TypeOK` | edits, saves, mode, traffic, with and without a quit |
| | `QuietConfigAgreesHolds` | `QuietConfigAgrees` | the same |
| `StoreProofs` | `SchemaBeforeUseHolds` | `SchemaBeforeUse` | processes on one directory |
| | `ChatHasItsPlayerHolds` | `ChatHasItsPlayer` | recorders |
| | `ChatForgesNothingHolds` | `ChatForgesNothing` | recorders |
| | `AnswerIsCompleteHolds` | `AnswerIsComplete` | callers, players |
| | `SavedFileLoadsHolds` | `SavedFileLoads` | SteamIDs |
| `NetworkProofs` | `LargeIsWholeHolds` | `LargeIsWhole` | packet size, answer, foreign packets |
| | `MappingOutlivesHolds` | `MappingOutlives` | services in the network |
| | `DumpsAreTrueHolds` | `DumpsAreTrue` | places in a dump, players, lines |
| | `DownloadsKeptHolds` | `DownloadsKept` | lists and what is in them |
| `UIProofs` | `PanelOfTabHolds` | `PanelOfTab` | commands on their way |
| | `QuietModelsAgreeHolds` | `QuietModelsAgree` | servers, players, clicks |
| | `ClearIsComingHolds` | the safety that `StatusClears` rests on: a message has its timer | inputs, keys, commands |
| | `OnlyMainIsAnnounced` | what help and form are told of the view | inputs, keys, commands |
| `TableProofs` | `StableSortSorts` | (of the operator) | sequences, comparisons |
| | `PlayerTableReadsHolds` | `PlayerTableReads` | rosters, keys, clicks |
| | `ServerTableReadsHolds` | `ServerTableReads` | servers, countries, clicks |
| | `LatestTeamFirstHolds` | `LatestTeamFirst` | careers, however often selected |
| | `PanelInSightHolds` | `PanelInSight` | logs, windows, tables that leave a line |

The two conditions on the router are not for convenience: without the first
signed logs are refused, without the second the lines of the client reach the App
only (see "What the models show besides").

### The arguments

**ServerState.** The inductive invariant is

    IInv == TypeOK /\ UniqueSIDs /\ Control /\ ReadersInv /\ RowsInv

- `UniqueSIDs` is inductive given the types, since setPlayer appends only under the
  lock and only a player it has not found in the array of that moment.
- `Control` says which locals are in use at which point: a batch is empty when
  its goroutine begins, `base` is empty between ticks, a reader that is not
  walking has no snapshot.
- `ReadersInv`: the rows under each snapshot, shared or frozen, are of different
  players, and what the UI has copied so far is a prefix of what is under its
  snapshot. It needs `SlotsKeepTheirPlayer` for one step (`ReaderStep`): an overwrite puts
  a row where one of the same player was, an append goes past the end of every
  snapshot, a sweep moves away.
- `RowsInv`: wherever a row is (the list, a batch, under updateBD's snapshot)
  it comes from the past and is not older than the row of that player in `base`,
  and `base` is a prefix of the list, slot by slot. `TickLosesNothing`
  alone is not inductive: it says nothing of the rows that wait to be written.

`Refinement` maps the list to a function from players to sets of
stamps; `UniqueSIDs` makes every such set a singleton or empty, `RowsInv` puts its stamps
in the past. One `Write` or `OnStatusID` is `Put`, `RemoveExpired` is `Expire`, the clock ticks, all
else stutters.

**EventRouter.** `RouteInv` and `OriginInv` carry the first two properties.
`RouteInv` says what is in the handler tables (the handlers of the servers built
so far, each once and under its own host, and the App when it is registered) and,
of a call of `Send`, that the handlers still to be offered the line are all
different, none was tried, each is meant to hear that host, and none that is meant
to is left out. `OriginInv` says that the map from secrets to hosts has the servers
built so far, each under its own secret, so that a line in flight for the host of a
server was logged by it: addresses and secrets are unique. `NoCrossTalk` speaks
of what has been heard, and by itself says nothing of the lines in flight.

For `LossyFeed` a third, `OrderInv`: the line in a call of `Send` is the last its
source has read, the handlers still to be offered it have heard only older ones,
and the App's buffer holds lines of a source in increasing order, all of them newer
than what the App has taken out. It is here that a handler must not be in the tables
twice. `RLock` is `ReadLine`, a `Deliver` to a listener that takes the line and the
App's receive from its buffer are `Hear`; all else stutters.

**App.** `TypeOK` bounds the numbers of configs, which needs `EditsBounded`: while the
file is half written one edit is still to be counted. `PipeInv` follows a config
from the file to the UI. The watcher, the main loop and `uiSender` hold one each
and take no other before they have handed it on, so that the one nearest to the
file (`Newest`, or what the UI has when nobody holds one) is the newest that was
read; the last event in the queue is that of the last change, and no save waits to be
announced but of what was Set. The first message of the form may be
anything older: what it puts back is in `missed` from then on. `QuietConfigAgrees` is the case in which nobody holds one:
it is not inductive, as it says nothing of the configs on their way.

**Startup.** `SchemaInv`: a version that is marked clean, and a process past the
creation of the tables, imply the tables, which nobody drops.
**Lines.** `PlayerInv`: a SteamID that a recorder takes for known is stored, so that
`ensureSID` may skip it; a failed statement leaves it unknown. `FactsInv` rests on
`ChatParsesAsChat`: the pattern of a chat line is tried before all
that a server's own lines match but the kill.

**Rcon.** `RconInv` gives every packet in the inbox the place in the answer at which it
begins; what was read and what waits make up what was sent, and a packet of ours
that is not full ends the answer. **Upnp.** `LeaseInv`: the lease and the failures
since the last renewal make up the length of a lease.
**DumpText.** `G15Inv` is the property with a witness for the last line. `StatusInv`: who
is on the server and not in the last dump has a higher user ID than all in it; so a
dump that has everybody from the one before has them first, and in a list without
repetitions the place of an ID is the number of lower ones (`PlaceInList`).
**BotLists.** `BotInv`: who is not waited for has sent or failed, and what was sent is
collected, once. What `Search` has found in the first lists, once in each that names the player,
is shown by induction.

**MetaCache.** `CallOK`: the profiles found, the players missing and those still to be
looked up make up what was asked for; `FilesOK`: a file that can be read is that of a
known player, since one that is cut off reads as a miss. **Settings.** `WriteThenRead`:
what `Write` makes of a config `Read` makes into the same config; the form saves
none that is invalid.

**Loops.** A loop that builds its result a pass at a time is a recursive function on
`0 .. N`. `Recursion` proves that there is one, which TLA+'s `CHOOSE` leaves open, by
the least `N` for which there is none; a property of it is then proved by the least
`n` for which it fails (`LeastNatural`, from the well-founded order of finite sets).
This takes the place of the library's theorems of induction, which the provers cannot
instantiate.
**Sorting.** A sort is a permutation (`SortOf`) that, if the comparison is `Sortable`
(one way only, its negation transitive), has no row before one that should come
first; `InsertSorts` adds a row to a sorted prefix. What is `Sortable` is then
all that matters. **PlayerTable.** Every comparison of two players is an order, by rank or by
text, and one of whole addresses keeps their hosts, which the cells show, in order too; `PlayerInv` keeps the rows a
permutation of the team, in the order of what they were sorted by, over snapshots that are sorted
again. **Tables.** The comparison of servers by players is an order only if lists
and status agree, that of two stints only if no two overlap; `ServerInv` and `CareerInv`
hold without that, the order under it.

**Views.** `ViewsInv`: a message in the status bar has a timer among the
commands, and no view is announced but the main one.
**Tabs.** `TabsInv`: as long as nothing was `rushed`, all announcements on their way are
of the tab that is marked, and when there are none the root has it.
**Selection.** `SelInv`: whenever two models disagree (on server, player or team) there is
a command running that will have them agree. The models agree when it is quiet only because of that.
**Panels.** `PanelsInv`: the viewport is at its bottom unless somebody scrolled or the
panel became lower, and the panels of a player have never moved.

### Only model-checked

Every safety property of a passing run is proved. What is left to TLC:

- Liveness, since fairness and ENABLED are beyond the prover: `StaleRowsGo`,
  `StopsOnCancel`, `AppGetsRegistered`, `SourcesStop`, `QuitReturns`,
  `NobodyIsStuck`, `ConfigSettles`, `StatusClears`, `FormCanBeLeft`,
  `SelectionSettles`, `ListsCatchUp`, `BotUpdateReturns`.
- What is violated: `DumpedPlayersListed`, `LastDumpKept`, `LogAddressRemoved`.

## Not modelled, and why

- Of the API client all but the one operation that is called: it is generated,
  and keeps no state. Most queries of the store, for the same reason.
- A lower panel of no line or less, which `rootModel.View` asks for in a very low window
  (`root.go:184`): `PanelsAssumption` leaves a line, as what the viewport does
  without one is up to its library.
- Layout, colours, icons and wording; `FetchJSON`; the discovery of the router at home.
- The text of the expressions in the parser, in `ParseGamePlugins` and `ParseCVars`, the
  bytes of a log packet, the numbers of `stats`, the scores of a recorded match:
  patterns over text and figures nobody compares.
- What is never reached: the RCON branch of `App.Start` reads a channel nothing
  writes to; `metaUpdater`, `Manager.onDumpTick` and `Manager.Close` have no
  caller (`MetaCache` models the fetcher for the caller that is commented out);
  `moveSelection` needs an input zone that nothing sets; the panel of the bot
  detector and the notes never hold anything.
- Two data races: viper's maps (`Write` against `Read`) and the slice header of
  `bd.Fetcher.lists` (`Search` against `Update`). In both the replacement of the
  whole is one step here. A third, of `stateSyncer` with the sort of the server
  table (`app.go:215`), is in `Selection` but for a torn read.
- Panics that follow from one input: the first chat line (`Lines` ends the UI
  there), more players than a dump has places for (`DumpText`), an answer of the
  API that is not JSON (`MetaCache`), a log packet that is too short.

## What is left

1. Safety facts that the liveness properties lean on, stated by themselves and
   proved: in `App`, who still sends and who still receives once the quit has
   begun; in `EventRouter`, who holds the lock.
2. `ServerState`: how the stamps of a row grow from tick to tick, as an action property.
3. The liveness properties themselves, with provers that handle ENABLED.
