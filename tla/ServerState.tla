----------------------------- MODULE ServerState ----------------------------
(***************************************************************************)
(* internal/state/server.go: the state tf-tui keeps of one game server,    *)
(* and the four goroutines that touch it:                                  *)
(*                                                                         *)
(*   loop  serverState.start: onStart, then a select over the log events,  *)
(*         the dump ticker, the remove ticker and ctx.Done;                *)
(*   bd    updateBD, dump  updateDump: both started by onDumpTick, which   *)
(*         waits for the two of them before the loop goes on;              *)
(*   ui    app.stateSyncer, which copies a Snapshot into what it shows.    *)
(*                                                                         *)
(* s.players is a Go slice.  Snapshot returns that slice, not a copy, and  *)
(* its readers walk the backing array after s.mu has been released, while  *)
(* setPlayer overwrites slots of the same array.  Only the array s.players *)
(* is a slice of is ever written to: players is the content of that array, *)
(* a snapshot is a length and a mark that says it still shares it, and     *)
(* when s.players moves to another array (append out of capacity,          *)
(* removeExpired) the old one stays, frozen, with the snapshots of it.     *)
(*                                                                         *)
(* A row keeps what the code's decisions and races depend on: the SteamID, *)
(* the time of the dump the game fields (and G15UpdatedOn) come from, and  *)
(* which m.lists of the bot detector Fetcher BDMatches was computed from.  *)
(* s.address and s.eventCount are written and never read: not kept.        *)
(***************************************************************************)
EXTENDS Naturals, Sequences

CONSTANTS SteamIDs,       \* valid SteamIDs
          Remote,         \* conf.ServerModeEnabled
          Cancellable,    \* whether ctx gets cancelled
          UIAttached,     \* app.ui # nil: the UI has been created
          MaxPlayerCount, \* tf.MaxPlayerCount, the slots of a dump
          PlayerTimeout,  \* playerTimeout, in ticks of the clock
          MaxTime,        \* bound: the clock stops here
          NumUpdates      \* bound: calls of bd.Fetcher.Update

ASSUME ConstantsAssumption ==
  /\ Remote \in BOOLEAN
  /\ Cancellable \in BOOLEAN
  /\ UIAttached \in BOOLEAN
  /\ MaxPlayerCount \in Nat
  /\ PlayerTimeout \in Nat
  /\ MaxTime \in Nat \ {0}
  /\ NumUpdates \in Nat

VARIABLES
  players,      \* s.players, and all its backing array holds
  snaps,        \* the Snapshots updateBD and updateUIState range over
  status,       \* s.status: time of the status reply it came from
  mu,           \* the goroutine inside a multi-step s.mu.Lock() section
  loop,         \* where start() is
  loaded,       \* what onStart managed to fetch
  pc,           \* where updateBD and updateDump are
  batch,        \* the updates each of them is building, then writing
  existing,     \* the local of that name of their setPlayer calls
  dumpFetcher,  \* s.dumpFetcher: lastUpdate and lastStatus
  result,       \* what Fetch returned to updateDump
  ui,           \* where updateUIState is
  uiRows,       \* the rows it has copied so far
  lists,        \* bd.Fetcher.lists: how many Updates it has had
  now,          \* the clock
  ctxDone,      \* ctx is cancelled
  base          \* history: the rows at the start of the current dump tick

vars == <<players, snaps, status, mu, loop, loaded, pc, batch, existing,
          dumpFetcher, result, ui, uiRows, lists, now, ctxDone, base>>

listVars   == <<players, snaps>>
tickVars   == <<pc, batch, existing, result, base>>
uiVars     == <<ui, uiRows>>
loopVars   == <<loop, loaded>>
envVars    == <<lists, now, ctxDone>>

Goroutines == {"bd", "dump"}
Readers    == {"bd", "ui"}

Never == 0

Row    == [sid : SteamIDs, g15 : Nat, bd : Nat]
Snap   == [shared : BOOLEAN, len : Nat, rows : Seq(Row)]
Result == [dump : Seq(SteamIDs), status : Nat, err : BOOLEAN]

NoSnap   == [shared |-> FALSE, len |-> 0, rows |-> <<>>]
NoResult == [dump |-> <<>>, status |-> Never, err |-> FALSE]

(* A player seen for the first time: Player{SteamID: sid, ...}.            *)
NewPlayer(sid) == [sid |-> sid, g15 |-> Never, bd |-> 0]

Slots(sid) == {i \in DOMAIN players : players[i].sid = sid}

(* player(): the first row with this SteamID, or ErrPlayerNotFound, on     *)
(* which both callers start from a new Player.                             *)
PlayerOrNew(sid) ==
  IF Slots(sid) = {}
  THEN NewPlayer(sid)
  ELSE players[CHOOSE i \in Slots(sid) : \A j \in Slots(sid) : i <= j]

(* Mutated form of Expired: a player times out one tick early.             *)
ExpiredEarly(row) ==
  \/ row.g15 = Never
  \/ now - row.g15 >= PlayerTimeout

(* time.Since saturates on the zero time: never dumped is expired.         *)
Expired(row) ==
  \/ row.g15 = Never
  \/ now - row.g15 > PlayerTimeout

-----------------------------------------------------------------------------
(* The slice and its backing array.                                        *)

(* Snapshot().Players: the slice itself.                                   *)
Snapshot == [shared |-> TRUE, len |-> Len(players), rows |-> <<>>]

(* What the array under a snapshot holds now.                              *)
RowsUnder(r) == IF snaps[r].shared THEN players ELSE snaps[r].rows

(* Mutated form of MoveTo: the array shrinks or moves under its snapshots. *)
MoveToShared(rows) == players' = rows /\ UNCHANGED snaps

(* s.players moves to a new array; the old one is left to its snapshots.   *)
MoveTo(rows) ==
  /\ players' = rows
  /\ snaps' = [r \in Readers |->
                 IF snaps[r].shared
                 THEN [shared |-> FALSE, len |-> snaps[r].len, rows |-> players]
                 ELSE snaps[r]]

(* append: in place while the array has capacity left, else a copy.  Which *)
(* of the two is up to the runtime.                                        *)
AppendPlayer(row) ==
  \/ players' = Append(players, row) /\ UNCHANGED snaps
  \/ MoveTo(Append(players, row))

-----------------------------------------------------------------------------
(* setPlayer.                                                              *)

Overwrite(row) ==
  /\ players' = [i \in DOMAIN players |->
                   IF players[i].sid = row.sid THEN row ELSE players[i]]
  /\ UNCHANGED snaps

(* Mutated form of SetPlayer: append without regard to a match.            *)
SetPlayerUnmatched(row, seen) ==
  \/ Slots(row.sid) # {} /\ Overwrite(row)
  \/ ~seen /\ AppendPlayer(row)
  \/ Slots(row.sid) = {} /\ seen /\ UNCHANGED listVars

(* One iteration of the loop over the updates.  seen is the local          *)
(* `existing`, which is declared outside of the loop: an update that       *)
(* matches no row is appended only if no earlier update of the same call   *)
(* matched one.                                                            *)
SetPlayer(row, seen) ==
  \/ Slots(row.sid) # {} /\ Overwrite(row)
  \/ Slots(row.sid) = {} /\ ~seen /\ AppendPlayer(row)
  \/ Slots(row.sid) = {} /\ seen /\ UNCHANGED listVars

(* Mutated form of Lock: setPlayer without s.mu.                           *)
LockNothing(g) ==
  /\ pc[g] = "set"
  /\ mu' = g
  /\ pc' = [pc EXCEPT ![g] = "write"]
  /\ UNCHANGED <<listVars, status, loopVars, batch, existing, dumpFetcher,
                 result, uiVars, envVars, base>>

Lock(g) ==
  /\ pc[g] = "set"
  /\ mu = "none"
  /\ mu' = g
  /\ pc' = [pc EXCEPT ![g] = "write"]
  /\ UNCHANGED <<listVars, status, loopVars, batch, existing, dumpFetcher,
                 result, uiVars, envVars, base>>

Write(g) ==
  /\ pc[g] = "write"
  /\ batch[g] # <<>>
  /\ SetPlayer(Head(batch[g]), existing[g])
  /\ existing' = [existing EXCEPT
                    ![g] = @ \/ Slots(Head(batch[g]).sid) # {}]
  /\ batch' = [batch EXCEPT ![g] = Tail(@)]
  /\ UNCHANGED <<status, mu, loopVars, pc, dumpFetcher, result, uiVars,
                 envVars, base>>

(* Mutated form of Unlock: the deferred s.mu.Unlock() is missing.          *)
UnlockNothing(g) ==
  /\ pc[g] = "write"
  /\ batch[g] = <<>>
  /\ pc' = [pc EXCEPT ![g] = "done"]
  /\ existing' = [existing EXCEPT ![g] = FALSE]
  /\ UNCHANGED <<listVars, status, mu, loopVars, batch, dumpFetcher, result,
                 uiVars, envVars, base>>

Unlock(g) ==
  /\ pc[g] = "write"
  /\ batch[g] = <<>>
  /\ mu' = "none"
  /\ pc' = [pc EXCEPT ![g] = "done"]
  /\ existing' = [existing EXCEPT ![g] = FALSE]
  /\ UNCHANGED <<listVars, status, loopVars, batch, dumpFetcher, result,
                 uiVars, envVars, base>>

-----------------------------------------------------------------------------
(* updateBD.                                                               *)

BDSnapshot ==
  /\ pc["bd"] = "begin"
  /\ mu = "none"
  /\ snaps' = [snaps EXCEPT !["bd"] = Snapshot]
  /\ pc' = [pc EXCEPT !["bd"] = "build"]
  /\ UNCHANGED <<players, status, mu, loopVars, batch, existing, dumpFetcher,
                 result, uiVars, envVars, base>>

(* What an unlocked copy of slot i can return.  While updateDump is storing *)
(* a row into that slot the copy may be torn.  The two rows agree on the   *)
(* SteamID, and BDMatches is replaced by the caller; the time is the old   *)
(* or the new one or, when the old one is the zero time, the new wall      *)
(* clock word over a zero monotonic one: the start of the process.         *)
Copies(i) ==
  LET old == RowsUnder("bd")[i]
      new == Head(batch["dump"])
      storing == /\ mu = "dump" /\ batch["dump"] # <<>>
                 /\ snaps["bd"].shared /\ new.sid = old.sid
  IN  {old} \cup
      (IF storing THEN {new, [old EXCEPT !.g15 = IF @ = Never THEN 1 ELSE @]}
                  ELSE {})

BDBuild ==
  /\ pc["bd"] = "build"
  /\ Len(batch["bd"]) < snaps["bd"].len
  /\ \E row \in Copies(Len(batch["bd"]) + 1) :
       batch' = [batch EXCEPT !["bd"] = Append(@, [row EXCEPT !.bd = lists])]
  /\ UNCHANGED <<listVars, status, mu, loopVars, pc, existing, dumpFetcher,
                 result, uiVars, envVars, base>>

BDBuilt ==
  /\ pc["bd"] = "build"
  /\ Len(batch["bd"]) = snaps["bd"].len
  /\ pc' = [pc EXCEPT !["bd"] = "set"]
  /\ snaps' = [snaps EXCEPT !["bd"] = NoSnap]
  /\ UNCHANGED <<players, status, mu, loopVars, batch, existing, dumpFetcher,
                 result, uiVars, envVars, base>>

-----------------------------------------------------------------------------
(* updateDump.  The dump is the sequence of its valid SteamIDs; nothing    *)
(* keeps it from naming a player twice.                                    *)

Fetched(res) ==
  /\ pc["dump"] = "begin"
  /\ result' = res
  /\ pc' = [pc EXCEPT !["dump"] = "status"]
  /\ UNCHANGED <<listVars, status, mu, loopVars, batch, existing, uiVars,
                 envVars, base>>

(* Fetch, when the rcon command and the parsing of its reply succeed.      *)
(* Fetch has a value receiver: what it assigns to f.lastUpdate and         *)
(* f.lastStatus goes to its copy of the Fetcher, and dumpFetcher keeps its *)
(* value.  Only server mode fills in a status.                             *)
FetchOk ==
  \E n \in 0..MaxPlayerCount : \E dump \in [1..n -> SteamIDs] :
    /\ Fetched([dump |-> dump, status |-> IF Remote THEN now ELSE Never,
                err |-> FALSE])
    /\ UNCHANGED dumpFetcher

(* Server mode, and the status reply does not parse: nothing is reported,  *)
(* and the zero value of f.lastStatus.Status has no players to dump.       *)
FetchUnparsed ==
  /\ Remote
  /\ Fetched(NoResult)
  /\ UNCHANGED dumpFetcher

(* Fetch, when the rcon command fails: the last dump if there is one, and  *)
(* no error then.  (With DEBUG set in the environment made up players are  *)
(* returned instead of an error; not modelled.)                            *)
FetchFail ==
  /\ Fetched(IF dumpFetcher.lastUpdate # <<>>
             THEN [dump |-> dumpFetcher.lastUpdate,
                   status |-> dumpFetcher.lastStatus, err |-> FALSE]
             ELSE [NoResult EXCEPT !.err = TRUE])
  /\ UNCHANGED dumpFetcher

(* An error is logged; what came with it is stored all the same.           *)
UpdateStatus ==
  /\ pc["dump"] = "status"
  /\ mu = "none"
  /\ status' = result.status
  /\ pc' = [pc EXCEPT !["dump"] = "build"]
  /\ UNCHANGED <<listVars, mu, loopVars, batch, existing, dumpFetcher, result,
                 uiVars, envVars, base>>

(* Mutated form of DumpBuild: every row starts as a new Player.            *)
DumpBuildAnew ==
  /\ pc["dump"] = "build"
  /\ Len(batch["dump"]) < Len(result.dump)
  /\ mu = "none"
  /\ batch' = [batch EXCEPT !["dump"] =
                 Append(@, [NewPlayer(result.dump[Len(@) + 1])
                              EXCEPT !.g15 = now])]
  /\ UNCHANGED <<listVars, status, mu, loopVars, pc, existing, dumpFetcher,
                 result, uiVars, envVars, base>>

(* UpdateDumpPlayer, one slot of the dump: player() takes s.mu for the     *)
(* lookup only, and the row built from it waits in the batch.              *)
DumpBuild ==
  /\ pc["dump"] = "build"
  /\ Len(batch["dump"]) < Len(result.dump)
  /\ mu = "none"
  /\ batch' = [batch EXCEPT !["dump"] =
                 Append(@, [PlayerOrNew(result.dump[Len(@) + 1])
                              EXCEPT !.g15 = now])]
  /\ UNCHANGED <<listVars, status, mu, loopVars, pc, existing, dumpFetcher,
                 result, uiVars, envVars, base>>

DumpBuilt ==
  /\ pc["dump"] = "build"
  /\ Len(batch["dump"]) = Len(result.dump)
  /\ pc' = [pc EXCEPT !["dump"] = "set"]
  /\ UNCHANGED <<listVars, status, mu, loopVars, batch, existing, dumpFetcher,
                 result, uiVars, envVars, base>>

-----------------------------------------------------------------------------
(* start.                                                                  *)

(* onStart makes one rcon or http request after the other; the next is     *)
(* made whether or not this one fails.                                     *)
OnStartThen == [registerAddress |-> "fetchCVarList",
                fetchCVarList |-> "fetchSMPluginsList",
                fetchSMPluginsList |-> "fetchMetaPluginsList",
                fetchMetaPluginsList |-> "resolveCountry",
                resolveCountry |-> "select"]

OnStart ==
  /\ loop \in DOMAIN OnStartThen
  /\ loaded' \in {loaded, loaded \cup {loop}}
  /\ loop' = OnStartThen[loop]
  /\ UNCHANGED <<listVars, status, mu, tickVars, dumpFetcher, uiVars, envVars>>

(* onIncomingEvent with a StatusIDEvent: the only event that changes what  *)
(* is kept.  The name it sets is not modelled, the row it may add is.      *)
OnStatusID(sid) ==
  /\ loop = "select"
  /\ mu = "none"
  /\ SetPlayer(PlayerOrNew(sid), FALSE)
  /\ UNCHANGED <<status, mu, loopVars, tickVars, dumpFetcher, uiVars, envVars>>

OnDumpTick ==
  /\ loop = "select"
  /\ loop' = "dump"
  /\ pc' = [g \in Goroutines |-> "begin"]
  /\ base' = players
  /\ UNCHANGED <<listVars, status, mu, loaded, batch, existing, dumpFetcher,
                 result, uiVars, envVars>>

(* waitGroup.Wait() returns.                                               *)
DumpTickDone ==
  /\ loop = "dump"
  /\ \A g \in Goroutines : pc[g] = "done"
  /\ loop' = "select"
  /\ base' = <<>>
  /\ result' = NoResult
  /\ UNCHANGED <<listVars, status, mu, loaded, pc, batch, existing,
                 dumpFetcher, uiVars, envVars>>

Survivors == {i \in DOMAIN players : ~Expired(players[i])}

(* order enumerates the slots in `slots` from the lowest to the highest.   *)
Enumerates(order, slots) ==
  /\ slots = {order[i] : i \in DOMAIN order}
  /\ \A i, j \in DOMAIN order : i < j => order[i] < order[j]

(* Mutated form of RemoveExpired: the rows that stay are moved up within   *)
(* the array (valid := s.players[:0]), under the eyes of its readers.      *)
RemoveExpiredInPlace ==
  /\ loop = "select"
  /\ mu = "none"
  /\ \E n \in 0..Len(players) : \E order \in [1..n -> Survivors] :
       /\ Enumerates(order, Survivors)
       /\ players' = [i \in 1..n |-> players[order[i]]]
       /\ snaps' = [r \in Readers |->
                      IF snaps[r].shared
                      THEN [shared |-> FALSE, len |-> snaps[r].len,
                            rows |-> players' \o
                                     SubSeq(players, n + 1, Len(players))]
                      ELSE snaps[r]]
  /\ UNCHANGED <<status, mu, loopVars, tickVars, dumpFetcher, uiVars, envVars>>

(* Mutated form of RemoveExpired: a player never dumped is not swept.      *)
RemoveExpiredDumped ==
  LET kept == Survivors \cup {i \in DOMAIN players : players[i].g15 = Never}
  IN  /\ loop = "select"
      /\ mu = "none"
      /\ \E n \in 0..Len(players) : \E order \in [1..n -> kept] :
           /\ Enumerates(order, kept)
           /\ MoveTo([i \in 1..n |-> players[order[i]]])
      /\ UNCHANGED <<status, mu, loopVars, tickVars, dumpFetcher, uiVars,
                     envVars>>

(* The rows that stay are copied, in order, to a new array.                *)
RemoveExpired ==
  /\ loop = "select"
  /\ mu = "none"
  /\ \E n \in 0..Len(players) : \E order \in [1..n -> Survivors] :
       /\ Enumerates(order, Survivors)
       /\ MoveTo([i \in 1..n |-> players[order[i]]])
  /\ UNCHANGED <<status, mu, loopVars, tickVars, dumpFetcher, uiVars, envVars>>

(* case <-ctx.Done().                                                      *)
Stop ==
  /\ loop = "select"
  /\ ctxDone
  /\ loop' = "stopped"
  /\ UNCHANGED <<listVars, status, mu, loaded, tickVars, dumpFetcher, uiVars,
                 envVars>>

-----------------------------------------------------------------------------
(* app.updateUIState: a Snapshot, then an unlocked walk over its players.  *)

UISnapshot ==
  /\ UIAttached
  /\ ui = "idle"
  /\ mu = "none"
  /\ ui' = "copy"
  /\ snaps' = [snaps EXCEPT !["ui"] = Snapshot]
  /\ UNCHANGED <<players, status, mu, loopVars, tickVars, dumpFetcher, uiRows,
                 envVars>>

UICopy ==
  /\ ui = "copy"
  /\ Len(uiRows) < snaps["ui"].len
  /\ uiRows' = Append(uiRows, RowsUnder("ui")[Len(uiRows) + 1].sid)
  /\ UNCHANGED <<listVars, status, mu, loopVars, tickVars, dumpFetcher, ui,
                 envVars>>

UISend ==
  /\ ui = "copy"
  /\ Len(uiRows) = snaps["ui"].len
  /\ ui' = "idle"
  /\ uiRows' = <<>>
  /\ snaps' = [snaps EXCEPT !["ui"] = NoSnap]
  /\ UNCHANGED <<players, status, mu, loopVars, tickVars, dumpFetcher, envVars>>

-----------------------------------------------------------------------------
(* The world outside: the clock; bd.Fetcher.Update, which replaces m.lists *)
(* by what it has downloaded (that Search reads m.lists with no lock, and  *)
(* may panic on one that is half written, is left out); the cancellation   *)
(* of ctx (nothing cancels the context main passes; start handles it).     *)

othersVars == <<listVars, status, mu, loopVars, tickVars, dumpFetcher, uiVars>>

Tick ==
  /\ now < MaxTime
  /\ now' = now + 1
  /\ UNCHANGED <<othersVars, lists, ctxDone>>

BDUpdated ==
  /\ lists < NumUpdates
  /\ lists' = lists + 1
  /\ UNCHANGED <<othersVars, now, ctxDone>>

Cancel ==
  /\ Cancellable /\ ~ctxDone
  /\ ctxDone' = TRUE
  /\ UNCHANGED <<othersVars, lists, now>>

-----------------------------------------------------------------------------

Init ==
  /\ players = <<>>
  /\ snaps = [r \in Readers |-> NoSnap]
  /\ status = Never
  /\ mu = "none"
  /\ loop = IF Remote THEN "registerAddress" ELSE "select"
  /\ loaded = {}
  /\ pc = [g \in Goroutines |-> "done"]
  /\ batch = [g \in Goroutines |-> <<>>]
  /\ existing = [g \in Goroutines |-> FALSE]
  /\ dumpFetcher = [lastUpdate |-> <<>>, lastStatus |-> Never]
  /\ result = NoResult
  /\ ui = "idle"
  /\ uiRows = <<>>
  /\ lists = 0
  /\ now = 1
  /\ ctxDone = FALSE
  /\ base = <<>>

UpdateBD ==
  BDSnapshot \/ BDBuild \/ BDBuilt \/ Lock("bd") \/ Write("bd") \/ Unlock("bd")

UpdateDump ==
  \/ FetchOk \/ FetchUnparsed \/ FetchFail
  \/ UpdateStatus \/ DumpBuild \/ DumpBuilt
  \/ Lock("dump") \/ Write("dump") \/ Unlock("dump")

Select ==
  \/ \E sid \in SteamIDs : OnStatusID(sid)
  \/ OnDumpTick \/ DumpTickDone \/ RemoveExpired \/ Stop

UpdateUIState == UISnapshot \/ UICopy \/ UISend

Environment == Tick \/ BDUpdated \/ Cancel

Next ==
  OnStart \/ Select \/ UpdateBD \/ UpdateDump \/ UpdateUIState \/ Environment

Spec == Init /\ [][Next]_vars

(* Every goroutine that can run does run: rcon and http calls return or    *)
(* time out.  The select statement picks at random among the cases that    *)
(* are ready, and a ticker channel holds its tick until it is received:    *)
(* whichever case is ready again and again is taken eventually.            *)
Fairness ==
  /\ WF_vars(OnStart)
  /\ WF_vars(UpdateBD)
  /\ WF_vars(UpdateDump)
  /\ WF_vars(DumpTickDone)
  /\ SF_vars(RemoveExpired)
  /\ SF_vars(Stop)

FairSpec == Spec /\ Fairness

-----------------------------------------------------------------------------
(* Properties.                                                             *)

PCs == {"begin", "status", "build", "set", "write", "done"}

(* Every variable has its type, and a snapshot never reaches past the      *)
(* slots its array holds: no walk over one can run out of it.              *)
TypeOK ==
  /\ players \in Seq(Row)
  /\ snaps \in [Readers -> Snap]
  /\ \A r \in Readers : snaps[r].len <= Len(RowsUnder(r))
  /\ status \in Nat
  /\ mu \in Goroutines \cup {"none"}
  /\ loop \in DOMAIN OnStartThen \cup {"select", "dump", "stopped"}
  /\ loaded \subseteq DOMAIN OnStartThen
  /\ pc \in [Goroutines -> PCs]
  /\ batch \in [Goroutines -> Seq(Row)]
  /\ existing \in [Goroutines -> BOOLEAN]
  /\ dumpFetcher \in [lastUpdate : Seq(SteamIDs), lastStatus : Nat]
  /\ result \in Result
  /\ ui \in {"idle", "copy"}
  /\ uiRows \in Seq(SteamIDs)
  /\ lists \in 0..NumUpdates
  /\ now \in 1..MaxTime
  /\ ctxDone \in BOOLEAN
  /\ base \in Seq(Row)

(* s.mu excludes: only one goroutine is in the middle of setPlayer, it is  *)
(* the one that holds s.mu, and outside of a dump tick nobody is.          *)
OneWriter ==
  /\ \A g \in Goroutines : pc[g] = "write" <=> mu = g
  /\ loop # "dump" => \A g \in Goroutines : pc[g] = "done"

(* No player is listed twice: setPlayer looks its row up again under s.mu, *)
(* however stale the row it was handed and whoever else wrote meanwhile.   *)
UniqueSIDs ==
  \A i, j \in DOMAIN players : players[i].sid = players[j].sid => i = j

(* No step, of whatever goroutine, changes which player the slots under a  *)
(* Snapshot belong to while somebody still ranges over them: that is what  *)
(* lets the readers do without s.mu.                                       *)
SlotsKeepTheirPlayer ==
  [][\A r \in Readers : \A i \in 1..snaps[r].len :
       snaps'[r].len = snaps[r].len =>
         (RowsUnder(r)[i].sid)' = RowsUnder(r)[i].sid]_vars

(* The player list updateUIState sends to the UI, copied row by row with   *)
(* no lock, never shows a player twice.                                    *)
UIRowsDistinct == \A i, j \in DOMAIN uiRows : uiRows[i] = uiRows[j] => i = j

(* updateBD and updateDump overwrite each other's results, but only those  *)
(* of the same tick: while a tick runs and when it ends, every player that *)
(* was listed when it began is still in its slot, with dump data and bot   *)
(* detector matches no older than they were then.                          *)
TickLosesNothing ==
  \A i \in DOMAIN base :
    /\ i \in DOMAIN players
    /\ players[i].sid = base[i].sid
    /\ players[i].g15 >= base[i].g15
    /\ players[i].bd >= base[i].bd

StampOf(row) == [g15 |-> row.g15, bd |-> row.bd]

BookOfPlayers == [s \in SteamIDs |-> {StampOf(players[i]) : i \in Slots(s)}]

Book == INSTANCE PlayerBook WITH book <- BookOfPlayers

(* The player list, seen through the slices and locks, is the book of      *)
(* PlayerBook: rows change one at a time, and vanish only by expiring.     *)
ImplementsPlayerBook == Book!Spec

Stale(s) == \E i \in Slots(s) : Expired(players[i])

(* A player the server no longer reports leaves the list: a row that has   *)
(* expired is refreshed or removed, unless the loop is stopped.            *)
StaleRowsGo == \A s \in SteamIDs : Stale(s) ~> (~Stale(s) \/ loop = "stopped")

(* Cancelling the context, at any time, ends start(): onDumpTick returns,  *)
(* as the two goroutines it waits for never wait on each other for good.   *)
StopsOnCancel == ctxDone ~> loop = "stopped"

(* "serverState is responsible for keeping track of the server state":     *)
(* when setPlayer is through with a dump, every player of it is listed.    *)
DumpedPlayersListed ==
  loop = "dump" /\ pc["dump"] = "done" =>
    \A i \in DOMAIN result.dump : Slots(result.dump[i]) # {}

(* "An error result will return a copy of the last successful dump still": *)
(* a row with dump data is the trace of a successful dump, so an error     *)
(* result that comes after it is not empty.                                *)
LastDumpKept ==
  pc["dump"] = "status" /\ result.err =>
    \/ result.dump # <<>>
    \/ \A i \in DOMAIN players : players[i].g15 = Never

=============================================================================
