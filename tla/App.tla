--------------------------------- MODULE App --------------------------------
(***************************************************************************)
(* internal/cmd/tf-tui and internal/config/loader.go: the goroutines that  *)
(* carry things to the UI, and the life of the process.                    *)
(*                                                                         *)
(*   main     app.Start's select: forwards changed configs, ends on done;  *)
(*   uiGo     main.run's goroutine: createUI, Run, done <- ...;            *)
(*   sender   app.uiSender: takes from uiUpdates, calls ui.Send;           *)
(*   updater  app.logEventUpdater: a log event at a time to uiUpdates;     *)
(*   syncer   app.stateSyncer: updateUIState sends two messages per tick;  *)
(*   watcher  viper's, calling Loader.onConfigChange for every file event; *)
(*   states   app.state.Start: registers the log address with the server,  *)
(*            opens the log source.                                        *)
(*                                                                         *)
(* uiUpdates, configUpdates and done are unbuffered: their sends are steps *)
(* of two goroutines.  A config is a number: every edit of the file and    *)
(* every save in the UI makes the next one.  What log events and snapshots *)
(* say is left out.  Config.Debug, UPnP and parentCtx (which nothing       *)
(* writes to) are left out, and so is ctx: it is context.Background().     *)
(***************************************************************************)
EXTENDS Naturals, Sequences

CONSTANTS ServerMode,  \* conf.ServerModeEnabled
          Traffic,     \* whether log events and snapshots come in meanwhile
          UserQuits,   \* whether the UI is ever left
          MaxEdits,    \* bound: edits of the config file by others
          MaxSaves     \* bound: saves from the config view

ASSUME AppAssumption ==
  /\ ServerMode \in BOOLEAN
  /\ Traffic \in BOOLEAN
  /\ UserQuits \in BOOLEAN
  /\ MaxEdits \in Nat
  /\ MaxSaves \in Nat

VARIABLES
  proc,        \* the process: "running", "returned" or "panicked"
  main,        \* where app.Start is
  mainConf,    \* the config it forwards
  sender,      \* where uiSender is
  senderConf,  \* the config it sends, or LogEvent
  updater,     \* where logEventUpdater is
  syncer,      \* where stateSyncer is
  appUI,       \* app.ui, an interface value of two words
  uiGo,        \* where the UI goroutine is
  ready,       \* rootModel.isInitialized: it has seen a WindowSizeMsg
  startConfs,  \* what the command of configModel.Init may return, if it runs
  setConfigs,  \* setConfig commands that run, their message still to come
  uiConf,      \* the config the models of the UI go by
  missed,      \* history: the last change that the start of the UI may hide
  watcher,     \* where onConfigChange is
  watcherConf, \* the config it sends
  fsEvents,    \* the operations of the file events the watcher has to handle
  file,        \* the config file: what it holds and how it got there
  invalid,     \* configs whose steam_id is not one
  cached,      \* what viper last read from it
  override,    \* viper's override layer: what was Set, or Nothing
  changes,     \* how many configs there have been
  saves,       \* how many of them were saved from the UI
  states,      \* where app.state.Start is
  registered   \* the server sends its log to us (logaddress_add)

pumpVars  == <<main, mainConf, sender, senderConf, updater, syncer>>
uiVars    == <<appUI, uiGo, ready, startConfs, setConfigs, uiConf, missed>>
watchVars == <<watcher, watcherConf, fsEvents, cached>>
fileVars  == <<file, invalid, override, changes, saves>>
stateVars == <<states, registered>>

vars == <<proc, pumpVars, uiVars, watchVars, fileVars, stateVars>>

Nothing  == 0  \* the defaults
First    == 1  \* the config main.run read and everybody starts with

Confs    == 0 .. First + MaxEdits + MaxSaves
LogEvent == First + MaxEdits + MaxSaves + 1  \* a message that is no config

-----------------------------------------------------------------------------
(* The config file, changed by other programs.                             *)

Change(content, op) ==
  /\ file' = content
  /\ fsEvents' = Append(fsEvents, op)
  /\ UNCHANGED <<proc, pumpVars, uiVars, watcher, watcherConf, cached, override,
                 saves, stateVars>>

MayEdit == file.whole /\ changes - saves < First + MaxEdits

(* An editor truncates the file, and then writes it.                       *)
EditBegin ==
  /\ MayEdit
  /\ Change([file EXCEPT !.whole = FALSE], "write")
  /\ UNCHANGED <<changes, invalid>>

EditEnd ==
  /\ ~file.whole
  /\ changes' = changes + 1
  /\ invalid' \in {invalid, invalid \cup {changes'}}
  /\ Change([conf |-> changes', whole |-> TRUE, op |-> "write"], "write")

(* Or it writes another file and renames it: an event of another kind.     *)
Replace ==
  /\ MayEdit
  /\ changes' = changes + 1
  /\ Change([conf |-> changes', whole |-> TRUE, op |-> "create"], "create")
  /\ UNCHANGED invalid

-----------------------------------------------------------------------------
(* Loader.onConfigChange and Read.                                         *)

(* ReadInConfig: of a file that is being written, what is there of it; the *)
(* error of a file that does not parse is dropped, and with it the file.   *)
ReadInConfig == IF file.whole THEN {file.conf} ELSE {Nothing, cached}

(* What was Set takes precedence over what the file says.                  *)
Unmarshal(inFile) == IF override # Nothing THEN override ELSE inFile

(* Mutated form of HandleEvent: the events of a burst are handled as one.   *)
HandleEventOnce ==
  /\ watcher = "idle"
  /\ fsEvents # <<>>
  /\ fsEvents' = <<>>
  /\ cached' \in ReadInConfig
  /\ UNCHANGED <<proc, pumpVars, uiVars, fileVars, stateVars>>

HandleEvent ==
  /\ watcher = "idle"
  /\ fsEvents # <<>>
  /\ fsEvents' = Tail(fsEvents)
  /\ cached' \in ReadInConfig
  /\ UNCHANGED <<proc, pumpVars, uiVars, fileVars, stateVars>>

(* Mutated form of OnConfigChange: the config as it was before the event.  *)
OnConfigChangeStale ==
  /\ HandleEvent
  /\ Head(fsEvents) = "write"
  /\ watcherConf' = Unmarshal(cached)
  /\ watcherConf' \notin invalid
  /\ watcher' = "sending"

(* Read succeeds; the config is on its way to cl.changes.                  *)
OnConfigChange ==
  /\ HandleEvent
  /\ Head(fsEvents) = "write"
  /\ watcherConf' = Unmarshal(cached')
  /\ watcherConf' \notin invalid
  /\ watcher' = "sending"

(* Read fails, or the event is neither a Write nor a Rename.               *)
OnConfigChangeReturns ==
  /\ HandleEvent
  /\ Head(fsEvents) # "write" \/ Unmarshal(cached') \in invalid
  /\ UNCHANGED <<watcher, watcherConf>>

-----------------------------------------------------------------------------
(* app.Start.                                                              *)

Start ==
  /\ main = "init"
  /\ main' = "select"
  /\ states' = "starting"
  /\ updater' = "select"
  /\ syncer' = "select"
  /\ sender' = "select"
  /\ UNCHANGED <<proc, mainConf, senderConf, uiVars, watchVars, fileVars,
                 registered>>

(* case conf := <-app.configUpdates, a handover from the watcher.          *)
TakeConfig ==
  /\ main = "select" /\ watcher = "sending"
  /\ main' = "forward" /\ watcher' = "idle"
  /\ mainConf' = watcherConf /\ watcherConf' = Nothing
  /\ UNCHANGED <<proc, sender, senderConf, updater, syncer, uiVars, fsEvents,
                 cached, fileVars, stateVars>>

(* case <-done: Start returns, main.run closes the database, and the       *)
(* process is over, whatever its goroutines are doing.                     *)
TakeDone ==
  /\ main = "select" /\ uiGo = "done"
  /\ main' = "returned" /\ proc' = "returned"
  /\ UNCHANGED <<mainConf, sender, senderConf, updater, syncer, uiVars,
                 watchVars, fileVars, stateVars>>

-----------------------------------------------------------------------------
(* uiSender and the two that feed it through app.uiUpdates.                *)

(* An event of the router's arrives in logEventUpdater's channel.          *)
TakeEvent ==
  /\ Traffic
  /\ updater = "select"
  /\ updater' = "forward"
  /\ UNCHANGED <<proc, main, mainConf, sender, senderConf, syncer, uiVars,
                 watchVars, fileVars, stateVars>>

FromMain(msg) ==
  /\ main = "forward" /\ main' = "select"
  /\ msg = mainConf /\ mainConf' = Nothing
  /\ UNCHANGED updater

FromUpdater(msg) ==
  /\ updater = "forward" /\ updater' = "select"
  /\ msg = LogEvent
  /\ UNCHANGED <<main, mainConf>>

(* msg := <-app.uiUpdates, and what app.ui is seen as.                     *)
Receive(msg, seen) ==
  /\ sender = "select" /\ appUI = seen
  /\ FromMain(msg) \/ FromUpdater(msg)
  /\ UNCHANGED <<syncer, uiVars, watchVars, fileVars, stateVars>>

(* Mutated form of SenderDrops: uiSender returns if there is no UI yet.    *)
SenderDropsOut(msg) ==
  /\ Receive(msg, "nil")
  /\ sender' = "init"
  /\ UNCHANGED <<proc, senderConf>>

(* Mutated form of SenderDrops: nobody looks whether app.ui is nil.        *)
SenderDropsNot(msg) ==
  /\ Receive(msg, "nil")
  /\ sender' = "send"
  /\ senderConf' = msg
  /\ UNCHANGED proc

(* app.ui is nil: the message is dropped.                                  *)
SenderDrops(msg) ==
  /\ Receive(msg, "nil")
  /\ UNCHANGED <<proc, sender, senderConf>>

(* app.ui is not nil: ui.Send.                                             *)
SenderTakes(msg) ==
  /\ Receive(msg, "set")
  /\ sender' = "send"
  /\ senderConf' = msg
  /\ UNCHANGED proc

(* app.ui is written by another goroutine, with nothing to order the two:  *)
(* it can be seen with its type and not yet its data, and Send panics.     *)
SenderPanics(msg) ==
  /\ Receive(msg, "torn")
  /\ proc' = "panicked"
  /\ UNCHANGED <<sender, senderConf>>

-----------------------------------------------------------------------------
(* stateSyncer.                                                            *)

SyncerGoes(to) ==
  /\ syncer' = to
  /\ UNCHANGED <<main, mainConf, sender, senderConf, updater, uiVars,
                 watchVars, fileVars, stateVars>>

(* A tick (one with app.ui = nil changes nothing): updateUIState gets to   *)
(* its first Send, or to the panic described above.                        *)
SyncerTick ==
  /\ Traffic
  /\ syncer = "select"
  /\ \/ appUI = "set" /\ SyncerGoes("sendAll") /\ UNCHANGED proc
     \/ appUI = "torn" /\ SyncerGoes("select") /\ proc' = "panicked"

-----------------------------------------------------------------------------
(* The UI goroutine of main.run, and the bubbletea program it runs.        *)

UIGoes(from, to) ==
  /\ uiGo = from /\ uiGo' = to
  /\ UNCHANGED <<proc, pumpVars, startConfs, setConfigs, uiConf, watchVars,
                 fileVars, stateVars>>

(* app.ui = ui.New(...): two words.                                        *)
CreateUI ==
  \/ UIGoes("create", "create") /\ appUI = "nil" /\ appUI' = "torn"
     /\ UNCHANGED <<ready, missed>>
  \/ UIGoes("create", "run") /\ appUI = "torn" /\ appUI' = "set"
     /\ UNCHANGED <<ready, missed>>

(* The first WindowSizeMsg: until then rootModel.Update drops messages.    *)
WindowSize ==
  /\ UIGoes("run", "run")
  /\ ~ready /\ ready' = TRUE
  /\ missed' = changes + (IF file.whole THEN 0 ELSE 1)
  /\ UNCHANGED appUI

(* The quit key, or a signal: Run returns.                                 *)
Quit ==
  /\ UserQuits
  /\ UIGoes("run", "done")
  /\ UNCHANGED <<appUI, ready, missed>>

(* Program.Send returns when the event loop has taken the message, or when *)
(* the program is over.                                                    *)
Returns == uiGo \in {"run", "done"}

Shown(conf) ==
  uiConf' = IF uiGo = "run" /\ ready THEN conf ELSE uiConf

SenderSent ==
  /\ sender = "send" /\ Returns
  /\ sender' = "select"
  /\ Shown(IF senderConf = LogEvent THEN uiConf ELSE senderConf)
  /\ senderConf' = LogEvent
  /\ UNCHANGED <<proc, main, mainConf, updater, syncer, appUI,
                 uiGo, ready, startConfs, setConfigs, missed, watchVars,
                 fileVars, stateVars>>

SyncerSent ==
  /\ Returns
  /\ UNCHANGED proc
  /\ \/ syncer = "sendAll" /\ SyncerGoes("sendFirst")
     \/ syncer = "sendFirst" /\ SyncerGoes("select")

(* The message of configModel.Init, whose command reads the config of the  *)
(* form when it gets to run.  It may come late, and put an older config in *)
(* the place of one that is shown already.                                 *)
StartConfig ==
  /\ uiGo = "run"
  /\ \E conf \in startConfs : Shown(conf)
  /\ startConfs' = {}
  /\ missed' = IF uiConf' # uiConf /\ uiConf > missed THEN uiConf ELSE missed
  /\ UNCHANGED <<proc, pumpVars, appUI, uiGo, ready, setConfigs, watchVars,
                 fileVars, stateVars>>

(* configModel.Update with fieldSave: Loader.Write, then setConfig.  That  *)
(* command only returns its message: it is over before the user can get to *)
(* save once more.                                                         *)
Save ==
  /\ uiGo = "run" /\ ready
  /\ saves < MaxSaves
  /\ setConfigs = {}
  /\ saves' = saves + 1
  /\ changes' = changes + 1
  /\ override' = changes'
  /\ \/ /\ file' = [conf |-> changes', whole |-> TRUE, op |-> "write"]
        /\ fsEvents' = Append(fsEvents, "write")
        /\ setConfigs' = setConfigs \cup {changes'}
        /\ startConfs' = startConfs \cup {changes' : conf \in startConfs}
     \/ UNCHANGED <<file, fsEvents, startConfs, setConfigs>>  \* WriteConfig fails
  /\ UNCHANGED <<proc, pumpVars, appUI, uiGo, ready, uiConf, missed, watcher,
                 watcherConf, cached, invalid, stateVars>>

(* The message of a setConfig command.                                     *)
SetConfig ==
  /\ uiGo = "run"
  /\ \E conf \in setConfigs : setConfigs' = {} /\ Shown(conf)
  /\ UNCHANGED <<proc, pumpVars, appUI, uiGo, ready, startConfs, missed,
                 watchVars, fileVars, stateVars>>

-----------------------------------------------------------------------------
(* app.state.Start.                                                        *)

(* registerAddress, by the goroutine of a serverState in server mode.      *)
RegisterAddress ==
  /\ ServerMode
  /\ states # "init" /\ ~registered
  /\ registered' = TRUE
  /\ UNCHANGED <<proc, pumpVars, uiVars, watchVars, fileVars, states>>

(* logSource.Open.  It may fail: if the address is in use, app.Start       *)
(* panics, any other error is logged and leaves the rest running.          *)
OpenSource ==
  /\ states = "starting"
  /\ states' = "opened"
  /\ \/ UNCHANGED proc
     \/ ServerMode /\ proc' = "panicked"
  /\ UNCHANGED <<pumpVars, uiVars, watchVars, fileVars, registered>>

-----------------------------------------------------------------------------

Init ==
  /\ proc = "running"
  /\ main = "init" /\ mainConf = Nothing
  /\ sender = "init" /\ senderConf = LogEvent
  /\ updater = "init"
  /\ syncer = "init"
  /\ appUI = "nil" /\ uiGo = "create" /\ ready = FALSE
  /\ startConfs = {First} /\ setConfigs = {} /\ uiConf = First /\ missed = First
  /\ watcher = "idle" /\ watcherConf = Nothing
  /\ fsEvents = <<>>
  /\ file = [conf |-> First, whole |-> TRUE, op |-> "write"]
  /\ invalid = {}
  /\ cached = First
  /\ override = Nothing
  /\ changes = First
  /\ saves = 0
  /\ states = "init"
  /\ registered = FALSE

Watcher == OnConfigChange \/ OnConfigChangeReturns
Main    == Start \/ TakeConfig \/ TakeDone
Sender(msg) == SenderDrops(msg) \/ SenderTakes(msg) \/ SenderPanics(msg)
SenderConf  == \E conf \in Confs : Sender(conf)
SenderEvent == Sender(LogEvent)
Syncer  == SyncerTick \/ SyncerSent
UI      == CreateUI \/ WindowSize \/ Quit \/ StartConfig \/ Save \/ SetConfig

Next ==
  /\ proc = "running"
  /\ \/ EditBegin \/ EditEnd \/ Replace
     \/ Watcher \/ Main \/ TakeEvent \/ SenderConf \/ SenderEvent \/ SenderSent \/ Syncer \/ UI
     \/ RegisterAddress \/ OpenSource

Spec == Init /\ [][Next]_vars

Running(A) == proc = "running" /\ A

(* Every goroutine that can go on does.  uiSender receives from a channel  *)
(* two goroutines wait on, in the order they came: each gets its turn.     *)
(* An edit that has begun is finished.  Nobody has to quit, edit or save.  *)
Fairness ==
  /\ WF_vars(Running(EditEnd))
  /\ WF_vars(Running(Watcher))
  /\ WF_vars(Running(Start))
  /\ SF_vars(Running(TakeConfig)) /\ SF_vars(Running(TakeDone))
  /\ WF_vars(Running(SenderSent))
  /\ SF_vars(Running(SenderConf)) /\ SF_vars(Running(SenderEvent))
  /\ WF_vars(Running(SyncerSent))
  /\ WF_vars(Running(CreateUI)) /\ WF_vars(Running(WindowSize))
  /\ WF_vars(Running(StartConfig)) /\ WF_vars(Running(SetConfig))

FairSpec == Spec /\ Fairness

-----------------------------------------------------------------------------
(* Properties.                                                             *)

(* Every variable has its type, and nobody is in Send without a UI.        *)
TypeOK ==
  /\ proc \in {"running", "returned", "panicked"}
  /\ main \in {"init", "select", "forward", "returned"}
  /\ mainConf \in Confs
  /\ sender \in {"init", "select", "send"}
  /\ senderConf \in Confs \cup {LogEvent}
  /\ updater \in {"init", "select", "forward"}
  /\ syncer \in {"init", "select", "sendAll", "sendFirst"}
  /\ appUI \in {"nil", "torn", "set"}
  /\ sender = "send" \/ syncer \in {"sendAll", "sendFirst"} => appUI = "set"
  /\ uiGo \in {"create", "run", "done"}
  /\ ready \in BOOLEAN
  /\ startConfs \subseteq Confs /\ setConfigs \subseteq Confs
  /\ uiConf \in Confs
  /\ missed \in Confs
  /\ watcher \in {"idle", "sending"}
  /\ watcherConf \in Confs
  /\ fsEvents \in Seq({"write", "create"})
  /\ file \in [conf : Confs, whole : BOOLEAN, op : {"write", "create"}]
  /\ invalid \subseteq Confs
  /\ cached \in Confs
  /\ override \in Confs
  /\ changes \in Confs
  /\ saves \in 0..MaxSaves
  /\ states \in {"init", "starting", "opened"}
  /\ registered \in BOOLEAN

(* A quit ends the process: whatever main is blocked in when the UI is     *)
(* gone, it gets back to its select and sees done.                         *)
QuitReturns == uiGo = "done" ~> proc # "running"

(* Nobody is stuck for good with a message for the UI, neither while it is *)
(* created nor when it is gone.                                            *)
NobodyIsStuck ==
  /\ main = "forward" ~> main # "forward" \/ proc # "running"
  /\ updater = "forward" ~> updater # "forward" \/ proc # "running"
  /\ sender = "send" ~> sender # "send" \/ proc # "running"
  /\ syncer = "sendAll" ~> syncer = "select" \/ proc # "running"

(* The config file was written in place and holds a config that is valid.  *)
Readable == file.whole /\ file.op = "write" /\ file.conf \notin invalid

Shows(P) == proc = "running" /\ Readable /\ P => uiConf = file.conf

(* The last change came after the UI was ready, was not put back by the    *)
(* message of configModel.Init, and no other config is Set.                *)
Due == file.conf > missed /\ override \in {Nothing, file.conf}

(* No config is on its way to the UI, neither from the file nor from a     *)
(* save.                                                                   *)
NoConfigPending ==
  /\ fsEvents = <<>> /\ watcher = "idle" /\ main # "forward"
  /\ sender = "send" => senderConf = LogEvent
  /\ setConfigs = {}

(* When no config is on its way the UI goes by what is in the file: none   *)
(* is lost or overtaken by an older one between the watcher, app.Start,    *)
(* uiSender and the messages of the form, whatever is edited and saved,    *)
(* but for the one that the form starts with.                              *)
QuietConfigAgrees == uiGo = "run" /\ ready /\ NoConfigPending => Shows(Due)

(* And when the edits and saves are over that is where it ends, through    *)
(* half written files, read errors and saves that race with edits.         *)
ConfigSettles == <>[]Shows(Due)

(* "Be cool and remove ourselves from the log address list": the server    *)
(* does not go on sending its log when tf-tui has ended as it should.      *)
LogAddressRemoved == proc = "returned" => ~registered

=============================================================================
