------------------------------- MODULE Startup ------------------------------
(***************************************************************************)
(* main.run: what the program opens before it runs, and what happens to it *)
(* when one of the steps fails, when the process is killed, and when two   *)
(* instances share the config directory, the database and the log port.    *)
(*                                                                         *)
(* The database outlives the process.  golang-migrate keeps a version in   *)
(* it which it marks dirty before it runs a migration and clean after: a   *)
(* process that ends in between leaves it dirty.  There is one migration,  *)
(* store/migrations/001_init, run in one transaction.  What viper takes    *)
(* from the environment, the profiler and the version command are left     *)
(* out.                                                                    *)
(***************************************************************************)
EXTENDS Naturals, SequencesExt

CONSTANT Instances  \* processes of the program

VARIABLES
  conf,     \* the config file, and what it says
  at,       \* the step of run an instance is at
  opened,   \* what it has opened, with a deferred close, oldest first
  bound,    \* the instance that listens on server_bind_address, or None
  version,  \* schema_migrations: "none", "dirty" or "clean"
  tables    \* the tables of 001_init exist

startVars == <<conf, at, opened, bound, version, tables>>

None == "none"

Migrating == {"dirtying", "creating", "cleaning"}

(* The steps after store.Open has returned a database.                     *)
HasDatabase == {"manager", "debug", "source", "running"}

(* NewLoader's defaults, as far as run's steps depend on them.             *)
Defaults == [serverMode |-> FALSE, servers |-> TRUE, bind |-> TRUE, debug |-> FALSE]

Configs == [file : {"missing", "broken", "mistyped", "bad_steam_id"}, says : {Defaults}]
             \cup [file : {"good"}, says : [DOMAIN Defaults -> BOOLEAN]]

StartupInit ==
  /\ conf \in Configs
  /\ at = [i \in Instances |-> "off"]
  /\ opened = [i \in Instances |-> <<>>]
  /\ bound = None
  /\ version = "none"
  /\ tables = FALSE

-----------------------------------------------------------------------------

(* From one step to the next.                                              *)
Go(i, from, to) ==
  /\ at[i] = from
  /\ at' = [at EXCEPT ![i] = to]

OnDisk == <<conf, version, tables>>

(* An error is returned from run: what is deferred runs.                   *)
ReturnsError(i, from) ==
  /\ Go(i, from, "closing")
  /\ UNCHANGED <<opened, bound, OnDisk>>

(* main: config.Path makes the config directory, and so does run.          *)
Begin(i) == Go(i, "off", "config") /\ UNCHANGED <<opened, bound, OnDisk>>

(* Loader.Read: of the errors of ReadInConfig only that of a missing file  *)
(* counts.  A file that does not parse leaves the defaults.                *)
Loads == conf.file \in {"good", "broken"}

ReadConfig(i) ==
  \/ Loads /\ Go(i, "config", "logger") /\ UNCHANGED <<opened, bound, OnDisk>>
  \/ ~Loads /\ ReturnsError(i, "config")

(* config.LoggerInit.                                                      *)
OpenLog(i) ==
  \/ /\ Go(i, "logger", "prepare")
     /\ opened' = [opened EXCEPT ![i] = Append(@, "log")]
     /\ UNCHANGED <<bound, OnDisk>>
  \/ ReturnsError(i, "logger")

(* cache.New and tfapi.NewClientWithResponses.                             *)
Prepare(i) ==
  \/ Go(i, "prepare", "connect") /\ UNCHANGED <<opened, bound, OnDisk>>
  \/ ReturnsError(i, "prepare")

(* store.Open up to the ping: the pragmas are the first to touch the file. *)
(* A connection whose pragmas fail is not closed; nor is one whose schema  *)
(* cannot be migrated.                                                     *)
Connect(i) ==
  \/ Go(i, "connect", "migrate") /\ UNCHANGED <<opened, bound, OnDisk>>
  \/ ReturnsError(i, "connect")

(* store.Open returns the database to run, which defers its Close.         *)
Opened(i, from) ==
  /\ Go(i, from, "manager")
  /\ opened' = [opened EXCEPT ![i] = Append(@, "database")]

(* Mutated form of Migrate: ErrDirty passes like ErrNoChange.              *)
MigratePastDirty(i) ==
  \/ version = "none" /\ Go(i, "migrate", "dirtying") /\ UNCHANGED <<opened, bound, OnDisk>>
  \/ version # "none" /\ Opened(i, "migrate") /\ UNCHANGED <<bound, OnDisk>>

(* Migrate(MigrateUp): ErrNoChange is no error, ErrDirty is one.           *)
Migrate(i) ==
  \/ version = "none" /\ Go(i, "migrate", "dirtying") /\ UNCHANGED <<opened, bound, OnDisk>>
  \/ version = "clean" /\ Opened(i, "migrate") /\ UNCHANGED <<bound, OnDisk>>
  \/ version = "dirty" /\ ReturnsError(i, "migrate")

(* migrator.Up: every one of its statements may fail, as the file may be   *)
(* locked, and the lock of the sqlite driver holds for one process.        *)
Up(i) ==
  \/ /\ Go(i, "dirtying", "creating") /\ version' = "dirty"
     /\ UNCHANGED <<conf, opened, bound, tables>>
  \/ /\ Go(i, "creating", "cleaning") /\ tables' = TRUE
     /\ UNCHANGED <<conf, opened, bound, version>>
  \/ /\ Opened(i, "cleaning") /\ version' = "clean"
     /\ UNCHANGED <<conf, bound, tables>>
  \/ \E step \in Migrating : ReturnsError(i, step)

Says == IF conf.file = "good" THEN conf.says ELSE Defaults

(* state.NewManager: in server mode it needs an address to listen on, and  *)
(* a server.                                                               *)
NewManager(i) ==
  LET ok == Says.serverMode => Says.bind /\ Says.servers
  IN  \/ /\ ok /\ Go(i, "manager", IF Says.debug THEN "debug" ELSE "source")
         /\ UNCHANGED <<opened, bound, OnDisk>>
      \/ ~ok /\ ReturnsError(i, "manager")

(* console.NewDebug and Debug.Open, of a file in the working directory.    *)
OpenDebug(i) ==
  \/ /\ Go(i, "debug", "source")
     /\ opened' = [opened EXCEPT ![i] = Append(@, "debug")]
     /\ UNCHANGED <<bound, OnDisk>>
  \/ ReturnsError(i, "debug")

(* Remote.Open: App.Start makes a panic of an address in use, which runs   *)
(* nothing that is deferred in run; another error is no end.               *)
OpenRemote(i) ==
  \/ /\ bound = None /\ bound' = i
     /\ Go(i, "source", "running") /\ UNCHANGED opened
  \/ /\ bound # None /\ UNCHANGED bound
     /\ Go(i, "source", "off") /\ opened' = [opened EXCEPT ![i] = <<>>]
  \/ Go(i, "source", "running") /\ UNCHANGED <<opened, bound>>

(* Local.Open: the file need not exist.                                    *)
OpenLocal(i) == Go(i, "source", "running") /\ UNCHANGED <<opened, bound>>

(* Manager.Start, in a goroutine: an error of Open is logged, and the      *)
(* program runs without lines.                                             *)
OpenSource(i) ==
  /\ \/ Says.serverMode /\ OpenRemote(i)
     \/ ~Says.serverMode /\ OpenLocal(i)
  /\ UNCHANGED OnDisk

(* app.Start returns.                                                      *)
Quits(i) == ReturnsError(i, "running")

Release(i) == bound' = IF bound = i THEN None ELSE bound

(* The deferred closes, the last one first.  An error is logged.           *)
Close(i) ==
  /\ at[i] = "closing" /\ opened[i] # <<>>
  /\ opened' = [opened EXCEPT ![i] = SubSeq(@, 1, Len(@) - 1)]
  /\ UNCHANGED <<at, bound, OnDisk>>

(* main returns, or exits with 1.  The log source is closed by nobody.     *)
Exits(i) ==
  /\ opened[i] = <<>>
  /\ Go(i, "closing", "off") /\ Release(i) /\ UNCHANGED <<opened, OnDisk>>

(* The process is killed, or one of its goroutines panics.                 *)
Killed(i) ==
  /\ at[i] # "off" /\ Go(i, at[i], "off")
  /\ opened' = [opened EXCEPT ![i] = <<>>] /\ Release(i)
  /\ UNCHANGED OnDisk

StartupNext ==
  \E i \in Instances :
    \/ Begin(i) \/ ReadConfig(i) \/ OpenLog(i) \/ Prepare(i) \/ Connect(i)
    \/ Migrate(i) \/ Up(i) \/ NewManager(i) \/ OpenDebug(i) \/ OpenSource(i)
    \/ Quits(i) \/ Close(i) \/ Exits(i) \/ Killed(i)

StartupSpec == StartupInit /\ [][StartupNext]_startVars

-----------------------------------------------------------------------------

(* store.Migrate: an instance that got a database from store.Open has the  *)
(* tables in it until it has closed it, though an earlier process was      *)
(* killed while it created them, or another one creates them at the same   *)
(* time.                                                                   *)
SchemaBeforeUse ==
  \A i \in Instances :
    at[i] \in HasDatabase \/ Contains(opened[i], "database") => tables

=============================================================================
