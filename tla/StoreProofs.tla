----------------------------- MODULE StoreProofs ----------------------------
(***************************************************************************)
(* Proofs about what outlives the program.  Startup and Lines: what the    *)
(* database holds, for any number of processes that open it and of servers *)
(* whose chat is recorded in it.  MetaCache: what callers get from the     *)
(* files of the cache, for any number of callers and players.  Settings:   *)
(* what the config file holds after a save, for any SteamIDs.              *)
(***************************************************************************)
EXTENDS Startup, Lines, MetaCache, Settings, SequenceTheorems, TLAPS

-----------------------------------------------------------------------------
(* Startup: the schema.                                                    *)

Resources == {"log", "database", "debug"}

(* The tables are there as soon as a process has created them, before the  *)
(* version says so; and whoever takes the version's word is right.         *)
SchemaInv ==
  /\ at = [i \in Instances |-> at[i]]
  /\ opened \in [Instances -> Seq(Resources)]
  /\ version = "clean" => tables
  /\ \A i \in Instances : at[i] = "cleaning" => tables
  /\ SchemaBeforeUse

(* What is opened next is the only thing that is new.                      *)
LEMMA OpensOne ==
  ASSUME NEW s \in Seq(Resources), NEW r \in Resources
  PROVE  /\ Append(s, r) \in Seq(Resources)
         /\ Contains(Append(s, r), "database") => r = "database" \/ Contains(s, "database")
<1>1. /\ Append(s, r) \in Seq(Resources)
      /\ Len(Append(s, r)) = Len(s) + 1
      /\ \A k \in 1 .. Len(s) : Append(s, r)[k] = s[k]
      /\ Append(s, r)[Len(s) + 1] = r
  BY AppendProperties
<1>2. Len(s) \in Nat
  BY LenProperties
<1> QED BY <1>1, <1>2 DEF Contains

(* Closing the last of them opens nothing.                                 *)
LEMMA ClosesLast ==
  ASSUME NEW s \in Seq(Resources), s # <<>>
  PROVE  /\ SubSeq(s, 1, Len(s) - 1) \in Seq(Resources)
         /\ Contains(SubSeq(s, 1, Len(s) - 1), "database") => Contains(s, "database")
<1>1. Len(s) \in Nat
  BY LenProperties
<1>2. Len(s) # 0
  BY EmptySeq, LenProperties
<1>3. /\ SubSeq(s, 1, Len(s) - 1) \in Seq(Resources)
      /\ Len(SubSeq(s, 1, Len(s) - 1)) = Len(s) - 1
      /\ \A k \in 1 .. Len(s) - 1 : SubSeq(s, 1, Len(s) - 1)[k] = s[k]
  BY <1>1, <1>2, SubSeqProperties
<1> QED BY <1>1, <1>2, <1>3 DEF Contains

(* What a step of one process has to respect.                              *)
LEMMA ProcessStep ==
  ASSUME SchemaInv,
         NEW i \in Instances, NEW to, NEW now \in Seq(Resources),
         at' = [at EXCEPT ![i] = to],
         opened' = [opened EXCEPT ![i] = now],
         tables => tables',
         version' = "clean" => tables',
         to = "cleaning" => tables',
         to \in HasDatabase => tables',
         Contains(now, "database") => tables'
  PROVE  SchemaInv'
<1>1. /\ at' = [j \in Instances |-> at'[j]]
      /\ opened' \in [Instances -> Seq(Resources)]
      /\ at'[i] = to /\ opened'[i] = now
      /\ \A j \in Instances \ {i} : at'[j] = at[j] /\ opened'[j] = opened[j]
  BY DEF SchemaInv
<1>2. ASSUME NEW j \in Instances
      PROVE  /\ at'[j] = "cleaning" => tables'
             /\ at'[j] \in HasDatabase \/ Contains(opened'[j], "database") => tables'
  <2>1. CASE j = i
    BY <1>1, <2>1
  <2>2. CASE j # i
    <3>1. at'[j] = at[j] /\ opened'[j] = opened[j]
      BY <1>1, <2>2
    <3>2. /\ at[j] = "cleaning" => tables
          /\ at[j] \in HasDatabase \/ Contains(opened[j], "database") => tables
      BY DEF SchemaInv, SchemaBeforeUse
    <3> QED BY <3>1, <3>2
  <2> QED BY <2>1, <2>2
<1> QED BY <1>1, <1>2 DEF SchemaInv, SchemaBeforeUse, HasDatabase

(* Steps that open and close nothing and leave the database alone.         *)
LEMMA GoStep ==
  ASSUME SchemaInv,
         NEW i \in Instances, NEW to,
         at' = [at EXCEPT ![i] = to],
         UNCHANGED <<opened, version, tables>>,
         to = "cleaning" => tables,
         to \in HasDatabase => tables
  PROVE  SchemaInv'
<1>1. /\ opened[i] \in Seq(Resources)
      /\ opened' = [opened EXCEPT ![i] = opened[i]]
  BY DEF SchemaInv
<1>2. /\ version' = "clean" => tables'
      /\ Contains(opened[i], "database") => tables'
  BY DEF SchemaInv, SchemaBeforeUse
<1> QED BY <1>1, <1>2, ProcessStep

(* Steps that open one more thing.                                         *)
LEMMA OpenStep ==
  ASSUME SchemaInv,
         NEW i \in Instances, NEW to, NEW r \in Resources,
         at' = [at EXCEPT ![i] = to],
         opened' = [opened EXCEPT ![i] = Append(@, r)],
         UNCHANGED tables,
         version' = "clean" => tables,
         to = "cleaning" => tables,
         to \in HasDatabase => tables,
         r = "database" => tables
  PROVE  SchemaInv'
<1>1. opened[i] \in Seq(Resources)
  BY DEF SchemaInv
<1>2. PICK now : now = Append(opened[i], r)
  OBVIOUS
<1>3. /\ now \in Seq(Resources)
      /\ Contains(now, "database") => r = "database" \/ Contains(opened[i], "database")
  BY <1>1, <1>2, OpensOne
<1>4. Contains(now, "database") => tables'
  BY <1>3 DEF SchemaInv, SchemaBeforeUse
<1>5. opened' = [opened EXCEPT ![i] = now]
  BY <1>2 DEF SchemaInv
<1> QED BY <1>3, <1>4, <1>5, ProcessStep

(* Steps of a process that ends at once: it has nothing open any more.     *)
LEMMA EndStep ==
  ASSUME SchemaInv, NEW i \in Instances,
         at' = [at EXCEPT ![i] = "off"],
         opened' = [opened EXCEPT ![i] = <<>>],
         UNCHANGED <<version, tables>>
  PROVE  SchemaInv'
<1>1. <<>> \in Seq(Resources) /\ ~Contains(<<>>, "database")
  BY EmptySeq DEF Contains
<1>2. version' = "clean" => tables'
  BY DEF SchemaInv
<1>3. "off" \notin HasDatabase
  BY DEF HasDatabase
<1> QED BY <1>1, <1>2, <1>3, ProcessStep

(* A return, of an error or at the end: the deferred closes are next.      *)
LEMMA ReturnStep ==
  ASSUME SchemaInv, NEW i \in Instances, NEW from, ReturnsError(i, from)
  PROVE  SchemaInv'
BY GoStep DEF ReturnsError, Go, OnDisk, HasDatabase

(* The steps up to store.Open: none of them has a database.                *)
LEMMA EarlyStep ==
  ASSUME SchemaInv, NEW i \in Instances,
         Begin(i) \/ ReadConfig(i) \/ OpenLog(i) \/ Prepare(i) \/ Connect(i)
  PROVE  SchemaInv'
<1>1. CASE \E from : ReturnsError(i, from)
  BY <1>1, ReturnStep
<1>2. CASE /\ \E to \in {"config", "logger", "connect", "migrate"} : at' = [at EXCEPT ![i] = to]
           /\ UNCHANGED <<opened, version, tables>>
  BY <1>2, GoStep DEF HasDatabase
<1>3. CASE /\ at' = [at EXCEPT ![i] = "prepare"]
           /\ opened' = [opened EXCEPT ![i] = Append(@, "log")]
           /\ UNCHANGED <<version, tables>>
  <2>1. version' = "clean" => tables
    BY <1>3 DEF SchemaInv
  <2> QED BY <1>3, <2>1, OpenStep DEF HasDatabase, Resources
<1> QED BY <1>1, <1>2, <1>3 DEF Begin, ReadConfig, OpenLog, Prepare, Connect, Go, OnDisk

(* store.Open: the version is believed, and a migration that is dirty is   *)
(* an error.                                                               *)
LEMMA MigrateStep ==
  ASSUME SchemaInv, NEW i \in Instances, Migrate(i)
  PROVE  SchemaInv'
<1>1. CASE version = "none" /\ Go(i, "migrate", "dirtying") /\ UNCHANGED <<opened, bound, OnDisk>>
  BY <1>1, GoStep DEF Go, OnDisk, HasDatabase
<1>2. CASE version = "clean" /\ Opened(i, "migrate") /\ UNCHANGED <<bound, OnDisk>>
  <2>1. tables
    BY <1>2 DEF SchemaInv
  <2> QED BY <1>2, <2>1, OpenStep DEF Opened, Go, OnDisk, Resources
<1>3. CASE ReturnsError(i, "migrate")
  BY <1>3, ReturnStep
<1> QED BY <1>1, <1>2, <1>3 DEF Migrate

(* migrator.Up: the tables are created between the two versions.           *)
LEMMA UpStep ==
  ASSUME SchemaInv, NEW i \in Instances, Up(i)
  PROVE  SchemaInv'
<1>1. opened[i] \in Seq(Resources) /\ opened = [opened EXCEPT ![i] = opened[i]]
  BY DEF SchemaInv
<1>2. Contains(opened[i], "database") => tables
  BY DEF SchemaInv, SchemaBeforeUse
<1>3. CASE Go(i, "dirtying", "creating") /\ version' = "dirty" /\ UNCHANGED <<conf, opened, bound, tables>>
  <2>1. "creating" \notin HasDatabase
    BY DEF HasDatabase
  <2>2. /\ at' = [at EXCEPT ![i] = "creating"]
        /\ opened' = [opened EXCEPT ![i] = opened[i]]
        /\ tables' = tables /\ version' # "clean"
    BY <1>1, <1>3 DEF Go
  <2> QED BY <1>1, <1>2, <2>1, <2>2, ProcessStep
<1>4. CASE Go(i, "creating", "cleaning") /\ tables' = TRUE /\ UNCHANGED <<conf, opened, bound, version>>
  BY <1>1, <1>4, ProcessStep DEF Go
<1>5. CASE Opened(i, "cleaning") /\ version' = "clean" /\ UNCHANGED <<conf, bound, tables>>
  <2>1. tables
    BY <1>5 DEF Opened, Go, SchemaInv
  <2> QED BY <1>5, <2>1, OpenStep DEF Opened, Go, Resources
<1>6. CASE \E step \in Migrating : ReturnsError(i, step)
  BY <1>6, ReturnStep
<1> QED BY <1>3, <1>4, <1>5, <1>6 DEF Up

(* The steps of a process that has the database.                           *)
LEMMA LateStep ==
  ASSUME SchemaInv, NEW i \in Instances,
         NewManager(i) \/ OpenDebug(i) \/ OpenSource(i)
  PROVE  SchemaInv'
<1>1. at[i] \in HasDatabase => tables /\ version' = version /\ tables' = tables
  BY DEF SchemaInv, SchemaBeforeUse, NewManager, OpenDebug, OpenSource, ReturnsError, OnDisk
<1>2. CASE \E from : ReturnsError(i, from)
  BY <1>2, ReturnStep
<1>3. CASE /\ at[i] \in HasDatabase
           /\ \E to \in {"debug", "source", "running"} : at' = [at EXCEPT ![i] = to]
           /\ UNCHANGED <<opened, version, tables>>
  BY <1>1, <1>3, GoStep
<1>4. CASE /\ at[i] = "debug"
           /\ at' = [at EXCEPT ![i] = "source"]
           /\ opened' = [opened EXCEPT ![i] = Append(@, "debug")]
           /\ UNCHANGED <<version, tables>>
  <2>1. tables
    BY <1>1, <1>4 DEF HasDatabase
  <2> QED BY <1>4, <2>1, OpenStep DEF Resources
<1>5. CASE /\ at' = [at EXCEPT ![i] = "off"]
           /\ opened' = [opened EXCEPT ![i] = <<>>]
           /\ UNCHANGED <<version, tables>>
  BY <1>5, EndStep
<1>6. CASE NewManager(i)
  BY <1>2, <1>3, <1>6 DEF NewManager, Go, OnDisk, HasDatabase
<1>7. CASE OpenDebug(i)
  BY <1>2, <1>4, <1>7 DEF OpenDebug, Go, OnDisk
<1>8. CASE OpenSource(i)
  BY <1>3, <1>5, <1>8 DEF OpenSource, OpenLocal, OpenRemote, Go, OnDisk, HasDatabase
<1> QED BY <1>6, <1>7, <1>8

(* The end of a process, in order or not.                                  *)
LEMMA LastStep ==
  ASSUME SchemaInv, NEW i \in Instances,
         Quits(i) \/ Close(i) \/ Exits(i) \/ Killed(i)
  PROVE  SchemaInv'
<1>1. CASE Quits(i)
  BY <1>1, ReturnStep DEF Quits
<1>2. CASE Close(i)
  <2>1. opened[i] \in Seq(Resources) /\ opened[i] # <<>>
    BY <1>2 DEF Close, SchemaInv
  <2>2. PICK now : now = SubSeq(opened[i], 1, Len(opened[i]) - 1)
    OBVIOUS
  <2>3. now \in Seq(Resources) /\ (Contains(now, "database") => Contains(opened[i], "database"))
    BY <2>1, <2>2, ClosesLast
  <2>4. /\ opened' = [opened EXCEPT ![i] = now]
        /\ at' = [at EXCEPT ![i] = at[i]] /\ at[i] = "closing"
        /\ UNCHANGED <<version, tables>>
    BY <1>2, <2>2 DEF Close, OnDisk, SchemaInv
  <2>5. /\ version' = "clean" => tables'
        /\ Contains(now, "database") => tables'
    BY <2>3, <2>4 DEF SchemaInv, SchemaBeforeUse
  <2> QED BY <2>3, <2>4, <2>5, ProcessStep DEF HasDatabase
<1>3. CASE Exits(i)
  BY <1>3, GoStep DEF Exits, Go, OnDisk, HasDatabase
<1>4. CASE Killed(i)
  BY <1>4, EndStep DEF Killed, Go, OnDisk
<1> QED BY <1>1, <1>2, <1>3, <1>4

(* A process that got a database from store.Open has the tables in it, for *)
(* any number of processes that migrate it at the same time, fail halfway  *)
(* or are killed between two statements of a migration.                    *)
THEOREM SchemaBeforeUseHolds == StartupSpec => []SchemaBeforeUse
<1>1. StartupInit => SchemaInv
  <2> SUFFICES ASSUME StartupInit PROVE SchemaInv
    OBVIOUS
  <2>1. <<>> \in Seq(Resources) /\ ~Contains(<<>>, "database")
    BY EmptySeq DEF Contains
  <2> QED BY <2>1 DEF StartupInit, SchemaInv, SchemaBeforeUse, HasDatabase
<1>2. SchemaInv /\ [StartupNext]_startVars => SchemaInv'
  <2> SUFFICES ASSUME SchemaInv, [StartupNext]_startVars PROVE SchemaInv'
    OBVIOUS
  <2>1. CASE UNCHANGED startVars
    BY <2>1 DEF startVars, SchemaInv, SchemaBeforeUse, Contains
  <2>2. ASSUME NEW i \in Instances,
               \/ Begin(i) \/ ReadConfig(i) \/ OpenLog(i) \/ Prepare(i) \/ Connect(i)
               \/ Migrate(i) \/ Up(i) \/ NewManager(i) \/ OpenDebug(i) \/ OpenSource(i)
               \/ Quits(i) \/ Close(i) \/ Exits(i) \/ Killed(i)
        PROVE  SchemaInv'
    BY <2>2, EarlyStep, MigrateStep, UpStep, LateStep, LastStep
  <2> QED BY <2>1, <2>2 DEF StartupNext
<1>3. SchemaInv => SchemaBeforeUse
  BY DEF SchemaInv
<1> QED BY <1>1, <1>2, <1>3, PTL DEF StartupSpec

-----------------------------------------------------------------------------
(* Lines: chat and the players it is from.                                 *)

Statements == {"none", "insertPlayer", "insertChat"}

(* A recorder that knows an ID got it from a statement that succeeded, of  *)
(* this process; the row is there whoever inserted it.                     *)
PlayerInv ==
  /\ stored \in [player : BOOLEAN, chat : BOOLEAN]
  /\ validIDs \in [LineHosts -> BOOLEAN]
  /\ statement \in [LineHosts -> Statements]
  /\ \A h \in LineHosts : validIDs[h] => stored.player
  /\ ChatHasItsPlayer

(* A line makes a recorder insert chat only if it knows the player.        *)
LEMMA RecordKeepsPlayer ==
  ASSUME PlayerInv, NEW h \in LineHosts, NEW line, LineArrives(h, line)
  PROVE  PlayerInv'
<1>1. CASE Record(h, line) /\ UNCHANGED <<validIDs, stored>>
  <2>1. PICK next \in Statements :
           /\ statement' = [statement EXCEPT ![h] = next]
           /\ next = "insertChat" => validIDs[h]
    BY <1>1 DEF Record, Statements
  <2>2. statement' \in [LineHosts -> Statements]
    BY <2>1 DEF PlayerInv
  <2>3. \A g \in LineHosts : statement'[g] = "insertChat" => stored.player
    BY <2>1 DEF PlayerInv, ChatHasItsPlayer
  <2> QED BY <1>1, <2>2, <2>3 DEF PlayerInv, ChatHasItsPlayer
<1>2. CASE UNCHANGED <<validIDs, stored, statement>>
  BY <1>2 DEF PlayerInv, ChatHasItsPlayer
<1> QED BY <1>1, <1>2 DEF LineArrives

(* ensureSID, and the chat line after it.                                  *)
LEMMA InsertKeepsPlayer ==
  ASSUME PlayerInv, NEW h \in LineHosts, NEW ok \in BOOLEAN,
         InsertPlayer(h, ok) \/ InsertChat(h, ok)
  PROVE  PlayerInv'
<1>1. CASE InsertPlayer(h, ok)
  <2>1. /\ stored' \in [player : BOOLEAN, chat : BOOLEAN]
        /\ stored'.player = (stored.player \/ ok)
        /\ stored'.chat = stored.chat
    BY <1>1 DEF InsertPlayer, PlayerInserted, PlayerInv
  <2>2. /\ validIDs' \in [LineHosts -> BOOLEAN]
        /\ \A g \in LineHosts : validIDs'[g] => validIDs[g] \/ ok
    BY <1>1 DEF InsertPlayer, PlayerInv
  <2>3. /\ statement' \in [LineHosts -> Statements]
        /\ \A g \in LineHosts : statement'[g] = "insertChat" => statement[g] = "insertChat" \/ ok
    BY <1>1 DEF InsertPlayer, PlayerInv, Statements
  <2> QED BY <2>1, <2>2, <2>3 DEF PlayerInv, ChatHasItsPlayer
<1>2. CASE InsertChat(h, ok)
  <2>1. stored.player
    BY <1>2 DEF InsertChat, PlayerInv, ChatHasItsPlayer
  <2>2. /\ stored' \in [player : BOOLEAN, chat : BOOLEAN]
        /\ stored'.player = stored.player
    BY <1>2 DEF InsertChat, ChatInserted, PlayerInv
  <2>3. statement' \in [LineHosts -> Statements] /\ validIDs' = validIDs
    BY <1>2 DEF InsertChat, PlayerInv, Statements
  <2> QED BY <2>1, <2>2, <2>3 DEF PlayerInv, ChatHasItsPlayer
<1> QED BY <1>1, <1>2

(* A chat line is in the database only with its player, for any number of  *)
(* recorders, whichever of their statements fail, and across restarts.     *)
THEOREM ChatHasItsPlayerHolds == LinesSpec => []ChatHasItsPlayer
<1>1. LinesInit => PlayerInv
  BY DEF LinesInit, PlayerInv, ChatHasItsPlayer, Statements
<1>2. PlayerInv /\ [LinesNext]_lineVars => PlayerInv'
  <2> SUFFICES ASSUME PlayerInv, [LinesNext]_lineVars PROVE PlayerInv'
    OBVIOUS
  <2>1. CASE Restart
    BY <2>1 DEF Restart, PlayerInv, ChatHasItsPlayer, Statements
  <2>2. CASE UNCHANGED lineVars
    BY <2>2 DEF lineVars, PlayerInv, ChatHasItsPlayer
  <2> QED BY <2>1, <2>2, RecordKeepsPlayer, InsertKeepsPlayer DEF LinesNext
<1>3. PlayerInv => ChatHasItsPlayer
  BY DEF PlayerInv
<1> QED BY <1>1, <1>2, <1>3, PTL DEF LinesSpec

-----------------------------------------------------------------------------
(* Lines: what is said and what is so.                                     *)

(* All facts are from the server.                                          *)
FactsInv ==
  /\ match \in [LineHosts -> [from : SUBSET {"server"}, kills : BOOLEAN]]
  /\ bar \in SUBSET {"server"}

(* The parser: chat is chat whatever else it matches, unless it matches    *)
(* the pattern of a kill, which is tried before.                           *)
LEMMA ChatParsesAsChat ==
  ASSUME NEW line \in Lines, line.said
  PROVE  Parse(line) \in {"Kill", "Msg"}
<1>1. PICK hits : hits = {k \in DOMAIN Rx : Rx[k] \in line.matches \ line.garbled}
  OBVIOUS
<1>2. DOMAIN Rx = 1 .. 10 /\ Rx[1] = "Kill" /\ Rx[2] = "Msg"
  BY DEF Rx
<1>3. "Msg" \in line.matches /\ "Msg" \notin line.garbled
  BY DEF Lines, Garbles
<1>4. 2 \in hits /\ hits \subseteq 1 .. 10
  BY <1>1, <1>2, <1>3
<1>5. Min(hits) \in {1, 2}
  <2>1. \E x \in hits : \A y \in hits : x <= y
    <3>1. CASE 1 \in hits
      BY <1>4, <3>1
    <3>2. CASE 1 \notin hits
      <4>1. \A y \in hits : 2 <= y
        BY <1>4, <3>2
      <4> QED BY <1>4, <4>1
    <3> QED BY <3>1, <3>2
  <2>2. Min(hits) \in hits /\ \A y \in hits : Min(hits) <= y
    BY <2>1 DEF Min
  <2>3. PICK m : m = Min(hits)
    OBVIOUS
  <2>4. m \in 1 .. 10 /\ m <= 2
    BY <1>4, <2>2, <2>3
  <2> QED BY <2>3, <2>4
<1>6. Parse(line) = Rx[Min(hits)]
  BY <1>1, <1>4 DEF Parse
<1> QED BY <1>2, <1>5, <1>6

(* A line changes the facts of a match only if the server said it.         *)
LEMMA MatchAfterOK ==
  ASSUME NEW m \in [from : SUBSET {"server"}, kills : BOOLEAN], NEW line \in Lines
  PROVE  MatchAfter(m, line) \in [from : SUBSET {"server"}, kills : BOOLEAN]
<1>1. line.said \in BOOLEAN
  BY DEF Lines
<1>2. CASE line.said
  BY <1>2, ChatParsesAsChat DEF MatchAfter, NewMatch
<1>3. CASE ~line.said
  BY <1>3 DEF MatchAfter, NewMatch, From
<1> QED BY <1>1, <1>2, <1>3

(* Nothing a player says is taken for what the server says of itself, for  *)
(* any number of servers and any line that the parser tells apart.         *)
THEOREM ChatForgesNothingHolds == LinesSpec => []ChatForgesNothing
<1>1. LinesInit => FactsInv
  BY DEF LinesInit, FactsInv, NewMatch
<1>2. FactsInv /\ [LinesNext]_lineVars => FactsInv'
  <2> SUFFICES ASSUME FactsInv, [LinesNext]_lineVars PROVE FactsInv'
    OBVIOUS
  <2>1. ASSUME NEW h \in LineHosts, NEW line \in Lines, LineArrives(h, line)
        PROVE  FactsInv'
    <3>1. match' \in [LineHosts -> [from : SUBSET {"server"}, kills : BOOLEAN]]
      <4>1. CASE Record(h, line)
        <5>1. PICK m : m = MatchAfter(match[h], line)
          OBVIOUS
        <5>2. match[h] \in [from : SUBSET {"server"}, kills : BOOLEAN]
          BY DEF FactsInv
        <5>3. m \in [from : SUBSET {"server"}, kills : BOOLEAN]
          BY <5>1, <5>2, MatchAfterOK
        <5>4. match' = [match EXCEPT ![h] = m]
          BY <4>1, <5>1 DEF Record
        <5> QED BY <5>3, <5>4 DEF FactsInv
      <4>2. CASE UNCHANGED match
        BY <4>2 DEF FactsInv
      <4> QED BY <2>1, <4>1, <4>2 DEF LineArrives
    <3>2. bar' \in SUBSET {"server"}
      <4>1. CASE Show(line)
        <5>1. CASE Parse(line) \in {"Hostname", "Map"}
          <6>1. ~line.said
            BY <5>1, ChatParsesAsChat
          <6> QED BY <4>1, <5>1, <6>1 DEF Show, From, FactsInv
        <5>2. CASE Parse(line) \notin {"Hostname", "Map"}
          BY <4>1, <5>2 DEF Show, FactsInv
        <5> QED BY <5>1, <5>2
      <4>2. CASE UNCHANGED bar
        BY <4>2 DEF FactsInv
      <4> QED BY <2>1, <4>1, <4>2 DEF LineArrives
    <3> QED BY <3>1, <3>2 DEF FactsInv
  <2>2. ASSUME NEW h \in LineHosts, NEW ok \in BOOLEAN, InsertPlayer(h, ok) \/ InsertChat(h, ok)
        PROVE  FactsInv'
    BY <2>2 DEF InsertPlayer, InsertChat, FactsInv
  <2>3. CASE Restart
    BY <2>3 DEF Restart, FactsInv, NewMatch
  <2>4. CASE UNCHANGED lineVars
    BY <2>4 DEF lineVars, FactsInv
  <2> QED BY <2>1, <2>2, <2>3, <2>4 DEF LinesNext
<1>3. FactsInv => ChatForgesNothing
  BY DEF FactsInv, ChatForgesNothing
<1> QED BY <1>1, <1>2, <1>3, PTL DEF LinesSpec

-----------------------------------------------------------------------------
(* MetaCache: the profiles a caller was promised.                          *)

CallRecords ==
  [at : {"idle", "get", "set", "write", "returned", "error"},
   steamIDs : SUBSET ProfileSIDs, todo : SUBSET ProfileSIDs, profiles : SUBSET ProfileSIDs,
   missing : SUBSET ProfileSIDs, toSet : SUBSET ProfileSIDs]

(* Nobody is lost between the files, the answer and the result: whom the   *)
(* caller asked for, he has, or looks for, or has asked the API for.       *)
CallOK(k) ==
  /\ k \in CallRecords
  /\ k.at = "get" => /\ k.profiles \subseteq Known
                     /\ k.profiles \cup k.missing \cup k.todo = k.steamIDs
  /\ k.at \in {"set", "write"} => k.profiles \cup k.toSet = k.steamIDs \cap Known
  /\ k.at = "write" => k.todo \subseteq k.toSet
  /\ k.at = "returned" => k.profiles = k.steamIDs \cap Known

(* A file that can be read is of a player that the API knows.              *)
FilesOK ==
  /\ cacheFile \in [ProfileSIDs -> {"none", "empty", "fresh", "expired"}]
  /\ \A sid \in ProfileSIDs : cacheFile[sid] = "fresh" => sid \in Known

MetaInv ==
  /\ FilesOK
  /\ call = [c \in Callers |-> call[c]]
  /\ \A c \in Callers : CallOK(call[c])

(* What a step of one caller has to respect.                               *)
LEMMA CallerStep ==
  ASSUME MetaInv, NEW c \in Callers, NEW k, CallOK(k),
         call' = [call EXCEPT ![c] = k],
         FilesOK'
  PROVE  MetaInv'
<1>1. /\ call' = [d \in Callers |-> call'[d]]
      /\ call'[c] = k
      /\ \A d \in Callers \ {c} : call'[d] = call[d]
  BY DEF MetaInv
<1>2. ASSUME NEW d \in Callers PROVE CallOK(call'[d])
  BY <1>1 DEF MetaInv
<1>3. \A d \in Callers : CallOK(call[d])'
  BY <1>2 DEF CallOK
<1> QED BY <1>1, <1>3 DEF MetaInv

(* The call begins.                                                        *)
LEMMA BeginStep ==
  ASSUME MetaInv, NEW c \in Callers, NEW sids \in SUBSET ProfileSIDs, MetaProfiles(c, sids)
  PROVE  MetaInv'
<1>1. PICK k : k = [Idle EXCEPT !.at = "get", !.steamIDs = sids, !.todo = sids]
  OBVIOUS
<1>2. CallOK(k)
  BY <1>1 DEF CallOK, CallRecords, Idle
<1>3. call' = [call EXCEPT ![c] = k] /\ FilesOK'
  BY <1>1 DEF MetaProfiles, MetaInv, FilesOK
<1> QED BY <1>2, <1>3, CallerStep

(* A file is read, or is as good as none.                                  *)
LEMMA GetStep ==
  ASSUME MetaInv, NEW c \in Callers, NEW sid \in ProfileSIDs, Get(c, sid)
  PROVE  MetaInv'
<1>1. PICK old : old = call[c]
  OBVIOUS
<1>2. old \in CallRecords /\ CallOK(old) /\ old.at = "get" /\ sid \in old.todo
  BY <1>1 DEF MetaInv, CallOK, Get, At
<1>3. PICK k : k = [old EXCEPT !.todo = @ \ {sid},
                               !.profiles = IF cacheFile[sid] = "fresh" THEN @ \cup {sid} ELSE @,
                               !.missing = IF Hits(sid) THEN @ ELSE @ \cup {sid}]
  OBVIOUS
<1>4. /\ k \in CallRecords /\ k.at = "get" /\ k.steamIDs = old.steamIDs
      /\ k.todo = old.todo \ {sid}
      /\ \/ /\ cacheFile[sid] = "fresh"
            /\ k.profiles = old.profiles \cup {sid} /\ k.missing = old.missing
         \/ /\ k.profiles = old.profiles /\ k.missing = old.missing \cup {sid}
  BY <1>2, <1>3 DEF CallRecords, Hits
<1>5. k.profiles \subseteq Known /\ k.profiles \cup k.missing \cup k.todo = k.steamIDs
  BY <1>2, <1>4 DEF CallOK, MetaInv, FilesOK
<1>6. CallOK(k)
  BY <1>4, <1>5 DEF CallOK
<1>7. call' = [call EXCEPT ![c] = k] /\ FilesOK'
  BY <1>1, <1>3 DEF Get, MetaInv, FilesOK
<1> QED BY <1>6, <1>7, CallerStep

(* The answer of the API names those of the missing that it knows.         *)
LEMMA FetchStep ==
  ASSUME MetaInv, NEW c \in Callers, Fetch(c)
  PROVE  MetaInv'
<1>1. PICK old : old = call[c]
  OBVIOUS
<1>2. old \in CallRecords /\ CallOK(old) /\ old.at = "get" /\ old.todo = {}
  BY <1>1 DEF MetaInv, CallOK, Fetch, Asked, At
<1>3. PICK k : k = [old EXCEPT !.at = "set", !.toSet = old.missing \cap Known]
  OBVIOUS
<1>4. /\ k \in CallRecords /\ k.at = "set" /\ k.steamIDs = old.steamIDs
      /\ k.profiles = old.profiles /\ k.toSet = old.missing \cap Known
  BY <1>2, <1>3 DEF CallRecords
<1>5. k.profiles \cup k.toSet = k.steamIDs \cap Known
  BY <1>2, <1>4 DEF CallOK
<1>6. CallOK(k)
  BY <1>4, <1>5 DEF CallOK
<1>7. call' = [call EXCEPT ![c] = k] /\ FilesOK'
  BY <1>1, <1>3 DEF Fetch, MetaInv, FilesOK
<1> QED BY <1>6, <1>7, CallerStep

(* An error: nothing is promised.                                          *)
LEMMA FailStep ==
  ASSUME MetaInv, NEW c \in Callers, Fails(c)
  PROVE  MetaInv'
<1>1. PICK old : old = call[c]
  OBVIOUS
<1>2. old \in CallRecords
  BY <1>1 DEF MetaInv, CallOK
<1>3. PICK k : k = [old EXCEPT !.at = "error", !.profiles = @ \ old.missing]
  OBVIOUS
<1>4. CallOK(k)
  BY <1>2, <1>3 DEF CallOK, CallRecords
<1>5. call' = [call EXCEPT ![c] = k] /\ FilesOK'
  BY <1>1, <1>3 DEF Fails, MetaInv, FilesOK
<1> QED BY <1>4, <1>5, CallerStep

(* A file is truncated: others who read it now do not take it for one.     *)
LEMMA CreateStep ==
  ASSUME MetaInv, NEW c \in Callers, NEW sid \in ProfileSIDs, Create(c, sid)
  PROVE  MetaInv'
<1>1. PICK old : old = call[c]
  OBVIOUS
<1>2. old \in CallRecords /\ CallOK(old) /\ old.at = "set" /\ sid \in old.toSet
  BY <1>1 DEF MetaInv, CallOK, Create, At
<1>3. PICK k : k = [old EXCEPT !.at = "write", !.todo = {sid}]
  OBVIOUS
<1>4. /\ k \in CallRecords /\ k.at = "write" /\ k.steamIDs = old.steamIDs
      /\ k.profiles = old.profiles /\ k.toSet = old.toSet /\ k.todo = {sid}
  BY <1>2, <1>3 DEF CallRecords
<1>5. CallOK(k)
  BY <1>2, <1>4 DEF CallOK
<1>6. call' = [call EXCEPT ![c] = k]
  BY <1>1, <1>3 DEF Create
<1>7. FilesOK'
  BY DEF Create, MetaInv, FilesOK
<1> QED BY <1>5, <1>6, <1>7, CallerStep

(* The file is written: its player is among those of the answer.           *)
LEMMA WriteStep ==
  ASSUME MetaInv, NEW c \in Callers, NEW sid \in ProfileSIDs, Write(c, sid)
  PROVE  MetaInv'
<1>1. PICK old : old = call[c]
  OBVIOUS
<1>2. old \in CallRecords /\ CallOK(old) /\ old.at = "write" /\ sid \in old.todo
  BY <1>1 DEF MetaInv, CallOK, Write, At
<1>3. sid \in old.toSet /\ sid \in Known
  BY <1>2 DEF CallOK
<1>4. PICK k : k = [old EXCEPT !.at = "set", !.todo = {}, !.toSet = @ \ {sid},
                               !.profiles = @ \cup {sid}]
  OBVIOUS
<1>5. /\ k \in CallRecords /\ k.at = "set" /\ k.steamIDs = old.steamIDs
      /\ k.profiles = old.profiles \cup {sid} /\ k.toSet = old.toSet \ {sid}
  BY <1>2, <1>4 DEF CallRecords
<1>6. k.profiles \cup k.toSet = k.steamIDs \cap Known
  BY <1>2, <1>3, <1>5 DEF CallOK
<1>7. CallOK(k)
  BY <1>5, <1>6 DEF CallOK
<1>8. call' = [call EXCEPT ![c] = k]
  BY <1>1, <1>4 DEF Write
<1>9. FilesOK'
  BY <1>3 DEF Write, MetaInv, FilesOK
<1> QED BY <1>7, <1>8, <1>9, CallerStep

(* The call returns without an error.                                      *)
LEMMA ReturnsStep ==
  ASSUME MetaInv, NEW c \in Callers, Return(c)
  PROVE  MetaInv'
<1>1. PICK old : old = call[c]
  OBVIOUS
<1>2. /\ old \in CallRecords /\ CallOK(old)
      /\ \/ old.at = "get" /\ old.todo \cup old.missing = {}
         \/ old.at = "set" /\ old.toSet = {}
  BY <1>1 DEF MetaInv, CallOK, Return, At
<1>3. old.profiles = old.steamIDs \cap Known
  BY <1>2 DEF CallOK
<1>4. PICK k : k = [old EXCEPT !.at = "returned"]
  OBVIOUS
<1>5. CallOK(k)
  BY <1>2, <1>3, <1>4 DEF CallOK, CallRecords
<1>6. call' = [call EXCEPT ![c] = k] /\ FilesOK'
  BY <1>1, <1>4 DEF Return, MetaInv, FilesOK
<1> QED BY <1>5, <1>6, CallerStep

(* A caller that gets no error has the profile of every player he asked    *)
(* for that the API knows, and no other: for any number of callers that    *)
(* read and write the same files, which may expire or be left half written *)
(* by a process that ended.                                                *)
THEOREM AnswerIsCompleteHolds == MetaSpec => []AnswerIsComplete
<1>1. CallOK(Idle)
  BY DEF CallOK, CallRecords, Idle
<1>2. MetaInit => MetaInv
  BY <1>1 DEF MetaInit, MetaInv, FilesOK
<1>3. MetaInv /\ [MetaNext]_metaVars => MetaInv'
  <2> SUFFICES ASSUME MetaInv, [MetaNext]_metaVars PROVE MetaInv'
    OBVIOUS
  <2>1. CASE call' = [c \in Callers |-> Idle] /\ UNCHANGED cacheFile
    <3>1. \A c \in Callers : CallOK(call[c])'
      BY <1>1, <2>1 DEF CallOK
    <3> QED BY <2>1, <3>1 DEF MetaInv, FilesOK
  <2>2. ASSUME NEW sid \in ProfileSIDs, Expire(sid) PROVE MetaInv'
    BY <2>2 DEF Expire, MetaInv, FilesOK, CallOK
  <2>3. CASE UNCHANGED metaVars
    BY <2>3 DEF metaVars, MetaInv, FilesOK, CallOK
  <2>4. ASSUME NEW c \in Callers,
               \/ \E sids \in SUBSET ProfileSIDs \ {{}} : MetaProfiles(c, sids)
               \/ \E sid \in ProfileSIDs : Get(c, sid) \/ Create(c, sid) \/ Write(c, sid)
               \/ Fetch(c) \/ Fails(c) \/ Dereferences(c) \/ Return(c)
        PROVE  MetaInv'
    BY <2>1, <2>4, BeginStep, GetStep, CreateStep, WriteStep, FetchStep, FailStep, ReturnsStep
       DEF Dereferences
  <2> QED BY <2>1, <2>2, <2>3, <2>4 DEF MetaNext, EndsAndStarts
<1>4. MetaInv => AnswerIsComplete
  BY DEF MetaInv, CallOK, AnswerIsComplete, At
<1> QED BY <1>2, <1>3, <1>4, PTL DEF MetaSpec

-----------------------------------------------------------------------------
(* Settings: from the form to the file and back.                           *)

(* A Config: its fields, and a SteamID that is one or the zero value.      *)
IsConfig(cfg) ==
  /\ cfg = [SteamID |-> cfg.SteamID, ConsoleLogPath |-> cfg.ConsoleLogPath,
            APIBaseURL |-> cfg.APIBaseURL, LogSecret |-> cfg.LogSecret]
  /\ cfg.SteamID \in SteamIDs \cup {Zero}

(* What is read from a file is a Config.                                   *)
LEMMA ReadIsConfig ==
  ASSUME NEW settings
  PROVE  IsConfig(LoaderRead(settings))
BY DEF LoaderRead, IsConfig, NewSteamID

(* What is written can be read, and is what was written: a SteamID that is *)
(* none is left out, and a log secret is where it is looked for.           *)
LEMMA WriteThenRead ==
  ASSUME NEW cfg, IsConfig(cfg)
  PROVE  /\ Loadable(LoaderWrite(cfg))
         /\ LoaderRead(LoaderWrite(cfg)) = cfg
<1>1. SecretIn([key |-> "logsecret", secret |-> cfg.LogSecret]) = cfg.LogSecret
  BY DEF SecretIn
<1>2. CASE cfg.SteamID = Zero
  <2>1. LoaderWrite(cfg).steam_id = NoText /\ NewSteamID(NoText) = Zero
    BY <1>2, SettingsAssumption DEF LoaderWrite, Valid, NewSteamID
  <2>2. LoaderRead(LoaderWrite(cfg)) =
          [SteamID |-> cfg.SteamID, ConsoleLogPath |-> cfg.ConsoleLogPath,
           APIBaseURL |-> cfg.APIBaseURL, LogSecret |-> cfg.LogSecret]
    BY <1>1, <1>2, <2>1 DEF LoaderRead, LoaderWrite
  <2> QED BY <2>1, <2>2 DEF Loadable, IsConfig
<1>3. CASE cfg.SteamID \in SteamIDs
  <2>1. cfg.SteamID # Zero /\ Valid(cfg.SteamID) /\ NewSteamID(cfg.SteamID) = cfg.SteamID
    BY <1>3, SettingsAssumption DEF Valid, NewSteamID
  <2>2. LoaderWrite(cfg).steam_id = cfg.SteamID
    BY <2>1 DEF LoaderWrite
  <2>3. LoaderRead(LoaderWrite(cfg)) =
          [SteamID |-> cfg.SteamID, ConsoleLogPath |-> cfg.ConsoleLogPath,
           APIBaseURL |-> cfg.APIBaseURL, LogSecret |-> cfg.LogSecret]
    BY <1>1, <2>1, <2>2 DEF LoaderRead, LoaderWrite
  <2> QED BY <2>1, <2>2, <2>3 DEF Loadable, IsConfig
<1> QED BY <1>2, <1>3 DEF IsConfig

SettingsInv ==
  /\ IsConfig(formCfg)
  /\ SavedFileLoads

(* A file that the form has written can be read at the next start and      *)
(* gives back the config that was saved, for any SteamIDs, whatever the    *)
(* form began with and whatever was typed, rejected and corrected.         *)
THEOREM SavedFileLoadsHolds == SettingsSpec => []SavedFileLoads
<1>1. SettingsInit => SettingsInv
  BY ReadIsConfig DEF SettingsInit, SettingsInv, SavedFileLoads
<1>2. SettingsInv /\ [SettingsNext]_setVars => SettingsInv'
  <2> SUFFICES ASSUME SettingsInv, [SettingsNext]_setVars PROVE SettingsInv'
    OBVIOUS
  <2>1. CASE EditFile
    BY <2>1 DEF EditFile, SettingsInv, SavedFileLoads, IsConfig
  <2>2. CASE StartProgram
    <3>1. formCfg' = LoaderRead(yaml) /\ UNCHANGED <<yaml, writer>>
      BY <2>2 DEF StartProgram
    <3>2. IsConfig(formCfg)'
      BY <3>1, ReadIsConfig DEF IsConfig
    <3> QED BY <3>1, <3>2 DEF SettingsInv, SavedFileLoads
  <2>3. CASE EndProgram
    BY <2>3 DEF EndProgram, SettingsInv, SavedFileLoads, IsConfig
  <2>4. CASE EditInput
    BY <2>4 DEF EditInput, SettingsInv, SavedFileLoads, IsConfig
  <2>5. CASE SaveForm
    <3>1. PICK cfg : cfg = [formCfg EXCEPT !.SteamID = NewSteamID(inputs["steam_id"]),
                                           !.ConsoleLogPath = inputs["console_log_path"],
                                           !.APIBaseURL = inputs["api_base_url"]]
      OBVIOUS
    <3>2. IsConfig(cfg)
      BY <3>1 DEF SettingsInv, IsConfig, NewSteamID
    <3>3. yaml' = LoaderWrite(cfg) /\ formCfg' = cfg
      BY <2>5, <3>1 DEF SaveForm
    <3>4. Loadable(yaml') /\ LoaderRead(yaml') = formCfg'
      BY <3>2, <3>3, WriteThenRead
    <3>5. IsConfig(formCfg)'
      BY <3>2, <3>3 DEF IsConfig
    <3> QED BY <3>4, <3>5 DEF SettingsInv, SavedFileLoads
  <2>6. CASE UNCHANGED setVars
    BY <2>6 DEF setVars, SettingsInv, SavedFileLoads, IsConfig
  <2> QED BY <2>1, <2>2, <2>3, <2>4, <2>5, <2>6 DEF SettingsNext
<1>3. SettingsInv => SavedFileLoads
  BY DEF SettingsInv
<1> QED BY <1>1, <1>2, <1>3, PTL DEF SettingsSpec

=============================================================================
