------------------------------ MODULE AppProofs -----------------------------
(***************************************************************************)
(* Proofs about App, for any number of edits and saves, in server and in   *)
(* client mode, with and without traffic.                                  *)
(***************************************************************************)
EXTENDS App, SequenceTheorems, TLAPS

-----------------------------------------------------------------------------

(* The configs that are not saves are the first and the edits; one more is *)
(* to come while the file is half written.                                 *)
EditsBounded ==
  /\ changes - saves <= First + MaxEdits
  /\ ~file.whole => changes - saves < First + MaxEdits

AppInv == TypeOK /\ EditsBounded

(* Another config fits: its number is within bounds.                       *)
LEMMA NextConf ==
  ASSUME AppInv, changes - saves < First + MaxEdits
  PROVE  /\ changes + 1 \in Confs
         /\ (changes + 1) - saves <= First + MaxEdits
<1>1. /\ changes \in Nat /\ saves \in Nat /\ saves <= MaxSaves
      /\ MaxEdits \in Nat /\ MaxSaves \in Nat
  BY AppAssumption DEF AppInv, TypeOK, Confs, First
<1> QED BY <1>1 DEF Confs, First

(* The file events of App are file events.                                 *)
LEMMA EventsOK ==
  ASSUME AppInv
  PROVE  /\ \A op \in {"write", "create"} :
              Append(fsEvents, op) \in Seq({"write", "create"})
         /\ fsEvents # <<>> => Tail(fsEvents) \in Seq({"write", "create"})
BY AppendProperties, HeadTailProperties DEF AppInv, TypeOK

(* The defaults, the first config and a message that is none.              *)
LEMMA ConfsOK ==
  /\ Nothing \in Confs /\ First \in Confs
  /\ LogEvent \notin Confs
<1>1. MaxEdits \in Nat /\ MaxSaves \in Nat
  BY AppAssumption
<1> QED BY <1>1 DEF Confs, Nothing, First, LogEvent

-----------------------------------------------------------------------------
(* One lemma for each part of Next.                                        *)

(* The editors: the file and the number of its config.                     *)
LEMMA EditStep ==
  ASSUME AppInv, EditBegin \/ EditEnd \/ Replace
  PROVE  AppInv'
<1>1. CASE EditBegin
  <2>1. /\ fsEvents' \in Seq({"write", "create"})
        /\ file' \in [conf : Confs, whole : BOOLEAN, op : {"write", "create"}]
        /\ file'.whole = FALSE
    BY <1>1, EventsOK DEF EditBegin, Change, AppInv, TypeOK
  <2> QED BY <1>1, <2>1 DEF EditBegin, Change, MayEdit, AppInv, TypeOK, EditsBounded,
                            pumpVars, uiVars, stateVars
<1>2. CASE EditEnd \/ Replace
  <2>1. changes' \in Confs /\ changes' - saves <= First + MaxEdits
    BY <1>2, NextConf DEF EditEnd, Replace, MayEdit, AppInv, EditsBounded
  <2>2. PICK op \in {"write", "create"} :
           /\ fsEvents' = Append(fsEvents, op)
           /\ file' = [conf |-> changes', whole |-> TRUE, op |-> op]
    BY <1>2 DEF EditEnd, Replace, Change
  <2>4. fsEvents' \in Seq({"write", "create"})
    BY <2>2, EventsOK
  <2>5. /\ file' \in [conf : Confs, whole : BOOLEAN, op : {"write", "create"}]
        /\ file'.whole = TRUE
    BY <2>1, <2>2
  <2>3. invalid' \subseteq Confs
    BY <1>2, <2>1 DEF EditEnd, Replace, AppInv, TypeOK
  <2> QED BY <1>2, <2>1, <2>3, <2>4, <2>5
          DEF EditEnd, Replace, Change, AppInv, TypeOK, EditsBounded, pumpVars, uiVars,
              stateVars
<1> QED BY <1>1, <1>2

(* The watcher: what it has read of the file.                              *)
LEMMA WatcherStep ==
  ASSUME AppInv, Watcher
  PROVE  AppInv'
<1>1. HandleEvent
  BY DEF Watcher, OnConfigChange, OnConfigChangeReturns
<1>2. fsEvents' \in Seq({"write", "create"}) /\ cached' \in Confs
  BY <1>1, EventsOK, ConfsOK DEF HandleEvent, ReadInConfig, AppInv, TypeOK
<1>3. watcher' \in {"idle", "sending"} /\ watcherConf' \in Confs
  BY <1>2 DEF Watcher, OnConfigChange, OnConfigChangeReturns, Unmarshal, AppInv, TypeOK
<1> QED BY <1>1, <1>2, <1>3
        DEF HandleEvent, AppInv, TypeOK, EditsBounded, pumpVars, uiVars, fileVars,
            stateVars

(* app.Start.                                                              *)
LEMMA MainStep ==
  ASSUME AppInv, Main
  PROVE  AppInv'
<1>1. CASE Start
  BY <1>1 DEF Start, AppInv, TypeOK, EditsBounded, uiVars, watchVars, fileVars
<1>2. CASE TakeConfig
  BY <1>2, ConfsOK DEF TakeConfig, AppInv, TypeOK, EditsBounded, uiVars, fileVars, stateVars
<1>3. CASE TakeDone
  BY <1>3 DEF TakeDone, AppInv, TypeOK, EditsBounded, uiVars, watchVars, fileVars, stateVars
<1> QED BY <1>1, <1>2, <1>3 DEF Main

(* uiSender takes a message: it calls Send only if it saw a UI.            *)
LEMMA SenderStep ==
  ASSUME AppInv, NEW msg \in Confs \cup {LogEvent}, Sender(msg)
  PROVE  AppInv'
<1>1. /\ main' \in {"init", "select", "forward", "returned"} /\ mainConf' \in Confs
      /\ updater' \in {"init", "select", "forward"}
      /\ UNCHANGED <<syncer, uiVars, watchVars, fileVars, stateVars>>
  BY ConfsOK DEF Sender, SenderDrops, SenderTakes, SenderPanics, Receive, FromMain,
                 FromUpdater, AppInv, TypeOK
<1>2. /\ proc' \in {"running", "returned", "panicked"}
      /\ sender' \in {"init", "select", "send"} /\ senderConf' \in Confs \cup {LogEvent}
      /\ sender' = "send" => appUI = "set"
  BY DEF Sender, SenderDrops, SenderTakes, SenderPanics, Receive, AppInv, TypeOK
<1> QED BY <1>1, <1>2 DEF AppInv, TypeOK, EditsBounded, uiVars, watchVars, fileVars,
                          stateVars

(* A message has reached the UI, or there is no UI any more.               *)
LEMMA SentStep ==
  ASSUME AppInv, SenderSent
  PROVE  AppInv'
<1>1. uiConf' \in Confs
  BY DEF SenderSent, Shown, AppInv, TypeOK
<1> QED BY <1>1 DEF SenderSent, AppInv, TypeOK, EditsBounded, watchVars, fileVars, stateVars

(* stateSyncer, which calls Send only if it saw a UI.                      *)
LEMMA SyncerStep ==
  ASSUME AppInv, Syncer
  PROVE  AppInv'
<1>1. /\ UNCHANGED <<main, mainConf, sender, senderConf, updater, uiVars, watchVars, fileVars,
                     stateVars>>
      /\ syncer' \in {"init", "select", "sendAll", "sendFirst"}
      /\ syncer' \in {"sendAll", "sendFirst"} => appUI = "set"
      /\ proc' \in {"running", "returned", "panicked"}
  BY DEF Syncer, SyncerTick, SyncerSent, SyncerGoes, AppInv, TypeOK
<1> QED BY <1>1 DEF AppInv, TypeOK, EditsBounded, uiVars, watchVars, fileVars, stateVars

(* The UI: app.ui is set and never reset, and a save makes the file whole. *)
LEMMA UIStep ==
  ASSUME AppInv, UI
  PROVE  AppInv'
<1>1. CASE CreateUI \/ Quit
  BY <1>1 DEF CreateUI, Quit, UIGoes, AppInv, TypeOK, EditsBounded, pumpVars, watchVars,
              fileVars, stateVars
<1>2. CASE WindowSize
  <2>1. missed' \in Confs
    <3>1. CASE file.whole
      BY <1>2, <3>1 DEF WindowSize, AppInv, TypeOK, Confs
    <3>2. CASE ~file.whole
      BY <1>2, <3>2, NextConf DEF WindowSize, AppInv, EditsBounded
    <3> QED BY <3>1, <3>2
  <2> QED BY <1>2, <2>1 DEF WindowSize, UIGoes, AppInv, TypeOK, EditsBounded, pumpVars,
                            watchVars, fileVars, stateVars
<1>3. CASE Save
  <2>1. /\ changes \in Nat /\ saves \in Nat /\ saves < MaxSaves
        /\ MaxEdits \in Nat /\ MaxSaves \in Nat
        /\ changes' = changes + 1 /\ saves' = saves + 1
    BY <1>3, AppAssumption DEF Save, AppInv, TypeOK, Confs, First
  <2>2. changes' \in Confs /\ saves' \in 0..MaxSaves /\ changes' - saves' = changes - saves
    BY <2>1 DEF AppInv, EditsBounded, Confs, First
  <2>3. \/ file' = [conf |-> changes', whole |-> TRUE, op |-> "write"]
        \/ file' = file
    BY <1>3 DEF Save
  <2>4. /\ file' \in [conf : Confs, whole : BOOLEAN, op : {"write", "create"}]
        /\ file'.whole = TRUE \/ file' = file
    <3>1. CASE file' = [conf |-> changes', whole |-> TRUE, op |-> "write"]
      BY <2>2, <3>1
    <3>2. CASE file' = file
      BY <3>2 DEF AppInv, TypeOK
    <3> QED BY <2>3, <3>1, <3>2
  <2>5. fsEvents' = Append(fsEvents, "write") \/ fsEvents' = fsEvents
    BY <1>3 DEF Save
  <2>6. fsEvents' \in Seq({"write", "create"})
    BY <2>5, EventsOK DEF AppInv, TypeOK
  <2>7. startConfs' \subseteq Confs /\ setConfigs' \subseteq Confs
    BY <1>3, <2>2 DEF Save, AppInv, TypeOK
  <2> QED BY <1>3, <2>2, <2>4, <2>6, <2>7 DEF Save, AppInv, TypeOK, EditsBounded, pumpVars, stateVars
<1>4. CASE SetConfig
  BY <1>4 DEF SetConfig, Shown, AppInv, TypeOK, EditsBounded, pumpVars, watchVars, fileVars,
              stateVars
<1>5. CASE StartConfig
  <2>1. PICK conf \in startConfs : Shown(conf)
    BY <1>5 DEF StartConfig
  <2>2. uiConf' \in Confs /\ startConfs' = {}
    BY <1>5, <2>1 DEF StartConfig, Shown, AppInv, TypeOK
  <2>3. missed' \in Confs
    BY <1>5 DEF StartConfig, AppInv, TypeOK
  <2> QED BY <1>5, <2>2, <2>3 DEF StartConfig, AppInv, TypeOK, EditsBounded, pumpVars, watchVars,
                                  fileVars, stateVars
<1> QED BY <1>1, <1>2, <1>3, <1>4, <1>5 DEF UI

-----------------------------------------------------------------------------

LEMMA InitOK == Init => AppInv
<1> SUFFICES ASSUME Init PROVE AppInv
  OBVIOUS
<1>1. <<>> \in Seq({"write", "create"}) /\ MaxEdits \in Nat /\ MaxSaves \in Nat
  BY EmptySeq, AppAssumption
<1>2. EditsBounded
  BY <1>1 DEF Init, EditsBounded, First
<1>3. saves \in 0..MaxSaves
  BY <1>1 DEF Init
<1> QED BY <1>1, <1>2, <1>3, ConfsOK DEF Init, AppInv, TypeOK

LEMMA StepOK == AppInv /\ [Next]_vars => AppInv'
<1> SUFFICES ASSUME AppInv, [Next]_vars PROVE AppInv'
  OBVIOUS
<1>1. CASE EditBegin \/ EditEnd \/ Replace
  BY <1>1, EditStep
<1>2. CASE Watcher
  BY <1>2, WatcherStep
<1>3. CASE Main
  BY <1>3, MainStep
<1>4. CASE TakeEvent
  BY <1>4 DEF TakeEvent, AppInv, TypeOK, EditsBounded, uiVars, watchVars, fileVars, stateVars
<1>5. CASE SenderConf \/ SenderEvent
  BY <1>5, SenderStep DEF SenderConf, SenderEvent
<1>6. CASE SenderSent
  BY <1>6, SentStep
<1>7. CASE Syncer
  BY <1>7, SyncerStep
<1>8. CASE UI
  BY <1>8, UIStep
<1>9. CASE RegisterAddress
  BY <1>9 DEF RegisterAddress, AppInv, TypeOK, EditsBounded, pumpVars, uiVars, watchVars,
              fileVars
<1>10. CASE OpenSource
  BY <1>10 DEF OpenSource, AppInv, TypeOK, EditsBounded, pumpVars, uiVars, watchVars,
               fileVars
<1>11. CASE UNCHANGED vars
  BY <1>11 DEF vars, AppInv, TypeOK, EditsBounded, pumpVars, uiVars, watchVars, fileVars,
               stateVars
<1> QED BY <1>1, <1>2, <1>3, <1>4, <1>5, <1>6, <1>7, <1>8, <1>9, <1>10, <1>11 DEF Next

(* Every variable keeps its type, for any number of edits and saves; and   *)
(* neither uiSender nor stateSyncer is ever in Send without a UI, whenever *)
(* the UI is created and whatever comes in before.                         *)
THEOREM TypeCorrect == Spec => []TypeOK
<1>1. AppInv => TypeOK
  BY DEF AppInv
<1> QED BY <1>1, InitOK, StepOK, PTL DEF Spec

-----------------------------------------------------------------------------
(* The config on its way from the file to the UI.                          *)

(* The newest config that the watcher has read: each goroutine has one at  *)
(* most, and hands it on before it takes another.                          *)
Newest ==
  IF watcher = "sending" THEN watcherConf
  ELSE IF main = "forward" THEN mainConf
  ELSE IF sender = "send" /\ senderConf # LogEvent THEN senderConf
  ELSE uiConf

NewestIsInFile ==
  uiGo = "run" /\ ready /\ proc = "running" /\ Readable /\ Due /\ fsEvents = <<>>
    => Newest = file.conf

(* The last event is the one of the last change.  What saves have still to *)
(* announce is what was Set.  Nothing is said of startConfs: the message   *)
(* of configModel.Init may come at any time, with a config of any age.     *)
PipeInv ==
  /\ uiGo # "create" => appUI = "set"
  /\ ready => uiGo # "create"
  /\ main = "init" => sender = "init"
  /\ file.conf <= changes
  /\ file.whole /\ fsEvents # <<>> => fsEvents[Len(fsEvents)] = file.op
  /\ setConfigs \subseteq {override} \ {Nothing}
  /\ NewestIsInFile

(* The last of the events when one is added, or the first is taken.        *)
LEMMA LastEvent ==
  ASSUME AppInv
  PROVE  /\ \A op \in {"write", "create"} :
              /\ Append(fsEvents, op) # <<>>
              /\ Append(fsEvents, op)[Len(Append(fsEvents, op))] = op
         /\ fsEvents # <<>> /\ Tail(fsEvents) # <<>> =>
              Tail(fsEvents)[Len(Tail(fsEvents))] = fsEvents[Len(fsEvents)]
         /\ fsEvents # <<>> /\ Tail(fsEvents) = <<>> => Head(fsEvents) = fsEvents[Len(fsEvents)]
<1>1. PICK s : s = fsEvents
  OBVIOUS
<1>2. s \in Seq({"write", "create"}) /\ Len(s) \in Nat
  BY <1>1, LenProperties DEF AppInv, TypeOK
<1>3. ASSUME NEW op \in {"write", "create"}
      PROVE  Append(s, op) # <<>> /\ Append(s, op)[Len(Append(s, op))] = op
  <2>1. Len(Append(s, op)) = Len(s) + 1 /\ Append(s, op)[Len(s) + 1] = op
    BY <1>2, AppendProperties
  <2> QED BY <1>2, <2>1, AppendProperties
<1>4. ASSUME s # <<>>
      PROVE  /\ Tail(s) # <<>> => Tail(s)[Len(Tail(s))] = s[Len(s)]
             /\ Tail(s) = <<>> => Head(s) = s[Len(s)]
  <2>1. /\ Head(s) = s[1] /\ Len(Tail(s)) = Len(s) - 1
        /\ \A i \in 1 .. Len(Tail(s)) : Tail(s)[i] = s[i + 1]
    BY <1>2, <1>4, HeadTailProperties
  <2>2. Tail(s) \in Seq({"write", "create"})
    BY <1>2, <1>4, HeadTailProperties
  <2>3. ASSUME Tail(s) # <<>> PROVE Tail(s)[Len(Tail(s))] = s[Len(s)]
    <3>1. Len(Tail(s)) \in 1 .. Len(Tail(s))
      BY <2>2, <2>3, LenProperties, EmptySeq
    <3> QED BY <1>2, <2>1, <3>1
  <2>4. ASSUME Tail(s) = <<>> PROVE Head(s) = s[Len(s)]
    <3>1. Len(Tail(s)) = 0
      BY <2>2, <2>4, EmptySeq, LenProperties
    <3> QED BY <1>2, <2>1, <3>1
  <2> QED BY <2>3, <2>4
<1> QED BY <1>1, <1>3, <1>4

(* An editor: an event is to come.                                         *)
LEMMA EditKeepsPipe ==
  ASSUME AppInv, PipeInv, EditBegin \/ EditEnd \/ Replace
  PROVE  PipeInv'
<1>1. changes \in Nat /\ file.conf \in Nat
  BY AppAssumption DEF AppInv, TypeOK, Confs, First
<1>2. UNCHANGED <<uiGo, ready, appUI, setConfigs, override, main, sender>>
  BY DEF EditBegin, EditEnd, Replace, Change, uiVars, pumpVars
<1>3. PICK op \in {"write", "create"} : fsEvents' = Append(fsEvents, op)
  BY DEF EditBegin, EditEnd, Replace, Change
<1>4. /\ file'.conf <= changes'
      /\ file'.whole => fsEvents' = Append(fsEvents, file'.op) /\ file'.op \in {"write", "create"}
  <2>1. CASE EditBegin
    <3>1. file' = [file EXCEPT !.whole = FALSE] /\ changes' = changes
      BY <2>1 DEF EditBegin, Change
    <3>2. file'.conf = file.conf /\ file'.whole = FALSE
      BY <3>1 DEF AppInv, TypeOK
    <3> QED BY <3>1, <3>2 DEF PipeInv
  <2>2. CASE EditEnd \/ Replace
    <3>1. PICK o \in {"write", "create"} :
             /\ file' = [conf |-> changes', whole |-> TRUE, op |-> o]
             /\ fsEvents' = Append(fsEvents, o)
             /\ changes' = changes + 1
      BY <2>2 DEF EditEnd, Replace, Change
    <3>2. file'.conf = changes' /\ file'.op = o /\ changes' \in Nat
      BY <1>1, <3>1
    <3> QED BY <3>1, <3>2
  <2> QED BY <2>1, <2>2
<1>5. fsEvents' # <<>>
  BY <1>3, LastEvent
<1>6. NewestIsInFile'
  BY <1>5 DEF NewestIsInFile
<1>7. file'.whole => fsEvents'[Len(fsEvents')] = file'.op
  BY <1>4, LastEvent
<1> QED BY <1>2, <1>4, <1>6, <1>7 DEF PipeInv

(* The watcher: the last event makes it read what is in the file.          *)
LEMMA WatcherKeepsPipe ==
  ASSUME AppInv, PipeInv, Watcher
  PROVE  PipeInv'
<1>1. /\ watcher = "idle" /\ fsEvents # <<>> /\ fsEvents' = Tail(fsEvents)
      /\ cached' \in ReadInConfig
      /\ UNCHANGED <<proc, pumpVars, uiVars, fileVars, stateVars>>
  BY DEF Watcher, OnConfigChange, OnConfigChangeReturns, HandleEvent
<1>2. UNCHANGED <<file, changes, invalid, override, saves, proc, uiGo, ready, appUI, setConfigs,
                  uiConf, missed, main, mainConf, sender, senderConf>>
  BY <1>1 DEF pumpVars, uiVars, fileVars
<1>3. file.whole /\ fsEvents' # <<>> => fsEvents'[Len(fsEvents')] = file.op
  BY <1>1, LastEvent DEF PipeInv
<1>4. NewestIsInFile'
  <2> SUFFICES ASSUME Readable, Due, fsEvents' = <<>>
               PROVE  watcher' = "sending" /\ watcherConf' = file.conf
    BY <1>2 DEF NewestIsInFile, Newest, Readable, Due
  <2>1. Head(fsEvents) = "write"
    BY <1>1, LastEvent DEF PipeInv, Readable
  <2>2. cached' = file.conf
    BY <1>1 DEF ReadInConfig, Readable
  <2>3. Unmarshal(cached') = file.conf
    BY <2>2 DEF Unmarshal, Due
  <2>4. file.conf \notin invalid
    BY DEF Readable
  <2>5. ~OnConfigChangeReturns
    BY <2>1, <2>3, <2>4 DEF OnConfigChangeReturns
  <2>6. OnConfigChange
    BY <2>5 DEF Watcher
  <2> QED BY <2>3, <2>6 DEF OnConfigChange
<1> QED BY <1>2, <1>3, <1>4 DEF PipeInv

(* app.Start: the config is handed over.                                   *)
LEMMA MainKeepsPipe ==
  ASSUME AppInv, PipeInv, Main
  PROVE  PipeInv'
<1>1. UNCHANGED <<file, changes, invalid, override, uiGo, ready, appUI, setConfigs, uiConf, missed,
                  fsEvents, senderConf>>
  BY DEF Main, Start, TakeConfig, TakeDone, uiVars, watchVars, fileVars
<1>2. NewestIsInFile'
  <2>1. CASE Start
    BY <1>1, <2>1 DEF Start, PipeInv, NewestIsInFile, Newest, Readable, Due, watchVars
  <2>2. CASE TakeConfig
    BY <1>1, <2>2 DEF TakeConfig, PipeInv, NewestIsInFile, Newest, Readable, Due
  <2>3. CASE TakeDone
    BY <1>1, <2>3 DEF TakeDone, NewestIsInFile
  <2> QED BY <2>1, <2>2, <2>3 DEF Main
<1>3. main' = "init" => main = "init" /\ sender' = sender
  BY DEF Main, Start, TakeConfig, TakeDone
<1> QED BY <1>1, <1>2, <1>3 DEF PipeInv

(* uiSender: it drops nothing once the UI is ready.                        *)
LEMMA SenderKeepsPipe ==
  ASSUME AppInv, PipeInv, NEW msg \in Confs \cup {LogEvent}, Sender(msg)
  PROVE  PipeInv'
<1>1. /\ sender = "select" /\ (FromMain(msg) \/ FromUpdater(msg))
      /\ UNCHANGED <<uiVars, watchVars, fileVars>>
  BY DEF Sender, SenderDrops, SenderTakes, SenderPanics, Receive
<1>2. UNCHANGED <<file, changes, invalid, override, uiGo, ready, appUI, setConfigs, uiConf, missed,
                  fsEvents, watcher, watcherConf>>
  BY <1>1 DEF uiVars, watchVars, fileVars
<1>3. NewestIsInFile'
  <2> SUFFICES ASSUME ready, proc' = "running", Newest = file.conf
               PROVE  Newest' = file.conf
    <3>1. proc' = "running" => proc = "running"
      BY DEF Sender, SenderDrops, SenderTakes, SenderPanics
    <3> QED BY <1>2, <3>1 DEF PipeInv, NewestIsInFile, Readable, Due
  <2>1. appUI = "set"
    BY DEF PipeInv
  <2>2. sender' = "send" /\ senderConf' = msg
    BY <2>1 DEF Sender, SenderDrops, SenderTakes, SenderPanics, Receive
  <2>3. CASE FromMain(msg)
    <3>1. msg \in Confs /\ msg = mainConf /\ main = "forward" /\ main' = "select"
      BY <2>3 DEF FromMain, AppInv, TypeOK
    <3> QED BY <1>2, <2>2, <3>1, ConfsOK DEF Newest
  <2>4. CASE FromUpdater(msg)
    BY <1>1, <1>2, <2>2, <2>4 DEF FromUpdater, Newest
  <2> QED BY <1>1, <2>3, <2>4
<1>4. main' # "init"
  BY <1>1 DEF PipeInv, FromMain, FromUpdater
<1> QED BY <1>2, <1>3, <1>4 DEF PipeInv

(* What was on its way is what the UI goes by.                             *)
LEMMA SentKeepsPipe ==
  ASSUME AppInv, PipeInv, SenderSent
  PROVE  PipeInv'
<1>1. UNCHANGED <<file, changes, invalid, override, proc, uiGo, ready, appUI, setConfigs, missed,
                  fsEvents, watcher, watcherConf, main, mainConf>>
  BY DEF SenderSent, watchVars, fileVars
<1>2. /\ sender = "send" /\ sender' = "select"
      /\ uiGo = "run" /\ ready => uiConf' = IF senderConf = LogEvent THEN uiConf ELSE senderConf
  BY DEF SenderSent, Shown
<1>3. NewestIsInFile'
  BY <1>1, <1>2 DEF PipeInv, NewestIsInFile, Newest, Readable, Due
<1> QED BY <1>1, <1>2, <1>3 DEF PipeInv

(* The UI.  What a save announces is what is in the file, or an edit came  *)
(* after it that the save hides.  What the form starts with may take the   *)
(* place of what is shown, of nothing that is still on its way.            *)
LEMMA UIKeepsPipe ==
  ASSUME AppInv, PipeInv, UI
  PROVE  PipeInv'
<1>1. changes \in Nat /\ file.conf \in Nat /\ changes + 1 # Nothing /\ file.conf <= changes
  BY AppAssumption DEF AppInv, TypeOK, Confs, First, Nothing, PipeInv
<1>2. CASE CreateUI \/ Quit
  <2>1. /\ UNCHANGED <<file, changes, invalid, override, proc, ready, setConfigs, uiConf, missed,
                       fsEvents, watcher, watcherConf, main, mainConf, sender, senderConf>>
        /\ uiGo' # "create" => appUI' = "set"
        /\ uiGo # "create" => uiGo' # "create"
        /\ uiGo' = "run" /\ ready => uiGo = "run"
    BY <1>2 DEF CreateUI, Quit, UIGoes, pumpVars, watchVars, fileVars, PipeInv
  <2>2. NewestIsInFile'
    BY <2>1 DEF PipeInv, NewestIsInFile, Newest, Readable, Due
  <2> QED BY <2>1, <2>2 DEF PipeInv
<1>3. CASE WindowSize
  <2>1. /\ UNCHANGED <<file, changes, invalid, override, proc, setConfigs, appUI, uiGo, fsEvents>>
        /\ missed' = changes + (IF file.whole THEN 0 ELSE 1)
        /\ uiGo = "run"
    BY <1>3 DEF WindowSize, UIGoes, watchVars, fileVars
  <2>2. ~(file.conf > missed')
    BY <1>1, <2>1
  <2>3. NewestIsInFile'
    BY <2>1, <2>2 DEF NewestIsInFile, Due
  <2>4. appUI = "set"
    BY <2>1 DEF PipeInv
  <2>5. UNCHANGED <<main, sender>>
    BY <1>3 DEF WindowSize, UIGoes, pumpVars
  <2> QED BY <2>1, <2>3, <2>4, <2>5 DEF PipeInv
<1>4. CASE Save
  <2>1. /\ UNCHANGED <<ready, appUI, uiGo, main, sender>> /\ setConfigs = {}
        /\ changes' = changes + 1 /\ override' = changes'
    BY <1>4 DEF Save, pumpVars
  <2>2. CASE /\ file' = [conf |-> changes', whole |-> TRUE, op |-> "write"]
             /\ fsEvents' = Append(fsEvents, "write")
             /\ setConfigs' = setConfigs \cup {changes'}
    <3>1. file'.conf = changes' /\ file'.op = "write" /\ changes' \in Nat
      BY <1>1, <2>1, <2>2
    <3>2. fsEvents' # <<>> /\ fsEvents'[Len(fsEvents')] = "write"
      BY <2>2, LastEvent
    <3> QED BY <1>1, <2>1, <2>2, <3>1, <3>2 DEF PipeInv, NewestIsInFile
  <2>3. CASE UNCHANGED <<file, fsEvents, setConfigs>>
    <3>1. override' # file.conf /\ override' # Nothing
      BY <1>1, <2>1
    <3>2. NewestIsInFile'
      BY <2>3, <3>1 DEF NewestIsInFile, Due
    <3>3. file.conf <= changes'
      BY <1>1, <2>1
    <3> QED BY <2>1, <2>3, <3>2, <3>3 DEF PipeInv
  <2> QED BY <1>4, <2>2, <2>3 DEF Save
<1>5. CASE SetConfig
  <2>1. UNCHANGED <<file, changes, invalid, override, proc, uiGo, ready, appUI, missed, fsEvents,
                    watcher, watcherConf, main, mainConf, sender, senderConf>>
    BY <1>5 DEF SetConfig, pumpVars, watchVars, fileVars
  <2>2. PICK conf \in setConfigs : setConfigs' = {} /\ Shown(conf)
    BY <1>5 DEF SetConfig
  <2>3. conf = override /\ override # Nothing
    BY <2>2 DEF PipeInv
  <2>4. Due => conf = file.conf
    BY <2>3 DEF Due
  <2>5. uiGo = "run" /\ ready => uiConf' = conf
    BY <2>2 DEF Shown
  <2>6. NewestIsInFile'
    BY <2>1, <2>4, <2>5 DEF PipeInv, NewestIsInFile, Newest, Readable, Due
  <2> QED BY <2>1, <2>2, <2>6 DEF PipeInv
<1>6. CASE StartConfig
  <2>1. /\ UNCHANGED <<file, changes, invalid, override, proc, uiGo, ready, appUI, setConfigs,
                       fsEvents, watcher, watcherConf, main, mainConf, sender, senderConf>>
        /\ missed' = IF uiConf' # uiConf /\ uiConf > missed THEN uiConf ELSE missed
    BY <1>6 DEF StartConfig, pumpVars, watchVars, fileVars
  <2>2. uiConf \in Nat /\ missed \in Nat
    BY AppAssumption DEF AppInv, TypeOK, Confs, First
  <2>3. NewestIsInFile'
    <3>1. CASE uiConf' = uiConf
      BY <2>1, <3>1 DEF PipeInv, NewestIsInFile, Newest, Readable, Due
    <3>2. CASE uiConf' # uiConf
      <4>1. file.conf > missed' => file.conf > missed /\ file.conf # uiConf
        BY <1>1, <2>1, <2>2, <3>2
      <4> QED BY <2>1, <4>1 DEF PipeInv, NewestIsInFile, Newest, Readable, Due
    <3> QED BY <3>1, <3>2
  <2> QED BY <2>1, <2>3 DEF PipeInv
<1> QED BY <1>2, <1>3, <1>4, <1>5, <1>6 DEF UI

(* No config is lost or overtaken on its way from the file to the UI:      *)
(* watcher, app.Start and uiSender hand it on in order, and what a save    *)
(* announces by another way is never older; for any number of edits and    *)
(* saves, with and without traffic.  Only what was shown before the first  *)
(* message of the form came may be put back by it, and then the next       *)
(* change is shown again.                                                  *)
THEOREM QuietConfigAgreesHolds == Spec => []QuietConfigAgrees
<1>1. Init => PipeInv
  <2> SUFFICES ASSUME Init PROVE PipeInv
    OBVIOUS
  <2>1. file.conf = First /\ changes = First /\ First \in Nat
    BY DEF Init, First
  <2> QED BY <2>1 DEF Init, PipeInv, NewestIsInFile
<1>2. AppInv /\ PipeInv /\ [Next]_vars => PipeInv'
  <2> SUFFICES ASSUME AppInv, PipeInv, [Next]_vars PROVE PipeInv'
    OBVIOUS
  <2>1. CASE EditBegin \/ EditEnd \/ Replace
    BY <2>1, EditKeepsPipe
  <2>2. CASE Watcher
    BY <2>2, WatcherKeepsPipe
  <2>3. CASE Main
    BY <2>3, MainKeepsPipe
  <2>4. CASE SenderConf \/ SenderEvent
    BY <2>4, SenderKeepsPipe DEF SenderConf, SenderEvent
  <2>5. CASE SenderSent
    BY <2>5, SentKeepsPipe
  <2>6. CASE UI
    BY <2>6, UIKeepsPipe
  <2>7. ASSUME \/ UNCHANGED vars
               \/ Next /\ (TakeEvent \/ Syncer \/ RegisterAddress \/ OpenSource)
        PROVE  PipeInv'
    <3>1. /\ UNCHANGED <<file, changes, invalid, override, uiGo, ready, appUI, setConfigs, uiConf,
                         missed, fsEvents, watcher, watcherConf, main, mainConf, sender, senderConf>>
          /\ proc' = "running" => proc = "running"
      BY <2>7 DEF vars, Next, TakeEvent, Syncer, SyncerTick, SyncerSent, SyncerGoes, RegisterAddress,
                  OpenSource, pumpVars, uiVars, watchVars, fileVars
    <3> QED BY <3>1 DEF PipeInv, NewestIsInFile, Newest, Readable, Due
  <2> QED BY <2>1, <2>2, <2>3, <2>4, <2>5, <2>6, <2>7 DEF Next
<1>3. PipeInv => QuietConfigAgrees
  BY DEF PipeInv, NewestIsInFile, Newest, QuietConfigAgrees, NoConfigPending, Shows
<1>4. Init => AppInv
  BY InitOK
<1>5. AppInv /\ [Next]_vars => AppInv'
  BY StepOK
<1> QED BY <1>1, <1>2, <1>3, <1>4, <1>5, PTL DEF Spec

=============================================================================
