----------------------------- MODULE EventRouter ----------------------------
(***************************************************************************)
(* How a log line gets from the game to those who listen for it:           *)
(*                                                                         *)
(*   internal/tf/console  the sources: Local tails console.log, Remote     *)
(*                        reads srcds log packets, Debug replays a file;   *)
(*   internal/tf/events/router.go   ListenFor registers a channel, Send    *)
(*                        offers an event to the channels registered for   *)
(*                        its host, and drops it where nobody is ready;    *)
(*   internal/state       NewManager and newServerState, which register a  *)
(*                        blackBox and a serverState for every server, and *)
(*                        the two select loops that receive;               *)
(*   internal/cmd/tf-tui/app.go   logEventUpdater, which registers, while  *)
(*                        lines already arrive, for the lines of all hosts *)
(*                        with a buffered channel.                         *)
(*                                                                         *)
(* A line is its source, its number in that source and the game server     *)
(* that logged it; its text is left out.  Lines lost before tf-tui reads   *)
(* them (UDP) are not counted, and packets Remote skips without a trace    *)
(* (read timeouts, no "L " marker, a secret that is no number) are no      *)
(* steps.  serverMessageCounts is only ever logged.                        *)
(***************************************************************************)
EXTENDS Naturals, Sequences

CONSTANTS Servers,        \* conf.Servers: a sequence of [address, secret]
          SecretKey,      \* the key the config file gives the secret under
          ServerMode,     \* conf.ServerModeEnabled
          ClientAddress,  \* conf.Client.Address, "" unless configured
          Debug,          \* conf.Debug
          Stranger,       \* the secret of a server that is not configured
          EventTypes,     \* the event types of the parser, Any included
          AppBuffer,      \* capacity of logEventUpdater's channel
          Cancellable,    \* whether ctx gets cancelled
          MaxLines        \* bound: lines read, by all sources together

Any == "any"

(* The host of a line whose server is not known; registering for it is     *)
(* registering for all hosts.                                              *)
NoHost == ""

Addresses == {Servers[i].address : i \in DOMAIN Servers}

(* NewManager returns errNoServersFound without servers.  "Address is the  *)
(* RCON address of the server. Must be unique."; of the secret: "You MUST  *)
(* set these to unique values for each server".  0 is the unset secret.    *)
ASSUME RouterAssumption ==
  /\ Servers \in Seq([address : STRING, secret : Nat]) /\ Servers # <<>>
  /\ NoHost \notin Addresses
  /\ \A i, j \in DOMAIN Servers :
       \/ i = j
       \/ /\ Servers[i].address # Servers[j].address
          /\ Servers[i].secret # Servers[j].secret
  /\ SecretKey \in {"logsecret", "log_secret"}
  /\ ServerMode \in BOOLEAN
  /\ ClientAddress \in STRING
  /\ Debug \in BOOLEAN
  /\ Stranger \in Nat
  /\ \A i \in DOMAIN Servers : Servers[i].secret # Stranger
  /\ Any \in EventTypes
  /\ AppBuffer \in Nat
  /\ Cancellable \in BOOLEAN
  /\ MaxLines \in Nat

VARIABLES
  built,     \* how many serverStates NewManager has made
  router,    \* the Router's maps of handlers
  hostMap,   \* remoteOpts.ServerHostMap
  source,    \* where the Start of each source is
  read,      \* how many lines it has read
  send,      \* its call to Send: the event, the handlers to offer it to,
             \* and (history) those it has been offered to
  rejected,  \* history: senders whose lines were refused for their secret
  listener,  \* where the select loop behind each handler is
  buffer,    \* what is in logEventUpdater's channel
  heard,     \* history: the events of each source each handler has received
  ctxDone    \* ctx is cancelled

vars == <<built, router, hostMap, source, read, send, rejected, listener,
          buffer, heard, ctxDone>>

Sources == {"console", "debug"}

(* The server a state is kept of: all of them, or the local client.        *)
States == IF ServerMode THEN Servers
          ELSE <<[address |-> ClientAddress, secret |-> 0]>>

StateIDs == DOMAIN States
Hosts    == {States[i].address : i \in StateIDs} \cup {NoHost}

App           == <<"app", 0>>
BlackBox(i)   == <<"blackbox", i>>
State(i)      == <<"state", i>>
HandlersOf(i) == {BlackBox(i), State(i)}
Handlers      == {App} \cup UNION {HandlersOf(i) : i \in StateIDs}

Event == [src : Sources, n : Nat, from : Nat, hostPort : Hosts,
          type : EventTypes]

NoEvent == [src |-> "none", n |-> 0, from |-> 0, hostPort |-> NoHost, type |-> Any]
NoSend  == [event |-> NoEvent, todo |-> <<>>, tried |-> {}]

-----------------------------------------------------------------------------
(* The router's maps.                                                      *)

(* Mutated form of ListenFor: a second handler replaces the first.         *)
ListenForReplaces(r, hostPort, handler, logType) ==
  IF hostPort = NoHost THEN [r EXCEPT !.readersAll = <<handler>>]
  ELSE IF logType = Any THEN [r EXCEPT !.readersAny[hostPort] = <<handler>>]
  ELSE [r EXCEPT !.readers[hostPort][logType] = <<handler>>]

(* Mutated form of ListenFor: the break after readersAny is missing.       *)
ListenForBoth(r, hostPort, handler, logType) ==
  IF hostPort = NoHost THEN [r EXCEPT !.readersAll = Append(@, handler)]
  ELSE IF logType = Any
       THEN [r EXCEPT !.readersAny[hostPort] = Append(@, handler),
                      !.readers[hostPort][logType] = Append(@, handler)]
  ELSE [r EXCEPT !.readers[hostPort][logType] = Append(@, handler)]

(* ListenFor with one log type: every caller gives it exactly one.         *)
ListenFor(r, hostPort, handler, logType) ==
  IF hostPort = NoHost THEN [r EXCEPT !.readersAll = Append(@, handler)]
  ELSE IF logType = Any
       THEN [r EXCEPT !.readersAny[hostPort] = Append(@, handler)]
  ELSE [r EXCEPT !.readers[hostPort][logType] = Append(@, handler)]

(* Mutated form of HandlersFor: the handlers of one host hear every host.  *)
HandlersForAny(hostPort, type) ==
  router.readersAny[States[1].address] \o router.readersAll

(* The handlers Send offers an event to, one after the other.              *)
HandlersFor(hostPort, type) ==
  router.readers[hostPort][type] \o router.readersAny[hostPort]
    \o router.readersAll

-----------------------------------------------------------------------------
(* NewManager.                                                             *)

LogSecret(i) == IF SecretKey = "logsecret" THEN States[i].secret ELSE 0

NewServerState ==
  /\ built < Len(States)
  /\ LET i    == built + 1
         addr == States[i].address
         bb   == ListenFor(router, addr, BlackBox(i), Any)
     IN  /\ router' = ListenFor(bb, addr, State(i), Any)
         /\ hostMap' = IF ServerMode
                       THEN [x \in DOMAIN hostMap \cup {LogSecret(i)} |->
                               IF x = LogSecret(i) THEN addr ELSE hostMap[x]]
                       ELSE hostMap
  /\ built' = built + 1
  /\ UNCHANGED <<source, read, send, rejected, listener, buffer, heard, ctxDone>>

Ready == built = Len(States)

(* main starts Debug, app.Start starts the source of the Manager.          *)
StartSource(src) ==
  /\ Ready
  /\ source[src] = "off"
  /\ src = "debug" => Debug
  /\ source' = [source EXCEPT ![src] = "reading"]
  /\ UNCHANGED <<built, router, hostMap, read, send, rejected, listener,
                 buffer, heard, ctxDone>>

-----------------------------------------------------------------------------
(* Send.  It holds readersMu.RLock from the lookup of the handlers to the  *)
(* last of them, so a ListenFor in between waits; and a ListenFor that     *)
(* waits for the lock keeps later calls of Send out (sync.RWMutex).        *)

Sending(src) == source[src] = "sending"

RLock(src, from, hostPort) ==
  /\ Ready
  /\ source[src] = "reading"
  /\ listener[App] # "registering"
  /\ read["console"] + read["debug"] < MaxLines
  /\ read' = [read EXCEPT ![src] = @ + 1]
  /\ source' = [source EXCEPT ![src] = "sending"]
  /\ \E type \in EventTypes :
       send' = [send EXCEPT ![src] =
                  [event |-> [src |-> src, n |-> read[src] + 1, from |-> from,
                              hostPort |-> hostPort, type |-> type],
                   todo |-> HandlersFor(hostPort, type), tried |-> {}]]
  /\ UNCHANGED <<built, router, hostMap, rejected, listener, buffer, heard,
                 ctxDone>>

(* Mutated form of Accepts: room in the buffer is not looked at.           *)
AcceptsApp(ch) == ch = App \/ listener[ch] = "parked"

(* A send to the channel would not block: there is room in its buffer, or  *)
(* it has none and the receiver waits in its select.                       *)
Accepts(ch) ==
  IF ch = App THEN Len(buffer) < AppBuffer ELSE listener[ch] = "parked"

Receive(ch, event) ==
  /\ heard' = [heard EXCEPT ![ch][event.src] = Append(@, event)]
  /\ listener' = [listener EXCEPT ![ch] = "busy"]

Offered(src) ==
  send' = [send EXCEPT ![src] = [event |-> @.event, todo |-> Tail(@.todo),
                                 tried |-> @.tried \cup {Head(@.todo)}]]

Deliver(src) ==
  LET ch == Head(send[src].todo)
  IN  /\ Sending(src)
      /\ send[src].todo # <<>>
      /\ Accepts(ch)
      /\ \/ /\ ch = App
            /\ buffer' = Append(buffer, send[src].event)
            /\ UNCHANGED <<listener, heard>>
         \/ /\ ch # App
            /\ Receive(ch, send[src].event)
            /\ UNCHANGED buffer
      /\ Offered(src)
      /\ UNCHANGED <<built, router, hostMap, source, read, rejected, ctxDone>>

(* Mutated form of Drop: handler <- logEvent, with no default case.        *)
DropNever(src) == FALSE /\ UNCHANGED vars

(* The default case.                                                       *)
Drop(src) ==
  /\ Sending(src)
  /\ send[src].todo # <<>>
  /\ ~Accepts(Head(send[src].todo))
  /\ Offered(src)
  /\ UNCHANGED <<built, router, hostMap, source, read, rejected, listener,
                 buffer, heard, ctxDone>>

(* Send returns, and the source goes back to its loop.                     *)
RUnlock(src) ==
  /\ Sending(src)
  /\ send[src].todo = <<>>
  /\ source' = [source EXCEPT ![src] = "reading"]
  /\ send' = [send EXCEPT ![src] = NoSend]
  /\ UNCHANGED <<built, router, hostMap, read, rejected, listener, buffer,
                 heard, ctxDone>>

-----------------------------------------------------------------------------
(* The sources.                                                            *)

(* Those who send log packets: the servers, and 0, one that is not ours.   *)
Senders == StateIDs \cup {0}

SignedWith(i) == IF i = 0 THEN Stranger ELSE States[i].secret

(* Remote.Start, a packet with a secret (0x53) from sender i.              *)
SecureKnown(i) ==
  /\ ServerMode
  /\ SignedWith(i) \in DOMAIN hostMap
  /\ RLock("console", i, hostMap[SignedWith(i)])

(* "Got unknown log secret": the line is dropped.                          *)
SecureUnknown(i) ==
  /\ ServerMode /\ Ready
  /\ source["console"] = "reading"
  /\ SignedWith(i) \notin DOMAIN hostMap
  /\ rejected' = rejected \cup {i}
  /\ UNCHANGED <<built, router, hostMap, source, read, send, listener, buffer,
                 heard, ctxDone>>

(* A packet of the legacy format (0x52): no secret, no host.               *)
Legacy(i) == ServerMode /\ RLock("console", i, NoHost)

(* Local.Start, a line of console.log.                                     *)
LocalLine == ~ServerMode /\ RLock("console", 1, NoHost)

(* Debug.Start, a line of the file it replays.                             *)
DebugLine == RLock("debug", 0, NoHost)

StopSource(src) ==
  /\ ctxDone
  /\ source[src] = "reading"
  /\ source' = [source EXCEPT ![src] = "stopped"]
  /\ UNCHANGED <<built, router, hostMap, read, send, rejected, listener,
                 buffer, heard, ctxDone>>

-----------------------------------------------------------------------------
(* The listeners.                                                          *)

(* serverState.start is through with onStart, and blackBox.Start runs.     *)
Started(i) ==
  /\ Ready
  /\ \A ch \in HandlersOf(i) : listener[ch] = "off"
  /\ listener' = [ch \in Handlers |->
                    IF ch \in HandlersOf(i) THEN "busy" ELSE listener[ch]]
  /\ UNCHANGED <<built, router, hostMap, source, read, send, rejected, buffer,
                 heard, ctxDone>>

Move(ch, from, to) ==
  /\ listener[ch] = from
  /\ listener' = [listener EXCEPT ![ch] = to]
  /\ UNCHANGED <<built, router, hostMap, source, read, send, rejected, buffer,
                 heard, ctxDone>>

(* The loop is back in its select.                                         *)
Park(ch) == ch # App /\ Move(ch, "busy", "parked")

(* A ticker of serverState.start fires.                                    *)
Ticker(i) == Move(State(i), "parked", "busy")

StopListener(ch) == ch # App /\ ctxDone /\ Move(ch, "parked", "stopped")

(* logEventUpdater calls ListenFor, and gets readersMu once no Send holds  *)
(* it.                                                                     *)
AppRegisters == Ready /\ Move(App, "off", "registering")

AppListenFor ==
  /\ listener[App] = "registering"
  /\ \A src \in Sources : ~Sending(src)
  /\ router' = ListenFor(router, NoHost, App, Any)
  /\ listener' = [listener EXCEPT ![App] = "parked"]
  /\ UNCHANGED <<built, hostMap, source, read, send, rejected, buffer, heard,
                 ctxDone>>

AppTake ==
  /\ listener[App] = "parked"
  /\ buffer # <<>>
  /\ Receive(App, Head(buffer))
  /\ buffer' = Tail(buffer)
  /\ UNCHANGED <<built, router, hostMap, source, read, send, rejected, ctxDone>>

(* app.uiUpdates <- evt: uiSender has taken it.                            *)
AppForward == Move(App, "busy", "parked")

AppStop == ctxDone /\ Move(App, "parked", "stopped")

Cancel ==
  /\ Cancellable /\ ~ctxDone
  /\ ctxDone' = TRUE
  /\ UNCHANGED <<built, router, hostMap, source, read, send, rejected,
                 listener, buffer, heard>>

-----------------------------------------------------------------------------

Init ==
  /\ built = 0
  /\ router = [readers |-> [h \in Hosts |-> [t \in EventTypes |-> <<>>]],
               readersAny |-> [h \in Hosts |-> <<>>], readersAll |-> <<>>]
  /\ hostMap = <<>>
  /\ source = [src \in Sources |-> "off"]
  /\ read = [src \in Sources |-> 0]
  /\ send = [src \in Sources |-> NoSend]
  /\ rejected = {}
  /\ listener = [ch \in Handlers |-> "off"]
  /\ buffer = <<>>
  /\ heard = [ch \in Handlers |-> [src \in Sources |-> <<>>]]
  /\ ctxDone = FALSE

Dispatch(src) == Deliver(src) \/ Drop(src) \/ RUnlock(src)

Console == \/ \E i \in Senders : SecureKnown(i) \/ SecureUnknown(i) \/ Legacy(i)
           \/ LocalLine

Listening == \/ \E i \in StateIDs : Started(i) \/ Ticker(i)
             \/ \E ch \in Handlers : Park(ch) \/ StopListener(ch)
             \/ AppRegisters \/ AppListenFor \/ AppTake \/ AppForward \/ AppStop

Next ==
  \/ NewServerState
  \/ \E src \in Sources : StartSource(src) \/ Dispatch(src) \/ StopSource(src)
  \/ Console \/ DebugLine \/ Listening \/ Cancel

Spec == Init /\ [][Next]_vars

(* The sources run, and logEventUpdater gets the lock it waits for.  The   *)
(* listeners may do what they like, or nothing: no fairness for them.  The *)
(* select of a source picks ctx.Done sooner or later.                      *)
Fairness ==
  /\ WF_vars(NewServerState)
  /\ \A src \in Sources : WF_vars(Dispatch(src)) /\ SF_vars(StopSource(src))
  /\ WF_vars(AppListenFor)

FairSpec == Spec /\ Fairness

-----------------------------------------------------------------------------
(* Properties.                                                             *)

(* Every variable has its type, and the channel of logEventUpdater never   *)
(* holds more than its capacity.                                           *)
TypeOK ==
  /\ built \in 0..Len(States)
  /\ router \in [readers : [Hosts -> [EventTypes -> Seq(Handlers)]],
                 readersAny : [Hosts -> Seq(Handlers)],
                 readersAll : Seq(Handlers)]
  /\ DOMAIN hostMap \subseteq Nat
  /\ \A x \in DOMAIN hostMap : hostMap[x] \in Hosts
  /\ source \in [Sources -> {"off", "reading", "sending", "stopped"}]
  /\ read \in [Sources -> 0..MaxLines]
  /\ send \in [Sources -> [event : Event \cup {NoEvent}, todo : Seq(Handlers),
                           tried : SUBSET Handlers]]
  /\ rejected \subseteq Senders
  /\ listener \in [Handlers -> {"off", "registering", "parked", "busy", "stopped"}]
  /\ buffer \in Seq(Event) /\ Len(buffer) <= AppBuffer
  /\ heard \in [Handlers -> [Sources -> Seq(Event)]]
  /\ ctxDone \in BOOLEAN

(* No cross-talk: what a serverState or its blackBox hears from the        *)
(* Manager's log source was logged by its own server, whatever the order   *)
(* in which servers are configured, lines read and handlers registered.    *)
NoCrossTalk ==
  \A i \in StateIDs : \A ch \in HandlersOf(i) :
    \A k \in DOMAIN heard[ch]["console"] : heard[ch]["console"][k].from = i

Attributed(event) ==
  event.src = "console" /\ (ServerMode => event.hostPort # NoHost)

(* "routing them to the appropriate serverState": a line whose server is   *)
(* known is offered to the serverState and the blackBox of that server     *)
(* before Send returns.  "LogSecret is how we authenticate the server      *)
(* logs": no server that has its secret in the config file, under the key  *)
(* of the field's tag, is refused, and none takes the place of another.    *)
OwnerIsOffered ==
  /\ \A src \in Sources :
       Sending(src) /\ Attributed(send[src].event) =>
         \A ch \in HandlersOf(send[src].event.from) :
           \/ ch \in send[src].tried
           \/ \E k \in DOMAIN send[src].todo : send[src].todo[k] = ch
  /\ rejected \cap StateIDs = {}

Numbers(events) == [k \in DOMAIN events |-> events[k].n]

NumbersHeard == [ch \in Handlers |-> [src \in Sources |-> Numbers(heard[ch][src])]]

Feed == INSTANCE LossyFeed WITH sent <- read, got <- NumbersHeard

(* Every handler hears the lines of a source in the order they were read,  *)
(* each at most once, through the handler lists, the buffer of the App and *)
(* two sources that call Send at the same time.                            *)
ImplementsLossyFeed == Feed!FeedSpec

(* logEventUpdater gets to register, however busy the sources are.         *)
AppGetsRegistered == listener[App] = "registering" ~> listener[App] # "registering"

(* Cancelling the context, which may happen at any time, stops every       *)
(* source that was started: no handler, slow, stuck or gone, holds it up   *)
(* in a Send, and nobody who registers does.                               *)
SourcesStop ==
  \A src \in Sources :
    ctxDone /\ source[src] # "off" ~> source[src] = "stopped"

=============================================================================
