------------------------- MODULE EventRouterProofs --------------------------
(***************************************************************************)
(* Proofs about EventRouter, for any number of servers, event types and    *)
(* lines, any capacity of the App's channel, in server and in client mode. *)
(***************************************************************************)
EXTENDS EventRouter, SequenceTheorems, TLAPS

-----------------------------------------------------------------------------
(* Facts about the constants.                                              *)

(* The servers a state is kept of: there is at least one, each has an      *)
(* address of its own and, in server mode, a secret of its own.            *)
LEMMA StatesOK ==
  /\ Len(States) \in Nat \ {0}
  /\ StateIDs = 1..Len(States)
  /\ \A i \in StateIDs : States[i].address \in Hosts /\ States[i].secret \in Nat
  /\ \A i, j \in StateIDs :
       \/ i = j
       \/ /\ States[i].address # States[j].address
          /\ States[i].secret # States[j].secret
  /\ ServerMode => \A i \in StateIDs : /\ States[i].address # NoHost
                                       /\ States[i].secret # Stranger
  /\ ~ServerMode => Len(States) = 1 /\ States[1].address = ClientAddress
<1>1. \A i \in StateIDs : States[i].address \in Hosts
  BY DEF Hosts
<1>2. CASE ServerMode
  <2>1. States = Servers
    BY <1>2 DEF States
  <2>2. /\ Len(Servers) \in Nat \ {0}
        /\ DOMAIN Servers = 1..Len(Servers)
        /\ \A i \in DOMAIN Servers : Servers[i].secret \in Nat
    <3>1. Servers \in Seq([address : STRING, secret : Nat]) /\ Servers # <<>>
      BY RouterAssumption
    <3>2. /\ Len(Servers) \in Nat
          /\ DOMAIN Servers = 1..Len(Servers)
          /\ \A i \in 1..Len(Servers) :
               Servers[i] \in [address : STRING, secret : Nat]
      BY <3>1, LenProperties, ElementOfSeq
    <3>3. Len(Servers) # 0
      BY <3>1, EmptySeq
    <3> QED BY <3>2, <3>3
  <2>3. \A i \in DOMAIN Servers : Servers[i].address # NoHost
    BY RouterAssumption DEF Addresses
  <2> QED BY <1>1, <1>2, <2>1, <2>2, <2>3, RouterAssumption DEF StateIDs
<1>3. CASE ~ServerMode
  <2>1. States = <<[address |-> ClientAddress, secret |-> 0]>>
    BY <1>3 DEF States
  <2>2. Len(States) = 1 /\ DOMAIN States = 1..1
    BY <2>1
  <2>3. States[1].address = ClientAddress /\ States[1].secret = 0
    BY <2>1
  <2>4. StateIDs = {1}
    BY <2>2 DEF StateIDs
  <2>5. Len(States) \in Nat \ {0} /\ 1..Len(States) = {1}
    BY <2>2
  <2>6. \A i, j \in StateIDs : i = j
    BY <2>4
  <2>7. \A i \in StateIDs : States[i].secret \in Nat
    BY <2>3, <2>4
  <2> QED BY <1>1, <1>3, <2>2, <2>3, <2>4, <2>5, <2>6, <2>7
<1> QED BY <1>2, <1>3, RouterAssumption

(* StatesOK in the pieces the proofs below cite.                           *)
LEMMA StateIDsOK == StateIDs = 1..Len(States) /\ Len(States) \in Nat \ {0}
BY StatesOK

(* Every serverState's address is a host.                                  *)
LEMMA StateHostOK == \A i \in StateIDs : States[i].address \in Hosts
BY DEF Hosts

(* In client mode there is one serverState, with the client's address.     *)
LEMMA ClientStateOK ==
  ASSUME ~ServerMode
  PROVE  Len(States) = 1 /\ StateIDs = {1} /\ States[1].address = ClientAddress
<1>1. Len(States) = 1 /\ States[1].address = ClientAddress
  BY StatesOK
<1> QED BY <1>1, StateIDsOK

(* In server mode no serverState has the empty host of console.log, and    *)
(* none has the secret of a stranger.                                      *)
LEMMA ServerStatesOK ==
  ASSUME ServerMode, NEW i \in StateIDs
  PROVE  States[i].address # NoHost /\ States[i].secret # Stranger
BY StatesOK

(* The handlers are the App and, for every server, a blackBox and a        *)
(* serverState, all of them different.                                     *)
LEMMA HandlersOK ==
  /\ App \in Handlers
  /\ \A i \in StateIDs : /\ BlackBox(i) \in Handlers /\ State(i) \in Handlers
                         /\ App \notin HandlersOf(i)
                         /\ HandlersOf(i) \subseteq Handlers
                         /\ BlackBox(i) # State(i)
                         /\ HandlersOf(i) = {BlackBox(i), State(i)}
  /\ \A i, j \in StateIDs : HandlersOf(i) \cap HandlersOf(j) # {} => i = j
  /\ \A ch \in Handlers : ch = App \/ \E i \in StateIDs : ch \in HandlersOf(i)
<1>1. \A i \in StateIDs : /\ App # BlackBox(i) /\ App # State(i)
                          /\ BlackBox(i) # State(i)
  BY DEF App, BlackBox, State
<1>2. \A i, j \in StateIDs : /\ BlackBox(i) # State(j)
                             /\ BlackBox(i) = BlackBox(j) => i = j
                             /\ State(i) = State(j) => i = j
  BY DEF BlackBox, State
<1>3. \A i, j \in StateIDs : HandlersOf(i) \cap HandlersOf(j) # {} => i = j
  BY <1>2 DEF HandlersOf
<1>4. \A i \in StateIDs : HandlersOf(i) \subseteq Handlers
  BY DEF Handlers
<1> QED BY <1>1, <1>2, <1>3, <1>4 DEF HandlersOf, Handlers

(* What the router's maps hold.                                            *)
Router == [readers : [Hosts -> [EventTypes -> Seq(Handlers)]],
           readersAny : [Hosts -> Seq(Handlers)],
           readersAll : Seq(Handlers)]

(* ListenFor with Any, the type every caller gives: the handler is added   *)
(* to one list, and every other list is left as it is.                     *)
LEMMA ListenForAny ==
  ASSUME NEW r \in Router, NEW hostPort \in Hosts, NEW handler \in Handlers,
         NEW r2, r2 = ListenFor(r, hostPort, handler, Any)
  PROVE  /\ r2 \in Router
         /\ r2.readers = r.readers
         /\ hostPort = NoHost => /\ r2.readersAny = r.readersAny
                             /\ r2.readersAll = Append(r.readersAll, handler)
         /\ hostPort # NoHost =>
              /\ r2.readersAny[hostPort] = Append(r.readersAny[hostPort], handler)
              /\ \A h \in Hosts : h # hostPort => r2.readersAny[h] = r.readersAny[h]
              /\ r2.readersAll = r.readersAll
<1>1. /\ r.readersAny \in [Hosts -> Seq(Handlers)]
      /\ r.readersAll \in Seq(Handlers)
      /\ r.readers \in [Hosts -> [EventTypes -> Seq(Handlers)]]
      /\ r = [readers |-> r.readers, readersAny |-> r.readersAny,
              readersAll |-> r.readersAll]
  BY DEF Router
<1>2. CASE hostPort = NoHost
  BY <1>1, <1>2, AppendProperties DEF ListenFor, Router
<1>3. CASE hostPort # NoHost
  BY <1>1, <1>3, AppendProperties DEF ListenFor, Router
<1> QED BY <1>2, <1>3

(* The handlers Send offers an event to are a sequence of handlers.        *)
LEMMA HandlersForOK ==
  ASSUME router \in Router, NEW hostPort \in Hosts, NEW type \in EventTypes
  PROVE  HandlersFor(hostPort, type) \in Seq(Handlers)
<1>1. /\ router.readers[hostPort][type] \in Seq(Handlers)
      /\ router.readersAny[hostPort] \in Seq(Handlers)
      /\ router.readersAll \in Seq(Handlers)
  BY DEF Router
<1> QED BY <1>1, ConcatProperties DEF HandlersFor

-----------------------------------------------------------------------------
(* Type correctness.                                                       *)

SendType == [event : Event \cup {NoEvent}, todo : Seq(Handlers),
             tried : SUBSET Handlers]

(* TypeOK, and while a source is in Send there is an event to send.        *)
TypeInv ==
  /\ TypeOK
  /\ \A src \in Sources : Sending(src) => send[src].event \in Event

(* NewServerState keeps the types: what it registers are handlers, and the *)
(* address it enters into the host map is a host.                          *)
LEMMA TypeNewServerState ==
  ASSUME TypeInv, NewServerState
  PROVE  TypeInv'
<1> DEFINE i == built + 1
           addr == States[i].address
           bb == ListenFor(router, addr, BlackBox(i), Any)
<1>1. i \in StateIDs /\ addr \in Hosts /\ built' \in 0..Len(States)
  <2>1. built \in 0..Len(States) /\ built < Len(States) /\ built' = built + 1
    BY DEF TypeInv, TypeOK, NewServerState
  <2>2. Len(States) \in Nat
    BY StatesOK
  <2>3. i \in 1..Len(States) /\ built' \in 0..Len(States)
    BY <2>1, <2>2
  <2> QED BY <2>3, StatesOK
<1>2. bb \in Router
  BY <1>1, HandlersOK, ListenForAny DEF TypeInv, TypeOK, Router
<1>3. router' \in Router
  BY <1>1, <1>2, HandlersOK, ListenForAny DEF NewServerState
<1>4. LogSecret(i) \in Nat
  BY <1>1, StatesOK DEF LogSecret
<1>5. /\ DOMAIN hostMap' \subseteq Nat
      /\ \A x \in DOMAIN hostMap' : hostMap'[x] \in Hosts
  BY <1>1, <1>4 DEF NewServerState, TypeInv, TypeOK
<1> QED BY <1>1, <1>3, <1>5
        DEF NewServerState, TypeInv, TypeOK, Router, Sending

(* Send keeps the types as it starts: it finds a sequence of handlers.     *)
LEMMA TypeRLock ==
  ASSUME TypeInv, NEW src \in Sources, NEW from \in Nat, NEW hostPort \in Hosts,
         RLock(src, from, hostPort)
  PROVE  TypeInv'
<1>1. PICK type \in EventTypes :
        send' = [send EXCEPT ![src] =
                   [event |-> [src |-> src, n |-> read[src] + 1, from |-> from,
                               hostPort |-> hostPort, type |-> type],
                    todo |-> HandlersFor(hostPort, type), tried |-> {}]]
  BY DEF RLock
<1>2. read["console"] \in 0..MaxLines /\ read["debug"] \in 0..MaxLines
  BY DEF TypeInv, TypeOK, Sources
<1>3. read' \in [Sources -> 0..MaxLines]
  <2>1. read["console"] + read["debug"] < MaxLines /\ MaxLines \in Nat
    BY RouterAssumption DEF RLock
  <2>2. read[src] + 1 \in 0..MaxLines
    BY <1>2, <2>1 DEF Sources
  <2> QED BY <2>2 DEF RLock, TypeInv, TypeOK
<1>4. HandlersFor(hostPort, type) \in Seq(Handlers)
  BY HandlersForOK DEF TypeInv, TypeOK, Router
<1>5. [src |-> src, n |-> read[src] + 1, from |-> from, hostPort |-> hostPort,
       type |-> type] \in Event
  BY <1>2 DEF Event, Sources
<1>6. send' \in [Sources -> SendType]
  BY <1>1, <1>4, <1>5 DEF TypeInv, TypeOK, SendType
<1>7. \A s \in Sources : Sending(s)' => send'[s].event \in Event
  BY <1>1, <1>5 DEF TypeInv, TypeOK, Sending, RLock
<1>8. source' \in [Sources -> {"off", "reading", "sending", "stopped"}]
  BY DEF TypeInv, TypeOK, RLock
<1> QED BY <1>3, <1>6, <1>7, <1>8 DEF TypeInv, TypeOK, SendType, RLock

(* Offering keeps the types: Tail of the handlers is one handler shorter.  *)
LEMMA TypeOffered ==
  ASSUME TypeInv, NEW src \in Sources, send[src].todo # <<>>, Offered(src)
  PROVE  /\ Head(send[src].todo) \in Handlers
         /\ send' \in [Sources -> SendType]
         /\ \A s \in Sources : send'[s].event = send[s].event
<1>1. /\ send \in [Sources -> SendType]
      /\ send[src] \in SendType
      /\ send[src].todo \in Seq(Handlers)
      /\ send[src].tried \subseteq Handlers
  BY DEF TypeInv, TypeOK, SendType
<1>2. /\ Head(send[src].todo) \in Handlers
      /\ Tail(send[src].todo) \in Seq(Handlers)
  BY <1>1, HeadTailProperties
<1>3. send' = [send EXCEPT ![src] =
                [event |-> send[src].event, todo |-> Tail(send[src].todo),
                 tried |-> send[src].tried \cup {Head(send[src].todo)}]]
  BY DEF Offered
<1> QED BY <1>1, <1>2, <1>3 DEF SendType

(* Receive keeps the types.                                                *)
LEMMA TypeReceive ==
  ASSUME TypeInv, NEW ch \in Handlers, NEW event \in Event, Receive(ch, event)
  PROVE  /\ heard' \in [Handlers -> [Sources -> Seq(Event)]]
         /\ listener' \in [Handlers -> {"off", "registering", "parked", "busy",
                                        "stopped"}]
<1>1. /\ heard \in [Handlers -> [Sources -> Seq(Event)]]
      /\ event.src \in Sources
  BY DEF TypeInv, TypeOK, Event
<1>2. heard[ch] \in [Sources -> Seq(Event)] /\ heard[ch][event.src] \in Seq(Event)
  BY <1>1
<1>3. Append(heard[ch][event.src], event) \in Seq(Event)
  BY <1>2, AppendProperties
<1>4. heard' = [heard EXCEPT ![ch] = [heard[ch] EXCEPT ![event.src] =
                  Append(heard[ch][event.src], event)]]
  BY DEF Receive
<1>5. heard' \in [Handlers -> [Sources -> Seq(Event)]]
  BY <1>1, <1>2, <1>3, <1>4
<1> QED BY <1>5 DEF Receive, TypeInv, TypeOK

(* Every step keeps the types, and the channel of the App within bounds.   *)
LEMMA TypeStep ==
  ASSUME TypeInv, [Next]_vars
  PROVE  TypeInv'
<1>1. CASE NewServerState
  BY <1>1, TypeNewServerState
<1>2. ASSUME NEW src \in Sources, StartSource(src) \/ StopSource(src)
      PROVE  TypeInv'
  BY <1>2 DEF TypeInv, TypeOK, StartSource, StopSource, Sending
<1>3. ASSUME NEW src \in Sources, Deliver(src)
      PROVE  TypeInv'
  <2> DEFINE ch == Head(send[src].todo)
  <2>1. /\ send[src].todo # <<>> /\ Offered(src) /\ Sending(src)
        /\ send[src].event \in Event /\ Accepts(ch)
    BY <1>3 DEF Deliver, TypeInv
  <2>2. /\ ch \in Handlers
        /\ send' \in [Sources -> SendType]
        /\ \A s \in Sources : send'[s].event = send[s].event
    BY <2>1, TypeOffered
  <2>3. CASE ch = App /\ buffer' = Append(buffer, send[src].event)
             /\ UNCHANGED <<listener, heard>>
    <3>1. Len(buffer) < AppBuffer /\ AppBuffer \in Nat
      BY <2>1, <2>3, RouterAssumption DEF Accepts
    <3>2. buffer' \in Seq(Event) /\ Len(buffer') = Len(buffer) + 1
      BY <2>1, <2>3, AppendProperties DEF TypeInv, TypeOK
    <3>3. Len(buffer') <= AppBuffer
      BY <3>1, <3>2, LenProperties DEF TypeInv, TypeOK
    <3> QED BY <1>3, <2>2, <2>3, <3>2, <3>3
            DEF Deliver, TypeInv, TypeOK, Sending, SendType
  <2>4. CASE ch # App /\ Receive(ch, send[src].event) /\ UNCHANGED buffer
    <3>1. /\ heard' \in [Handlers -> [Sources -> Seq(Event)]]
          /\ listener' \in [Handlers -> {"off", "registering", "parked", "busy",
                                         "stopped"}]
      BY <2>1, <2>2, <2>4, TypeReceive
    <3> QED BY <1>3, <2>2, <2>4, <3>1
            DEF Deliver, TypeInv, TypeOK, Sending, SendType
  <2> QED BY <1>3, <2>3, <2>4 DEF Deliver
<1>4. ASSUME NEW src \in Sources, Drop(src)
      PROVE  TypeInv'
  BY <1>4, TypeOffered DEF Drop, TypeInv, TypeOK, Sending, SendType
<1>5. ASSUME NEW src \in Sources, RUnlock(src)
      PROVE  TypeInv'
  <2>1. NoSend \in SendType
    BY EmptySeq DEF NoSend, SendType
  <2> QED BY <1>5, <2>1 DEF RUnlock, TypeInv, TypeOK, Sending, SendType
<1>6. ASSUME NEW i \in Senders, SecureKnown(i) \/ SecureUnknown(i) \/ Legacy(i)
      PROVE  TypeInv'
  <2>1. i \in Nat /\ "console" \in Sources
    <3>1. StateIDs = 1..Len(States) /\ Len(States) \in Nat
      BY StatesOK
    <3> QED BY <3>1 DEF Senders, Sources
  <2>2. CASE SecureKnown(i)
    BY <2>1, <2>2, TypeRLock DEF SecureKnown, TypeInv, TypeOK
  <2>3. CASE SecureUnknown(i)
    BY <2>3 DEF SecureUnknown, TypeInv, TypeOK, Sending
  <2>4. CASE Legacy(i)
    <3>1. NoHost \in Hosts
      BY DEF Hosts
    <3> QED BY <2>1, <2>4, <3>1, TypeRLock DEF Legacy
  <2> QED BY <1>6, <2>2, <2>3, <2>4
<1>7. CASE LocalLine \/ DebugLine
  <2>1. NoHost \in Hosts /\ "console" \in Sources /\ "debug" \in Sources
    BY DEF Hosts, Sources
  <2> QED BY <1>7, <2>1, TypeRLock DEF LocalLine, DebugLine
<1>8. ASSUME NEW i \in StateIDs, Started(i) \/ Ticker(i)
      PROVE  TypeInv'
  BY <1>8 DEF Started, Ticker, Move, TypeInv, TypeOK, Sending
<1>9. ASSUME NEW ch \in Handlers, Park(ch) \/ StopListener(ch)
      PROVE  TypeInv'
  BY <1>9 DEF Park, StopListener, Move, TypeInv, TypeOK, Sending
<1>10. CASE AppRegisters \/ AppForward \/ AppStop
  BY <1>10 DEF AppRegisters, AppForward, AppStop, Move, TypeInv, TypeOK, Sending
<1>11. CASE AppListenFor
  <2>1. NoHost \in Hosts
    BY DEF Hosts
  <2>2. router' \in Router
    BY <1>11, <2>1, HandlersOK, ListenForAny
       DEF AppListenFor, TypeInv, TypeOK, Router
  <2> QED BY <1>11, <2>2 DEF AppListenFor, TypeInv, TypeOK, Router, Sending
<1>12. CASE AppTake
  <2>1. /\ buffer \in Seq(Event) /\ buffer # <<>>
        /\ Len(buffer) <= AppBuffer /\ AppBuffer \in Nat
    BY <1>12, RouterAssumption DEF AppTake, TypeInv, TypeOK
  <2>2. Head(buffer) \in Event /\ Tail(buffer) \in Seq(Event)
        /\ Len(Tail(buffer)) = Len(buffer) - 1
    BY <2>1, HeadTailProperties
  <2>3. Len(Tail(buffer)) <= AppBuffer
    BY <2>1, <2>2, LenProperties
  <2>4. /\ heard' \in [Handlers -> [Sources -> Seq(Event)]]
        /\ listener' \in [Handlers -> {"off", "registering", "parked", "busy",
                                       "stopped"}]
    BY <1>12, <2>2, HandlersOK, TypeReceive DEF AppTake
  <2> QED BY <1>12, <2>2, <2>3, <2>4 DEF AppTake, TypeInv, TypeOK, Sending
<1>13. CASE Cancel
  BY <1>13 DEF Cancel, TypeInv, TypeOK, Sending
<1>14. CASE UNCHANGED vars
  BY <1>14 DEF vars, TypeInv, TypeOK, Sending
<1> QED BY <1>1, <1>2, <1>3, <1>4, <1>5, <1>6, <1>7, <1>8, <1>9, <1>10, <1>11,
           <1>12, <1>13, <1>14 DEF Next, Dispatch, Console, Listening

(* Initially every variable has its type.                                  *)
LEMMA TypeInit ==
  ASSUME Init
  PROVE  TypeInv
<1>1. 0 \in 0..Len(States) /\ 0 \in 0..MaxLines
  <2>1. Len(States) \in Nat /\ MaxLines \in Nat
    BY StatesOK, RouterAssumption
  <2> QED BY <2>1
<1>2. router \in Router
  BY EmptySeq DEF Init, Router
<1>3. [event |-> NoEvent, todo |-> <<>>, tried |-> {}] \in SendType
  BY EmptySeq DEF SendType
<1>4. send \in [Sources -> SendType]
  BY <1>3 DEF Init, NoSend
<1>5. DOMAIN hostMap = {}
  BY DEF Init
<1>6. buffer \in Seq(Event) /\ Len(buffer) <= AppBuffer
  <2>1. buffer = <<>> /\ Len(<<>>) = 0 /\ AppBuffer \in Nat
    BY EmptySeq, RouterAssumption DEF Init
  <2> QED BY <2>1, EmptySeq
<1>7. heard \in [Handlers -> [Sources -> Seq(Event)]]
  BY EmptySeq DEF Init
<1> QED BY <1>1, <1>2, <1>4, <1>5, <1>6, <1>7
        DEF Init, TypeInv, TypeOK, Router, SendType, Sending

(* Every variable keeps its type, in every behaviour of the router, its    *)
(* sources and its listeners, and logEventUpdater's channel never holds    *)
(* more than its capacity.                                                 *)
THEOREM TypeCorrect == Spec => []TypeOK
<1>1. Init => TypeInv
  BY TypeInit
<1>2. TypeInv /\ [Next]_vars => TypeInv'
  BY TypeStep
<1>3. TypeInv => TypeOK
  BY DEF TypeInv
<1> QED BY <1>1, <1>2, <1>3, PTL DEF Spec

-----------------------------------------------------------------------------
(* What is registered, and where an event goes.                            *)

(* logEventUpdater is past its ListenFor.                                  *)
AppRegistered == listener[App] \notin {"off", "registering"}

(* The tables: nothing is registered for one type only; the handlers of a  *)
(* server are found under its address from NewServerState on, or, for a    *)
(* local client without an address, under all hosts; the App's channel is  *)
(* under all hosts, once, after them.                                      *)
RouterInv ==
  /\ \A h \in Hosts : \A t \in EventTypes : router.readers[h][t] = <<>>
  /\ router.readersAny[NoHost] = <<>>
  /\ \A i \in StateIDs :
       States[i].address # NoHost =>
         router.readersAny[States[i].address] =
           IF i <= built THEN <<BlackBox(i), State(i)>> ELSE <<>>
  /\ router.readersAll =
       IF ~ServerMode /\ ClientAddress = NoHost /\ built = 1
       THEN IF AppRegistered THEN <<BlackBox(1), State(1), App>>
            ELSE <<BlackBox(1), State(1)>>
       ELSE IF AppRegistered THEN <<App>> ELSE <<>>
  /\ listener[App] # "off" => Ready
  /\ \A src \in Sources : source[src] # "off" => Ready

(* ch is meant to hear what is logged for hostPort.                        *)
Meant(ch, hostPort) ==
  ch = App \/ \E i \in StateIDs : ch \in HandlersOf(i) /\ States[i].address = hostPort

(* A call of Send: each handler is offered the event once, only those the  *)
(* event is meant for, and no handler of its server is left out.           *)
CallOK(call) ==
  /\ \A k, l \in DOMAIN call.todo : call.todo[k] = call.todo[l] => k = l
  /\ \A k \in DOMAIN call.todo : /\ call.todo[k] \notin call.tried
                                 /\ Meant(call.todo[k], call.event.hostPort)
  /\ \A i \in StateIDs : \A ch \in HandlersOf(i) :
       States[i].address = call.event.hostPort =>
         ch \in call.tried \/ \E k \in DOMAIN call.todo : call.todo[k] = ch

RouteInv ==
  /\ RouterInv
  /\ \A src \in Sources : Sending(src) => /\ send[src].event.src = src
                                         /\ CallOK(send[src])

(* The order of lines: the line in a call of Send is the last one its      *)
(* source has read, the handlers still to be offered it have heard only    *)
(* older ones, and so has the App of what waits in its channel.            *)
OrderInv ==
  /\ \A src \in Sources : Sending(src) => /\ send[src].event.n = read[src]
                                         /\ read[src] > 0
  /\ \A ch \in Handlers : \A src \in Sources : \A k \in DOMAIN heard[ch][src] :
       heard[ch][src][k].n <= read[src]
  /\ \A src \in Sources : Sending(src) =>
       \A k \in DOMAIN send[src].todo :
         \A m \in DOMAIN heard[send[src].todo[k]][src] :
           heard[send[src].todo[k]][src][m].n < read[src]
  /\ \A b \in DOMAIN buffer :
       /\ buffer[b].n \in 1..read[buffer[b].src]
       /\ \A m \in DOMAIN heard[App][buffer[b].src] :
            heard[App][buffer[b].src][m].n < buffer[b].n
       /\ \A c \in DOMAIN buffer :
            b < c /\ buffer[b].src = buffer[c].src => buffer[b].n < buffer[c].n
       /\ Sending(buffer[b].src) =>
            \A k \in DOMAIN send[buffer[b].src].todo :
              send[buffer[b].src].todo[k] = App => buffer[b].n < read[buffer[b].src]

(* The hosts: the host map knows the servers made so far by their secrets, *)
(* and the line in a call of Send for the host of server i was logged by   *)
(* server i.                                                               *)
OriginInv ==
  /\ ServerMode =>
       /\ \A i \in 1..built : States[i].secret \in DOMAIN hostMap
       /\ \A x \in DOMAIN hostMap : \E i \in 1..built :
            x = States[i].secret /\ hostMap[x] = States[i].address
  /\ Sending("console") =>
       LET event == send["console"].event
       IN  /\ \A i \in StateIDs : States[i].address = event.hostPort => event.from = i
           /\ event.hostPort # NoHost => /\ event.from \in StateIDs
                                     /\ States[event.from].address = event.hostPort
           /\ ~ServerMode => event.hostPort = NoHost /\ event.from = 1
  /\ NoCrossTalk
  /\ rejected \cap StateIDs = {}

(* The lists the handlers are put together from.                           *)
LEMMA ConcatShort ==
  ASSUME NEW S, NEW a \in S, NEW b \in S, NEW c \in S
  PROVE  /\ <<a, b>> \o <<c>> = <<a, b, c>>
         /\ <<a, b>> \o <<>> = <<a, b>>
<1>1. <<a, b>> \in Seq(S) /\ <<c>> \in Seq(S) /\ <<a, b, c>> \in Seq(S)
  OBVIOUS
<1>2. Len(<<a, b>>) = 2 /\ Len(<<c>>) = 1 /\ Len(<<a, b, c>>) = 3
  OBVIOUS
<1>3. /\ <<a, b>> \o <<c>> \in Seq(S)
      /\ Len(<<a, b>> \o <<c>>) = 3
      /\ \A i \in 1..3 : (<<a, b>> \o <<c>>)[i] = <<a, b, c>>[i]
  BY <1>1, <1>2, ConcatProperties
<1>4. <<a, b>> \o <<c>> = <<a, b, c>>
  BY <1>1, <1>2, <1>3, SeqEqual
<1> QED BY <1>1, <1>4, ConcatEmptySeq

(* What Append makes of the sequences of up to two handlers that Send      *)
(* puts together.                                                          *)
LEMMA AppendShort ==
  ASSUME NEW S, NEW a \in S, NEW b \in S, NEW c \in S
  PROVE  /\ Append(<<>>, a) = <<a>>
         /\ Append(Append(<<>>, a), b) = <<a, b>>
         /\ Append(<<a, b>>, c) = <<a, b, c>>
<1>1. /\ <<>> \in Seq(S) /\ <<a>> \in Seq(S) /\ <<b>> \in Seq(S)
      /\ <<c>> \in Seq(S) /\ <<a, b>> \in Seq(S)
  OBVIOUS
<1>2. Append(<<>>, a) = <<a>>
  BY <1>1, AppendIsConcat, ConcatEmptySeq
<1>3. Append(<<a>>, b) = <<a, b>>
  <2>1. /\ Append(<<a>>, b) \in Seq(S) /\ Len(Append(<<a>>, b)) = 2
        /\ Append(<<a>>, b)[1] = a /\ Append(<<a>>, b)[2] = b
    BY <1>1, AppendProperties
  <2>2. Len(<<a, b>>) = 2 /\ <<a, b>>[1] = a /\ <<a, b>>[2] = b
    OBVIOUS
  <2>3. \A k \in 1..2 : k = 1 \/ k = 2
    OBVIOUS
  <2> QED BY <1>1, <2>1, <2>2, <2>3, SeqEqual
<1>4. Append(<<a, b>>, c) = <<a, b, c>>
  BY <1>1, AppendIsConcat, ConcatShort
<1> QED BY <1>2, <1>3, <1>4

(* The handlers an event is offered to once the servers are registered:    *)
(* those of its host, each once, and then perhaps the App.                 *)
LEMMA HandlersForMeant ==
  ASSUME TypeInv, RouterInv, Ready,
         NEW hostPort \in Hosts, NEW type \in EventTypes,
         NEW call, call.todo = HandlersFor(hostPort, type), call.tried = {},
         call.event.hostPort = hostPort
  PROVE  CallOK(call)
<1> DEFINE all == router.readersAll
           any == router.readersAny[hostPort]
<1>1. /\ any \in Seq(Handlers) /\ all \in Seq(Handlers)
      /\ call.todo = any \o all
  <2>1. any \in Seq(Handlers) /\ all \in Seq(Handlers)
    BY DEF TypeInv, TypeOK
  <2>2. call.todo = <<>> \o any \o all
    BY DEF RouterInv, HandlersFor
  <2> QED BY <2>1, <2>2, ConcatEmptySeq
<1>2. ASSUME NEW i \in StateIDs, States[i].address = hostPort,
             call.todo = <<BlackBox(i), State(i), App>>
             \/ call.todo = <<BlackBox(i), State(i)>>
      PROVE  CallOK(call)
  <2>1. \A ch \in {App, BlackBox(i), State(i)} : Meant(ch, hostPort)
    BY <1>2, HandlersOK DEF Meant
  <2>2. \A j \in StateIDs : States[j].address = hostPort => j = i
    BY <1>2, StatesOK
  <2>3. /\ HandlersOf(i) = {BlackBox(i), State(i)}
        /\ App # BlackBox(i) /\ App # State(i) /\ BlackBox(i) # State(i)
    BY HandlersOK
  <2>4. CASE call.todo = <<BlackBox(i), State(i), App>>
    <3>1. /\ DOMAIN call.todo = {1, 2, 3}
          /\ call.todo[1] = BlackBox(i) /\ call.todo[2] = State(i)
          /\ call.todo[3] = App
      BY <2>4
    <3> HIDE <2>4
    <3> QED BY <2>1, <2>2, <2>3, <3>1 DEF CallOK
  <2>5. CASE call.todo = <<BlackBox(i), State(i)>>
    <3>1. /\ DOMAIN call.todo = {1, 2}
          /\ call.todo[1] = BlackBox(i) /\ call.todo[2] = State(i)
      BY <2>5
    <3> HIDE <2>5
    <3> QED BY <2>1, <2>2, <2>3, <3>1 DEF CallOK
  <2> QED BY <1>2, <2>4, <2>5
<1>3. ASSUME \A i \in StateIDs : States[i].address # hostPort,
             call.todo = <<App>> \/ call.todo = <<>>
      PROVE  CallOK(call)
  <2>1. \A k \in DOMAIN call.todo : k = 1 /\ call.todo[k] = App
    BY <1>3
  <2> QED BY <1>3, <2>1 DEF CallOK, Meant
<1>4. CASE hostPort # NoHost
  <2>1. PICK i \in StateIDs : States[i].address = hostPort
    BY <1>4 DEF Hosts
  <2>2. any = <<BlackBox(i), State(i)>>
    <3>1. i <= built
      <4>1. built = Len(States) /\ i \in 1..Len(States) /\ Len(States) \in Nat
        BY StateIDsOK DEF Ready
      <4> QED BY <4>1
    <3> QED BY <1>4, <2>1, <3>1 DEF RouterInv
  <2>3. all = <<App>> \/ all = <<>>
    <3>1. ServerMode \/ ClientAddress # NoHost
      <4>1. ASSUME ~ServerMode PROVE ClientAddress # NoHost
        BY <1>4, <2>1, <4>1, ClientStateOK
      <4> QED BY <4>1
    <3> QED BY <3>1 DEF RouterInv
  <2>4. call.todo = <<BlackBox(i), State(i), App>>
        \/ call.todo = <<BlackBox(i), State(i)>>
    <3>1. BlackBox(i) \in Handlers /\ State(i) \in Handlers /\ App \in Handlers
      BY HandlersOK
    <3>2. /\ <<BlackBox(i), State(i)>> \o <<App>> = <<BlackBox(i), State(i), App>>
          /\ <<BlackBox(i), State(i)>> \o <<>> = <<BlackBox(i), State(i)>>
      BY <3>1, ConcatShort
    <3> QED BY <1>1, <2>2, <2>3, <3>2
  <2> QED BY <1>2, <2>1, <2>4
<1>5. CASE hostPort = NoHost /\ ~ServerMode /\ ClientAddress = NoHost
  <2>1. built = 1 /\ 1 \in StateIDs /\ States[1].address = NoHost
    BY <1>5, ClientStateOK DEF Ready
  <2>2. any = <<>>
    BY <1>5 DEF RouterInv
  <2>3. all = <<BlackBox(1), State(1), App>> \/ all = <<BlackBox(1), State(1)>>
    BY <1>5, <2>1 DEF RouterInv
  <2>4. call.todo = all
    BY <1>1, <2>2, ConcatEmptySeq
  <2> QED BY <1>2, <1>5, <2>1, <2>3, <2>4
<1>6. CASE hostPort = NoHost /\ (ServerMode \/ ClientAddress # NoHost)
  <2>1. ASSUME NEW i \in StateIDs PROVE States[i].address # NoHost
    <3>1. CASE ServerMode
      BY <3>1, ServerStatesOK
    <3>2. CASE ~ServerMode
      BY <1>6, <3>2, ClientStateOK
    <3> QED BY <3>1, <3>2
  <2>2. any = <<>>
    BY <1>6 DEF RouterInv
  <2>3. all = <<App>> \/ all = <<>>
    BY <1>6 DEF RouterInv
  <2>4. call.todo = all
    BY <1>1, <2>2, ConcatEmptySeq
  <2> QED BY <1>3, <1>6, <2>1, <2>3, <2>4
<1> QED BY <1>4, <1>5, <1>6

(* Registering the handlers of one more server.                            *)
LEMMA RouterNewServerState ==
  ASSUME TypeInv, RouterInv, NewServerState
  PROVE  RouterInv'
<1>a. PICK i : i = built + 1
  OBVIOUS
<1>b. PICK addr : addr = States[i].address
  OBVIOUS
<1>c. PICK bb : bb = ListenFor(router, addr, BlackBox(i), Any)
  OBVIOUS
<1>1. /\ built \in Nat /\ built < Len(States) /\ built' = i
      /\ i \in StateIDs /\ addr \in Hosts
  <2>1. built \in 0..Len(States) /\ built < Len(States) /\ built' = built + 1
    BY DEF TypeInv, TypeOK, NewServerState
  <2>2. i \in StateIDs
    BY <1>a, <2>1, StateIDsOK
  <2>3. addr \in Hosts
    BY <1>b, <2>2, StateHostOK
  <2> QED BY <1>a, <2>1, <2>2, <2>3
<1>2. /\ ~Ready /\ listener[App] = "off" /\ listener' = listener
      /\ source' = source /\ \A src \in Sources : source[src] = "off"
  <2>1. ~Ready
    BY <1>1 DEF Ready
  <2> QED BY <2>1 DEF NewServerState, RouterInv
<1>3. /\ BlackBox(i) \in Handlers /\ State(i) \in Handlers
      /\ router \in Router /\ bb \in Router
      /\ router' = ListenFor(bb, addr, State(i), Any)
  <2>1. BlackBox(i) \in Handlers /\ State(i) \in Handlers
    BY <1>1, HandlersOK
  <2>2. router \in Router
    BY DEF TypeInv, TypeOK, Router
  <2>3. bb \in Router
    BY <1>1, <1>c, <2>1, <2>2, ListenForAny
  <2>4. router' = ListenFor(bb, addr, State(i), Any)
    BY <1>a, <1>b, <1>c DEF NewServerState
  <2> QED BY <2>1, <2>2, <2>3, <2>4
<1>d. /\ bb.readers = router.readers
      /\ addr = NoHost => /\ bb.readersAny = router.readersAny
                      /\ bb.readersAll = Append(router.readersAll, BlackBox(i))
      /\ addr # NoHost =>
           /\ bb.readersAny[addr] = Append(router.readersAny[addr], BlackBox(i))
           /\ \A h \in Hosts : h # addr => bb.readersAny[h] = router.readersAny[h]
           /\ bb.readersAll = router.readersAll
  BY <1>1, <1>3, <1>c, ListenForAny
<1>e. /\ router'.readers = bb.readers
      /\ addr = NoHost => /\ router'.readersAny = bb.readersAny
                      /\ router'.readersAll = Append(bb.readersAll, State(i))
      /\ addr # NoHost =>
           /\ router'.readersAny[addr] = Append(bb.readersAny[addr], State(i))
           /\ \A h \in Hosts : h # addr => router'.readersAny[h] = bb.readersAny[h]
           /\ router'.readersAll = bb.readersAll
  BY <1>1, <1>3, ListenForAny
<1>4. router'.readers = router.readers
  BY <1>d, <1>e
<1>5. CASE addr # NoHost
  <2>1. /\ router'.readersAny[addr] =
             Append(Append(router.readersAny[addr], BlackBox(i)), State(i))
        /\ \A h \in Hosts : h # addr => router'.readersAny[h] = router.readersAny[h]
    BY <1>5, <1>d, <1>e
  <2>2. router.readersAny[addr] = <<>>
    <3>1. ~(i <= built)
      BY <1>a, <1>1
    <3> QED BY <1>1, <1>b, <1>5, <3>1 DEF RouterInv
  <2>3. Append(Append(<<>>, BlackBox(i)), State(i)) = <<BlackBox(i), State(i)>>
    BY <1>3, AppendShort
  <2>4. NoHost \in Hosts
    BY DEF Hosts
  <2>5. router'.readersAny[addr] = <<BlackBox(i), State(i)>>
    BY <2>1, <2>2, <2>3
  <2>7. ASSUME NEW j \in StateIDs, States[j].address # NoHost
        PROVE  router'.readersAny[States[j].address] =
                 IF j <= built' THEN <<BlackBox(j), State(j)>> ELSE <<>>
    <3>1. CASE j = i
      <4>1. j <= built'
        BY <1>1, <1>a, <3>1
      <4> QED BY <1>b, <2>5, <3>1, <4>1
    <3>2. CASE j # i
      <4>1. States[j].address # addr /\ States[j].address \in Hosts
        BY <1>1, <1>b, <3>2, StatesOK
      <4>2. router'.readersAny[States[j].address] = router.readersAny[States[j].address]
        BY <2>1, <4>1
      <4>3. j \in Nat
        BY StateIDsOK
      <4>4. j <= built' <=> j <= built
        BY <1>1, <1>a, <3>2, <4>3
      <4> QED BY <2>7, <4>2, <4>4 DEF RouterInv
    <3> QED BY <3>1, <3>2
  <2>8. router'.readersAll = <<>>
    <3>1. router'.readersAll = router.readersAll
      BY <1>5, <1>d, <1>e
    <3>2. ASSUME ~ServerMode PROVE built # 1
      <4>1. Len(States) = 1
        BY <3>2, ClientStateOK
      <4> QED BY <1>1, <4>1
    <3> QED BY <1>2, <3>1, <3>2 DEF RouterInv, AppRegistered
  <2>9. ASSUME ~ServerMode PROVE ClientAddress # NoHost
    BY <1>1, <1>5, <1>b, <2>9, ClientStateOK
  <2>10. router'.readersAny[NoHost] = <<>>
    BY <1>5, <2>1, <2>4 DEF RouterInv
  <2> QED BY <1>2, <1>4, <2>7, <2>8, <2>9, <2>10 DEF RouterInv, AppRegistered
<1>6. CASE addr = NoHost
  <2>1. ASSUME ServerMode PROVE FALSE
    BY <1>1, <1>6, <1>b, <2>1, ServerStatesOK
  <2>2. Len(States) = 1 /\ StateIDs = {1} /\ States[1].address = ClientAddress
    BY <2>1, ClientStateOK
  <2>3. i = 1 /\ built = 0 /\ built' = 1 /\ ClientAddress = NoHost
    <3>1. i = 1
      BY <1>1, <2>2
    <3> QED BY <1>1, <1>6, <1>a, <1>b, <2>2, <3>1
  <2>4. router.readersAll = <<>>
    <3>1. built # 1 /\ ~AppRegistered
      BY <1>2, <2>3 DEF AppRegistered
    <3> QED BY <3>1 DEF RouterInv
  <2>5. /\ router'.readersAny = router.readersAny
        /\ router'.readersAll =
             Append(Append(router.readersAll, BlackBox(i)), State(i))
    BY <1>6, <1>d, <1>e
  <2>6. router'.readersAll = <<BlackBox(1), State(1)>>
    BY <1>3, <2>3, <2>4, <2>5, AppendShort
  <2>7. \A j \in StateIDs : States[j].address = NoHost
    BY <2>2, <2>3
  <2>8. ~AppRegistered' /\ (~ServerMode /\ ClientAddress = NoHost /\ built' = 1)
    BY <1>2, <2>1, <2>3 DEF AppRegistered
  <2>9. /\ \A h \in Hosts : \A t \in EventTypes : router'.readers[h][t] = <<>>
        /\ router'.readersAny[NoHost] = <<>>
    BY <1>4, <2>5 DEF RouterInv
  <2> QED BY <1>2, <2>6, <2>7, <2>8, <2>9 DEF RouterInv
<1> QED BY <1>5, <1>6

(* Offering an event to the next handler.                                  *)
LEMMA CallOffered ==
  ASSUME NEW call \in SendType, call.todo # <<>>, CallOK(call),
         NEW next, next.event = call.event, next.todo = Tail(call.todo),
         next.tried = call.tried \cup {Head(call.todo)}
  PROVE  CallOK(next)
<1>1. /\ call.todo \in Seq(Handlers) /\ Len(call.todo) \in Nat \ {0}
      /\ DOMAIN call.todo = 1..Len(call.todo)
  BY LenProperties, EmptySeq DEF SendType
<1>2. /\ Head(call.todo) = call.todo[1]
      /\ Tail(call.todo) \in Seq(Handlers)
      /\ Len(Tail(call.todo)) = Len(call.todo) - 1
      /\ \A k \in 1..Len(call.todo) - 1 : Tail(call.todo)[k] = call.todo[k + 1]
  BY <1>1, HeadTailProperties
<1>3. /\ DOMAIN next.todo = 1..Len(call.todo) - 1
      /\ \A k \in DOMAIN next.todo : /\ k + 1 \in DOMAIN call.todo /\ k \in Nat
                                     /\ next.todo[k] = call.todo[k + 1]
  BY <1>1, <1>2, LenProperties
<1>4. \A k, l \in DOMAIN next.todo : next.todo[k] = next.todo[l] => k = l
  <2> SUFFICES ASSUME NEW k \in DOMAIN next.todo, NEW l \in DOMAIN next.todo,
                      next.todo[k] = next.todo[l]
               PROVE  k = l
    OBVIOUS
  <2>1. k + 1 = l + 1
    BY <1>3 DEF CallOK
  <2> QED BY <1>3, <2>1
<1>5. ASSUME NEW k \in DOMAIN next.todo
      PROVE  next.todo[k] \notin next.tried /\ Meant(next.todo[k], next.event.hostPort)
  <2>1. /\ k + 1 \in DOMAIN call.todo /\ 1 \in DOMAIN call.todo /\ k + 1 # 1
        /\ next.todo[k] = call.todo[k + 1]
    BY <1>1, <1>3
  <2>2. call.todo[k + 1] # call.todo[1]
    BY <2>1 DEF CallOK
  <2> QED BY <1>2, <2>1, <2>2 DEF CallOK
<1>6. ASSUME NEW i \in StateIDs, NEW ch \in HandlersOf(i),
             States[i].address = next.event.hostPort
      PROVE  ch \in next.tried \/ \E k \in DOMAIN next.todo : next.todo[k] = ch
  <2>1. ch \in call.tried \/ \E k \in DOMAIN call.todo : call.todo[k] = ch
    BY <1>6 DEF CallOK
  <2>2. ASSUME NEW k \in DOMAIN call.todo, call.todo[k] = ch, k # 1
        PROVE  \E m \in DOMAIN next.todo : next.todo[m] = ch
    <3>1. k - 1 \in DOMAIN next.todo /\ (k - 1) + 1 = k
      BY <1>1, <1>3, <2>2
    <3>2. next.todo[k - 1] = ch
      BY <1>3, <2>2, <3>1
    <3> QED BY <3>1, <3>2
  <2> QED BY <1>2, <2>1, <2>2
<1> QED BY <1>4, <1>5, <1>6 DEF CallOK

(* A step of the listeners and sources that leaves the router, the number  *)
(* of servers and the App's registration alone keeps the tables.           *)
LEMMA RouterSame ==
  ASSUME RouterInv, UNCHANGED <<built, router>>,
         AppRegistered' = AppRegistered,
         listener'[App] # "off" => Ready,
         \A src \in Sources : source'[src] # "off" => Ready
  PROVE  RouterInv'
BY DEF RouterInv, Ready

(* Every step keeps the tables and the calls of Send in order.             *)
LEMMA RouteStep ==
  ASSUME TypeInv, RouteInv, [Next]_vars
  PROVE  RouteInv'
<1> USE DEF RouteInv
<1>0. /\ \A src \in Sources : source[src] # "off" => Ready
      /\ listener[App] # "off" => Ready
  BY DEF RouterInv
<1>1. CASE NewServerState
  <2>1. RouterInv'
    BY <1>1, RouterNewServerState
  <2>2. ~Ready
    BY <1>1 DEF NewServerState, Ready, TypeInv, TypeOK
  <2> QED BY <1>0, <1>1, <2>1, <2>2 DEF NewServerState, Sending
<1>2. ASSUME NEW src \in Sources, StartSource(src) \/ StopSource(src)
      PROVE  RouteInv'
  <2>1. RouterInv'
    BY <1>0, <1>2, RouterSame
       DEF StartSource, StopSource, AppRegistered, TypeInv, TypeOK
  <2> QED BY <1>2, <2>1 DEF StartSource, StopSource, Sending, TypeInv, TypeOK
<1>3. ASSUME NEW src \in Sources, Deliver(src) \/ Drop(src)
      PROVE  RouteInv'
  <2>1. /\ Sending(src) /\ send[src].todo # <<>> /\ Offered(src)
        /\ UNCHANGED <<built, router, source>>
    BY <1>3 DEF Deliver, Drop
  <2>2. listener'[App] = listener[App]
    BY <1>3, HandlersOK DEF Deliver, Drop, Receive, TypeInv, TypeOK
  <2>3. RouterInv'
    BY <1>0, <2>1, <2>2, RouterSame DEF AppRegistered
  <2>4. send[src] \in SendType /\ CallOK(send[src])
    BY <2>1 DEF TypeInv, TypeOK, SendType
  <2>5. CallOK(send'[src]) /\ send'[src].event = send[src].event
    <3>1. /\ send'[src].event = send[src].event
          /\ send'[src].todo = Tail(send[src].todo)
          /\ send'[src].tried = send[src].tried \cup {Head(send[src].todo)}
      BY <2>1 DEF Offered, TypeInv, TypeOK
    <3> QED BY <2>1, <2>4, <3>1, CallOffered
  <2>6. \A s \in Sources : s # src => send'[s] = send[s]
    BY <2>1 DEF Offered, TypeInv, TypeOK
  <2> QED BY <2>1, <2>3, <2>5, <2>6 DEF Sending
<1>4. ASSUME NEW src \in Sources, RUnlock(src)
      PROVE  RouteInv'
  <2>1. RouterInv'
    BY <1>0, <1>4, RouterSame
       DEF RUnlock, AppRegistered, Sending, TypeInv, TypeOK
  <2> QED BY <1>4, <2>1 DEF RUnlock, Sending, TypeInv, TypeOK
<1>5. ASSUME NEW src \in Sources, NEW from, NEW hostPort \in Hosts,
             RLock(src, from, hostPort)
      PROVE  RouteInv'
  <2>1. RouterInv'
    BY <1>0, <1>5, RouterSame DEF RLock, AppRegistered, TypeInv, TypeOK
  <2>2. PICK type \in EventTypes :
          send' = [send EXCEPT ![src] =
                     [event |-> [src |-> src, n |-> read[src] + 1, from |-> from,
                                 hostPort |-> hostPort, type |-> type],
                      todo |-> HandlersFor(hostPort, type), tried |-> {}]]
    BY <1>5 DEF RLock
  <2>3. /\ send'[src].todo = HandlersFor(hostPort, type)
        /\ send'[src].tried = {} /\ send'[src].event.hostPort = hostPort
        /\ send'[src].event.src = src
        /\ \A s \in Sources : s # src => send'[s] = send[s]
    BY <2>2 DEF TypeInv, TypeOK
  <2>4. CallOK(send'[src])
    BY <1>5, <2>3, HandlersForMeant DEF RLock
  <2> QED BY <1>5, <2>1, <2>3, <2>4 DEF RLock, Sending, TypeInv, TypeOK
<1>6. ASSUME NEW i \in Senders, SecureKnown(i) \/ SecureUnknown(i) \/ Legacy(i)
      PROVE  RouteInv'
  <2>1. "console" \in Sources /\ NoHost \in Hosts
    BY DEF Sources, Hosts
  <2>2. CASE SecureKnown(i)
    BY <1>5, <2>1, <2>2 DEF SecureKnown, TypeInv, TypeOK
  <2>3. CASE SecureUnknown(i)
    <3>1. RouterInv'
      BY <1>0, <2>3, RouterSame DEF SecureUnknown, AppRegistered
    <3> QED BY <2>3, <3>1 DEF SecureUnknown, Sending
  <2>4. CASE Legacy(i)
    BY <1>5, <2>1, <2>4 DEF Legacy
  <2> QED BY <1>6, <2>2, <2>3, <2>4
<1>7. CASE LocalLine \/ DebugLine
  <2>1. "console" \in Sources /\ "debug" \in Sources /\ NoHost \in Hosts
    BY DEF Sources, Hosts
  <2> QED BY <1>5, <1>7, <2>1 DEF LocalLine, DebugLine
<1>8. ASSUME NEW ch \in Handlers, ch # App, NEW a, NEW b, Move(ch, a, b)
      PROVE  RouteInv'
  <2>1. listener'[App] = listener[App]
    BY <1>8, HandlersOK DEF Move, TypeInv, TypeOK
  <2>2. RouterInv'
    BY <1>0, <1>8, <2>1, RouterSame DEF Move, AppRegistered
  <2> QED BY <1>8, <2>2 DEF Move, Sending
<1>9. ASSUME NEW i \in StateIDs, Started(i) \/ Ticker(i)
      PROVE  RouteInv'
  <2>1. State(i) \in Handlers /\ State(i) # App /\ App \notin HandlersOf(i)
    BY HandlersOK
  <2>2. CASE Started(i)
    <3>1. listener'[App] = listener[App]
      BY <2>1, <2>2, HandlersOK DEF Started
    <3>2. RouterInv'
      BY <1>0, <2>2, <3>1, RouterSame DEF Started, AppRegistered
    <3> QED BY <2>2, <3>2 DEF Started, Sending
  <2>3. CASE Ticker(i)
    BY <1>8, <2>1, <2>3 DEF Ticker
  <2> QED BY <1>9, <2>2, <2>3
<1>10. ASSUME NEW ch \in Handlers, Park(ch) \/ StopListener(ch)
       PROVE  RouteInv'
  BY <1>8, <1>10 DEF Park, StopListener
<1>11. CASE AppRegisters \/ AppForward \/ AppStop
  <2>1. Ready /\ AppRegistered' = AppRegistered
        /\ UNCHANGED <<built, router, source, send>>
    BY <1>0, <1>11, HandlersOK
       DEF AppRegisters, AppForward, AppStop, Move, AppRegistered, TypeInv, TypeOK
  <2>2. RouterInv'
    BY <2>1, RouterSame
  <2> QED BY <2>1, <2>2 DEF Sending
<1>12. CASE AppListenFor
  <2>2. /\ listener[App] = "registering" /\ listener'[App] = "parked"
        /\ Ready /\ UNCHANGED <<built, source, send>>
        /\ \A src \in Sources : ~Sending(src)
    BY <1>0, <1>12, HandlersOK DEF AppListenFor, TypeInv, TypeOK
  <2>3. /\ router'.readers = router.readers
        /\ router'.readersAny = router.readersAny
        /\ router'.readersAll = Append(router.readersAll, App)
    <3>1. router \in Router /\ NoHost \in Hosts /\ App \in Handlers
      BY HandlersOK DEF TypeInv, TypeOK, Router, Hosts
    <3>2. router' = ListenFor(router, NoHost, App, Any)
      BY <1>12 DEF AppListenFor
    <3> QED BY <3>1, <3>2, ListenForAny
  <2>4. ~AppRegistered /\ AppRegistered'
    BY <2>2 DEF AppRegistered
  <2>5. CASE ~ServerMode /\ ClientAddress = NoHost /\ built = 1
    <3>1. router.readersAll = <<BlackBox(1), State(1)>>
      BY <2>4, <2>5 DEF RouterInv
    <3>2. 1 \in StateIDs
      BY <2>5, ClientStateOK
    <3>3. BlackBox(1) \in Handlers /\ State(1) \in Handlers /\ App \in Handlers
      BY <3>2, HandlersOK
    <3>4. router'.readersAll = <<BlackBox(1), State(1), App>>
      <4>1. Append(<<BlackBox(1), State(1)>>, App) = <<BlackBox(1), State(1), App>>
        BY <3>3, AppendShort
      <4> QED BY <2>3, <3>1, <4>1
    <3> QED BY <2>2, <2>3, <2>4, <2>5, <3>4 DEF RouterInv, Ready, Sending
  <2>6. CASE ~(~ServerMode /\ ClientAddress = NoHost /\ built = 1)
    <3>1. router.readersAll = <<>>
      BY <2>4, <2>6 DEF RouterInv
    <3>2. router'.readersAll = <<App>>
      BY <2>3, <3>1, HandlersOK, AppendShort
    <3> QED BY <2>2, <2>3, <2>4, <2>6, <3>2 DEF RouterInv, Ready, Sending
  <2> QED BY <2>5, <2>6
<1>13. CASE AppTake
  <2>1. Ready /\ AppRegistered' = AppRegistered
        /\ UNCHANGED <<built, router, source, send>>
    BY <1>0, <1>13, HandlersOK DEF AppTake, Receive, AppRegistered, TypeInv, TypeOK
  <2>2. RouterInv'
    BY <2>1, RouterSame
  <2> QED BY <2>1, <2>2 DEF Sending
<1>14. CASE Cancel \/ UNCHANGED vars
  <2>1. UNCHANGED <<built, router, source, send, listener>>
    BY <1>14 DEF Cancel, vars
  <2>2. RouterInv'
    BY <1>0, <2>1, RouterSame DEF AppRegistered
  <2> QED BY <2>1, <2>2 DEF Sending
<1> QED BY <1>1, <1>2, <1>3, <1>4, <1>6, <1>7, <1>9, <1>10, <1>11, <1>12, <1>13,
           <1>14 DEF Next, Dispatch, Console, Listening

-----------------------------------------------------------------------------
(* Who hears what.                                                         *)

(* Receive adds the event to what one handler heard of one source.         *)
LEMMA ReceiveOK ==
  ASSUME TypeInv, NEW ch \in Handlers, NEW event \in Event, Receive(ch, event)
  PROVE  /\ heard'[ch][event.src] = Append(heard[ch][event.src], event)
         /\ \A c \in Handlers : \A s \in Sources :
              c # ch \/ s # event.src => heard'[c][s] = heard[c][s]
         /\ DOMAIN heard'[ch][event.src] =
              1..Len(heard[ch][event.src]) + 1
         /\ \A k \in DOMAIN heard'[ch][event.src] :
              \/ heard'[ch][event.src][k] = event
              \/ /\ k \in DOMAIN heard[ch][event.src]
                 /\ heard'[ch][event.src][k] = heard[ch][event.src][k]
<1>1. /\ heard \in [Handlers -> [Sources -> Seq(Event)]]
      /\ event.src \in Sources
  BY DEF TypeInv, TypeOK, Event
<1>2. /\ heard[ch] \in [Sources -> Seq(Event)]
      /\ heard[ch][event.src] \in Seq(Event)
  BY <1>1
<1>3. heard' = [heard EXCEPT ![ch] = [heard[ch] EXCEPT ![event.src] =
                  Append(heard[ch][event.src], event)]]
  BY DEF Receive
<1>4. heard'[ch][event.src] = Append(heard[ch][event.src], event)
  BY <1>1, <1>2, <1>3
<1>5. ASSUME NEW c \in Handlers, NEW s \in Sources, c # ch \/ s # event.src
      PROVE  heard'[c][s] = heard[c][s]
  BY <1>1, <1>2, <1>3, <1>5
<1>6. /\ Append(heard[ch][event.src], event) \in Seq(Event)
      /\ Len(Append(heard[ch][event.src], event)) = Len(heard[ch][event.src]) + 1
      /\ \A k \in 1..Len(heard[ch][event.src]) :
           Append(heard[ch][event.src], event)[k] = heard[ch][event.src][k]
      /\ Append(heard[ch][event.src], event)[Len(heard[ch][event.src]) + 1] = event
      /\ Len(heard[ch][event.src]) \in Nat
      /\ DOMAIN heard[ch][event.src] = 1..Len(heard[ch][event.src])
  BY <1>2, AppendProperties, LenProperties
<1>7. DOMAIN heard'[ch][event.src] = 1..Len(heard[ch][event.src]) + 1
  BY <1>4, <1>6, LenProperties
<1>8. ASSUME NEW k \in DOMAIN heard'[ch][event.src]
      PROVE  \/ heard'[ch][event.src][k] = event
             \/ /\ k \in DOMAIN heard[ch][event.src]
                /\ heard'[ch][event.src][k] = heard[ch][event.src][k]
  <2>1. k = Len(heard[ch][event.src]) + 1 \/ k \in 1..Len(heard[ch][event.src])
    BY <1>6, <1>7
  <2> QED BY <1>4, <1>6, <2>1
<1> QED BY <1>4, <1>5, <1>7, <1>8

(* A handler of server i that hears a line: the line is from server i.     *)
LEMMA HeardFromOwner ==
  ASSUME TypeInv, RouteInv, OriginInv, NEW src \in Sources, Deliver(src)
  PROVE  NoCrossTalk'
<1> DEFINE ch == Head(send[src].todo)
           event == send[src].event
<1>1. /\ Sending(src) /\ event \in Event /\ event.src = src
      /\ CallOK(send[src]) /\ send[src].todo # <<>>
  BY DEF Deliver, TypeInv, RouteInv
<1>2. ch = send[src].todo[1] /\ 1 \in DOMAIN send[src].todo
  BY <1>1, HeadTailProperties, LenProperties, EmptySeq DEF TypeInv, TypeOK
<1>3. CASE ch = App
  BY <1>3 DEF Deliver, OriginInv, NoCrossTalk
<1>a. /\ ch \in Handlers /\ "console" \in Sources
      /\ ch # App => Receive(ch, event)
  BY <1>1, HeadTailProperties DEF Deliver, TypeInv, TypeOK, Sources
<1>b. \A j \in StateIDs : HandlersOf(j) \subseteq Handlers
  BY HandlersOK
<1>4. CASE ch # App /\ src # "console"
  <2>1. \A c \in Handlers : heard'[c]["console"] = heard[c]["console"]
    BY <1>1, <1>4, <1>a, ReceiveOK
  <2> QED BY <1>b, <2>1 DEF OriginInv, NoCrossTalk
<1>5. CASE ch # App /\ src = "console"
  <2>1. PICK i \in StateIDs : ch \in HandlersOf(i) /\ States[i].address = event.hostPort
    BY <1>1, <1>2, <1>5 DEF CallOK, Meant
  <2>2. event.from = i
    BY <1>1, <1>5, <2>1 DEF OriginInv
  <2>3. /\ \A c \in Handlers : c # ch => heard'[c]["console"] = heard[c]["console"]
        /\ \A k \in DOMAIN heard'[ch]["console"] :
             \/ heard'[ch]["console"][k] = event
             \/ /\ k \in DOMAIN heard[ch]["console"]
                /\ heard'[ch]["console"][k] = heard[ch]["console"][k]
    <3>1. event.src = "console" /\ event \in Event /\ ch \in Handlers
          /\ "console" \in Sources /\ Receive(ch, event)
      BY <1>1, <1>5, <1>a
    <3> HIDE DEF event, ch
    <3>2. /\ \A c \in Handlers : \A s \in Sources :
               c # ch \/ s # event.src => heard'[c][s] = heard[c][s]
          /\ \A k \in DOMAIN heard'[ch][event.src] :
               \/ heard'[ch][event.src][k] = event
               \/ /\ k \in DOMAIN heard[ch][event.src]
                  /\ heard'[ch][event.src][k] = heard[ch][event.src][k]
      BY <3>1, ReceiveOK
    <3> QED BY <3>1, <3>2
  <2>4. ASSUME NEW j \in StateIDs, NEW c \in HandlersOf(j),
               NEW k \in DOMAIN heard'[c]["console"]
        PROVE  heard'[c]["console"][k].from = j
    <3>1. CASE c # ch
      BY <1>b, <2>3, <3>1 DEF OriginInv, NoCrossTalk
    <3>2. CASE c = ch
      <4>1. j = i
        BY <2>1, <3>2, HandlersOK
      <4> QED BY <2>1, <2>2, <2>3, <3>2, <4>1 DEF OriginInv, NoCrossTalk
    <3> QED BY <3>1, <3>2
  <2> QED BY <2>4 DEF NoCrossTalk
<1> QED BY <1>3, <1>4, <1>5

(* The host a signed packet is given is the server that signed it, once    *)
(* every server is in the host map; a stranger's secret is not in it.      *)
LEMMA HostOfSecret ==
  ASSUME TypeInv, OriginInv, Ready, ServerMode, NEW i \in Senders
  PROVE  /\ SignedWith(i) \in DOMAIN hostMap =>
              i \in StateIDs /\ hostMap[SignedWith(i)] = States[i].address
         /\ i \in StateIDs => SignedWith(i) \in DOMAIN hostMap
<1>1. 1..built = StateIDs /\ 0 \notin StateIDs
  BY StateIDsOK DEF Ready
<1>2. i \in StateIDs => SignedWith(i) = States[i].secret
  BY <1>1 DEF SignedWith
<1>3. i \notin StateIDs => SignedWith(i) = Stranger
  BY DEF SignedWith, Senders
<1>4. ASSUME SignedWith(i) \in DOMAIN hostMap
      PROVE  i \in StateIDs /\ hostMap[SignedWith(i)] = States[i].address
  <2>1. PICK j \in StateIDs : /\ SignedWith(i) = States[j].secret
                              /\ hostMap[SignedWith(i)] = States[j].address
    BY <1>1, <1>4 DEF OriginInv
  <2>2. i \in StateIDs
    BY <1>3, <2>1, ServerStatesOK
  <2>3. i = j
    BY <1>2, <2>1, <2>2, StatesOK
  <2> QED BY <2>1, <2>2, <2>3
<1> QED BY <1>1, <1>2, <1>4 DEF OriginInv

(* With the secrets where the field's tag puts them, every step keeps the  *)
(* hosts in order.                                                         *)
LEMMA OriginStep ==
  ASSUME SecretKey = "logsecret", TypeInv, RouteInv, OriginInv, [Next]_vars
  PROVE  OriginInv'
<1>0. \A src \in Sources : source[src] # "off" => Ready
  BY DEF RouteInv, RouterInv
<1>1. CASE NewServerState
  <2>1. ~Ready /\ "console" \in Sources
    BY <1>1 DEF NewServerState, Ready, TypeInv, TypeOK, Sources
  <2>2. ~Sending("console")'
    BY <1>0, <1>1, <2>1 DEF NewServerState, Sending
  <2>3. ASSUME ServerMode
        PROVE  /\ \A i \in 1..built' : States[i].secret \in DOMAIN hostMap'
               /\ \A x \in DOMAIN hostMap' : \E i \in 1..built' :
                    x = States[i].secret /\ hostMap'[x] = States[i].address
    <3>1. PICK i : i = built + 1
      OBVIOUS
    <3>2. /\ hostMap' = [x \in DOMAIN hostMap \cup {States[i].secret} |->
                          IF x = States[i].secret THEN States[i].address
                          ELSE hostMap[x]]
          /\ built' = i
      BY <1>1, <2>3, <3>1 DEF NewServerState, LogSecret
    <3>3. built \in Nat /\ 1..i = 1..built \cup {i} /\ i \in 1..i
      <4>1. built \in Nat
        BY StateIDsOK DEF TypeInv, TypeOK
      <4> QED BY <3>1, <4>1
    <3> QED BY <2>3, <3>2, <3>3 DEF OriginInv
  <2>4. NoCrossTalk' /\ rejected' \cap StateIDs = {}
    BY <1>1 DEF OriginInv, NewServerState, NoCrossTalk
  <2> QED BY <2>2, <2>3, <2>4 DEF OriginInv
<1>2. ASSUME UNCHANGED <<built, hostMap, heard, rejected>>,
             Sending("console")' => /\ Sending("console")
                                    /\ send'["console"].event = send["console"].event
      PROVE  OriginInv'
  BY <1>2 DEF OriginInv, NoCrossTalk
<1>3. ASSUME NEW src \in Sources, StartSource(src) \/ StopSource(src) \/ RUnlock(src)
      PROVE  OriginInv'
  <2>1. UNCHANGED <<built, hostMap, heard, rejected>>
    BY <1>3 DEF StartSource, StopSource, RUnlock
  <2>2. Sending("console")' => /\ Sending("console")
                               /\ send'["console"].event = send["console"].event
    BY <1>3 DEF StartSource, StopSource, RUnlock, Sending, TypeInv, TypeOK, Sources
  <2> QED BY <1>2, <2>1, <2>2
<1>4. ASSUME NEW src \in Sources, Deliver(src)
      PROVE  OriginInv'
  <2>1. NoCrossTalk'
    BY <1>4, HeardFromOwner
  <2>2. send'["console"].event = send["console"].event
    BY <1>4 DEF Deliver, Offered, TypeInv, TypeOK, Sources
  <2> QED BY <1>4, <2>1, <2>2 DEF OriginInv, Deliver, Sending
<1>5. ASSUME NEW src \in Sources, Drop(src)
      PROVE  OriginInv'
  <2>1. send'["console"].event = send["console"].event
    BY <1>5 DEF Drop, Offered, TypeInv, TypeOK, Sources
  <2> QED BY <1>2, <1>5, <2>1 DEF Drop, Sending
<1>6. ASSUME NEW from, NEW hostPort, RLock("console", from, hostPort),
             \A i \in StateIDs : States[i].address = hostPort => from = i,
             hostPort # NoHost => /\ from \in StateIDs
                                  /\ States[from].address = hostPort,
             ~ServerMode => hostPort = NoHost /\ from = 1
      PROVE  OriginInv'
  <2>1. /\ send'["console"].event.from = from
        /\ send'["console"].event.hostPort = hostPort
    BY <1>6 DEF RLock, TypeInv, TypeOK, Sources
  <2> QED BY <1>6, <2>1 DEF OriginInv, RLock, NoCrossTalk
<1>7. ASSUME NEW i \in Senders, SecureKnown(i)
      PROVE  OriginInv'
  <2>1. Ready /\ ServerMode /\ SignedWith(i) \in DOMAIN hostMap
    BY <1>7 DEF SecureKnown, RLock
  <2>2. i \in StateIDs /\ hostMap[SignedWith(i)] = States[i].address
    BY <2>1, HostOfSecret
  <2>3. \A j \in StateIDs : States[j].address = hostMap[SignedWith(i)] => i = j
    BY <2>2, StatesOK
  <2> QED BY <1>6, <1>7, <2>1, <2>2, <2>3 DEF SecureKnown
<1>8. ASSUME NEW i \in Senders, SecureUnknown(i)
      PROVE  OriginInv'
  <2>1. i \notin StateIDs
    BY <1>8, HostOfSecret DEF SecureUnknown
  <2> QED BY <1>8, <2>1 DEF SecureUnknown, OriginInv, NoCrossTalk, Sending
<1>9. ASSUME NEW i \in Senders, Legacy(i)
      PROVE  OriginInv'
  <2>1. \A j \in StateIDs : States[j].address # NoHost
    BY <1>9, ServerStatesOK DEF Legacy
  <2> QED BY <1>6, <1>9, <2>1 DEF Legacy
<1>10. CASE LocalLine
  <2>1. \A j \in StateIDs : 1 = j
    BY <1>10, ClientStateOK DEF LocalLine
  <2> QED BY <1>6, <1>10, <2>1 DEF LocalLine
<1>11. CASE DebugLine
  <2>1. /\ send'["console"] = send["console"] /\ source'["console"] = source["console"]
        /\ UNCHANGED <<built, hostMap, heard, rejected>>
    BY <1>11 DEF DebugLine, RLock, TypeInv, TypeOK, Sources
  <2> QED BY <1>2, <2>1 DEF Sending
<1>12. CASE AppTake
  <2>1. Head(buffer) \in Event
    BY <1>12, HeadTailProperties DEF AppTake, TypeInv, TypeOK
  <2>2. \A c \in Handlers : c # App => heard'[c] = heard[c]
    BY <1>12, <2>1, HandlersOK DEF AppTake, Receive, TypeInv, TypeOK
  <2>3. NoCrossTalk'
    BY <2>2, HandlersOK DEF NoCrossTalk, OriginInv
  <2> QED BY <1>12, <2>3 DEF AppTake, OriginInv, Sending
<1>13. ASSUME UNCHANGED <<built, hostMap, source, send, rejected, heard>>
       PROVE  OriginInv'
  BY <1>2, <1>13 DEF Sending
<1>14. ASSUME NEW i \in StateIDs, Started(i) \/ Ticker(i)
       PROVE  OriginInv'
  BY <1>13, <1>14 DEF Started, Ticker, Move
<1>15. ASSUME NEW ch \in Handlers, Park(ch) \/ StopListener(ch)
       PROVE  OriginInv'
  BY <1>13, <1>15 DEF Park, StopListener, Move
<1>16. CASE AppRegisters \/ AppListenFor \/ AppForward \/ AppStop
  BY <1>13, <1>16 DEF AppRegisters, AppListenFor, AppForward, AppStop, Move
<1>17. CASE Cancel \/ UNCHANGED vars
  BY <1>13, <1>17 DEF Cancel, vars
<1> QED BY <1>1, <1>3, <1>4, <1>5, <1>7, <1>8, <1>9, <1>10, <1>11, <1>12, <1>14,
           <1>15, <1>16, <1>17 DEF Next, Dispatch, Console, Listening

(* Before the first step no server is registered and nothing is sent.      *)
LEMMA OriginInit == Init => TypeInv /\ RouteInv /\ OriginInv
<1> SUFFICES ASSUME Init PROVE TypeInv /\ RouteInv /\ OriginInv
  OBVIOUS
<1>1. TypeInv
  BY TypeInit
<1>2. /\ listener[App] = "off" /\ \A src \in Sources : source[src] = "off"
      /\ built = 0 /\ "console" \in Sources
  BY HandlersOK DEF Init, Sources
<1>3. RouterInv
  <2>1. /\ \A h \in Hosts : \A t \in EventTypes : router.readers[h][t] = <<>>
        /\ \A h \in Hosts : router.readersAny[h] = <<>>
        /\ router.readersAll = <<>>
    BY DEF Init
  <2>2. NoHost \in Hosts
    BY DEF Hosts
  <2>3. ASSUME NEW i \in StateIDs PROVE ~(i <= built)
    BY <1>2, StateIDsOK
  <2>4. ~AppRegistered /\ built # 1
    BY <1>2 DEF AppRegistered
  <2> QED BY <1>2, <2>1, <2>2, <2>3, <2>4, StateHostOK DEF RouterInv
<1>4. OriginInv
  <2>1. DOMAIN hostMap = {} /\ 1..built = {}
    BY <1>2 DEF Init
  <2>2. ~Sending("console")
    BY <1>2 DEF Sending
  <2>3. ASSUME NEW ch \in Handlers PROVE DOMAIN heard[ch]["console"] = {}
    BY <1>2 DEF Init
  <2>4. NoCrossTalk
    BY <2>3, HandlersOK DEF NoCrossTalk
  <2>5. rejected = {}
    BY DEF Init
  <2> QED BY <2>1, <2>2, <2>4, <2>5 DEF OriginInv
<1> QED BY <1>1, <1>2, <1>3, <1>4 DEF RouteInv, Sending

(* The inductive invariant of the two theorems below.                      *)
LEMMA OriginInvariant ==
  ASSUME SecretKey = "logsecret"
  PROVE  Spec => [](TypeInv /\ RouteInv /\ OriginInv)
<1>1. Init => TypeInv /\ RouteInv /\ OriginInv
  BY OriginInit
<1>2. TypeInv /\ RouteInv /\ OriginInv /\ [Next]_vars
        => (TypeInv /\ RouteInv /\ OriginInv)'
  BY TypeStep, RouteStep, OriginStep
<1> QED BY <1>1, <1>2, PTL DEF Spec

(* No serverState and no blackBox ever hears a line of another server from *)
(* the Manager's log source: for any number of servers, in both modes,     *)
(* when the config file gives the secrets under the key viper looks for.   *)
THEOREM NoCrossTalkHolds ==
  ASSUME SecretKey = "logsecret"
  PROVE  Spec => []NoCrossTalk
<1>1. TypeInv /\ RouteInv /\ OriginInv => NoCrossTalk
  BY DEF OriginInv
<1> QED BY <1>1, OriginInvariant, PTL

(* A line whose server is known is offered to both of its handlers before  *)
(* Send returns, and no configured server is refused: in server mode, and  *)
(* in client mode for a client without an address (with one, the handlers  *)
(* are registered for a host that no line of console.log is sent for).     *)
THEOREM OwnerIsOfferedHolds ==
  ASSUME SecretKey = "logsecret", ServerMode \/ ClientAddress = NoHost
  PROVE  Spec => []OwnerIsOffered
<1>1. ASSUME TypeInv, RouteInv, OriginInv
      PROVE  OwnerIsOffered
  <2>1. ASSUME NEW src \in Sources, Sending(src), Attributed(send[src].event),
               NEW ch \in HandlersOf(send[src].event.from)
        PROVE  \/ ch \in send[src].tried
               \/ \E k \in DOMAIN send[src].todo : send[src].todo[k] = ch
    <3>1. src = "console" /\ CallOK(send[src])
      BY <1>1, <2>1 DEF RouteInv, Attributed
    <3>2. /\ send[src].event.from \in StateIDs
          /\ States[send[src].event.from].address = send[src].event.hostPort
      <4>1. CASE ServerMode
        BY <1>1, <2>1, <3>1, <4>1 DEF OriginInv, Attributed
      <4>2. CASE ~ServerMode
        BY <1>1, <2>1, <3>1, <4>2, ClientStateOK DEF OriginInv
      <4> QED BY <4>1, <4>2
    <3> QED BY <2>1, <3>1, <3>2 DEF CallOK
  <2> QED BY <1>1, <2>1 DEF OwnerIsOffered, OriginInv
<1>2. TypeInv /\ RouteInv /\ OriginInv => OwnerIsOffered
  BY <1>1
<1> QED BY <1>2, OriginInvariant, PTL

-----------------------------------------------------------------------------
(* The order in which lines are heard.                                     *)

(* The handlers left after an offer are those left before it, without the  *)
(* one it was made to.                                                     *)
LEMMA TodoShrinks ==
  ASSUME TypeInv, RouteInv, NEW src \in Sources, Sending(src),
         send[src].todo # <<>>, Offered(src)
  PROVE  /\ \A s \in Sources : /\ send'[s].event = send[s].event
                               /\ s # src => send'[s] = send[s]
         /\ Head(send[src].todo) = send[src].todo[1] /\ 1 \in DOMAIN send[src].todo
         /\ Head(send[src].todo) \in Handlers
         /\ \A k \in DOMAIN send'[src].todo :
              /\ send'[src].todo[k] # Head(send[src].todo)
              /\ \E m \in DOMAIN send[src].todo : send'[src].todo[k] = send[src].todo[m]
<1>1. PICK todo : todo = send[src].todo
  OBVIOUS
<1>2. /\ todo \in Seq(Handlers) /\ todo # <<>>
      /\ \A k, l \in DOMAIN todo : todo[k] = todo[l] => k = l
  BY <1>1 DEF TypeInv, TypeOK, RouteInv, CallOK
<1>3. /\ Len(todo) \in Nat \ {0} /\ DOMAIN todo = 1..Len(todo)
  BY <1>2, LenProperties, EmptySeq
<1>4. /\ Head(todo) = todo[1] /\ Head(todo) \in Handlers
      /\ Tail(todo) \in Seq(Handlers) /\ Len(Tail(todo)) = Len(todo) - 1
      /\ \A k \in 1..Len(todo) - 1 : Tail(todo)[k] = todo[k + 1]
  BY <1>2, <1>3, HeadTailProperties
<1>5. DOMAIN Tail(todo) = 1..Len(todo) - 1
  BY <1>4, LenProperties
<1>6. ASSUME NEW k \in DOMAIN Tail(todo)
      PROVE  Tail(todo)[k] # Head(todo) /\ \E m \in DOMAIN todo : Tail(todo)[k] = todo[m]
  <2>1. k + 1 \in DOMAIN todo /\ 1 \in DOMAIN todo /\ k + 1 # 1
    BY <1>3, <1>5, <1>6
  <2> QED BY <1>2, <1>4, <1>5, <1>6, <2>1
<1>7. /\ \A s \in Sources : /\ send'[s].event = send[s].event
                            /\ s # src => send'[s] = send[s]
      /\ send'[src].todo = Tail(todo)
  BY <1>1 DEF Offered, TypeInv, TypeOK
<1>8. 1 \in DOMAIN todo
  BY <1>3
<1> QED BY <1>1, <1>4, <1>6, <1>7, <1>8

(* What waits in the App's channel are events of the sources.              *)
LEMMA BufferEvents ==
  ASSUME TypeInv
  PROVE  /\ DOMAIN buffer = 1..Len(buffer) /\ Len(buffer) \in Nat
         /\ \A b \in DOMAIN buffer : /\ buffer[b] \in Event /\ buffer[b].n \in Nat
                                     /\ buffer[b].src \in Sources
<1>1. /\ DOMAIN buffer = 1..Len(buffer) /\ Len(buffer) \in Nat
      /\ \A b \in DOMAIN buffer : buffer[b] \in Event
  BY LenProperties, ElementOfSeq DEF TypeInv, TypeOK
<1> QED BY <1>1 DEF Event

(* What a handler has heard are events of the source it is filed under.    *)
LEMMA HeardEvents ==
  ASSUME TypeInv, NEW ch \in Handlers, NEW src \in Sources,
         NEW k \in DOMAIN heard[ch][src]
  PROVE  heard[ch][src][k] \in Event /\ heard[ch][src][k].n \in Nat
<1>1. heard[ch][src] \in Seq(Event)
  BY DEF TypeInv, TypeOK
<1>2. heard[ch][src][k] \in Event
  BY <1>1, LenProperties, ElementOfSeq
<1> QED BY <1>2 DEF Event

(* A step in which nothing is read or heard, and no handler is added to    *)
(* those of a call of Send.                                                *)
LEMMA OrderSame ==
  ASSUME OrderInv, UNCHANGED <<read, heard, buffer>>,
         \A src \in Sources : Sending(src)' =>
           /\ Sending(src) /\ send'[src].event = send[src].event
           /\ \A k \in DOMAIN send'[src].todo : \E m \in DOMAIN send[src].todo :
                send'[src].todo[k] = send[src].todo[m],
         \A b \in DOMAIN buffer : buffer[b].src \in Sources
  PROVE  OrderInv'
<1>1. \A src \in Sources : Sending(src)' =>
        \A k \in DOMAIN send'[src].todo :
          \A m \in DOMAIN heard'[send'[src].todo[k]][src] :
            heard'[send'[src].todo[k]][src][m].n < read'[src]
  BY DEF OrderInv
<1>2. ASSUME NEW b \in DOMAIN buffer', Sending(buffer[b].src)',
             NEW k \in DOMAIN send'[buffer[b].src].todo,
             send'[buffer[b].src].todo[k] = App
      PROVE  buffer[b].n < read[buffer[b].src]
  BY <1>2 DEF OrderInv
<1> QED BY <1>1, <1>2 DEF OrderInv

(* Reading one more line: everything heard so far is older.                *)
LEMMA OrderRLock ==
  ASSUME TypeInv, TypeInv', OrderInv, NEW src \in Sources, NEW from,
         NEW hostPort, RLock(src, from, hostPort)
  PROVE  OrderInv'
<1>1. /\ read[src] \in Nat /\ read'[src] = read[src] + 1
      /\ \A s \in Sources : read[s] \in Nat /\ (s # src => read'[s] = read[s])
  BY RouterAssumption DEF RLock, TypeInv, TypeOK
<1>2. /\ send'[src].event.n = read[src] + 1
      /\ \A s \in Sources : s # src => send'[s] = send[s] /\ source'[s] = source[s]
      /\ UNCHANGED <<heard, buffer>> /\ ~Sending(src)
  BY DEF RLock, TypeInv, TypeOK, Sending
<1>3. \A s \in Sources : Sending(s)' => send'[s].event.n = read'[s] /\ read'[s] > 0
  BY <1>1, <1>2 DEF OrderInv, Sending
<1>4. \A ch \in Handlers : \A s \in Sources : \A k \in DOMAIN heard[ch][s] :
        /\ heard[ch][s][k].n \in Nat /\ heard[ch][s][k].n <= read[s]
  BY HeardEvents DEF OrderInv
<1>5. \A ch \in Handlers : \A s \in Sources : \A k \in DOMAIN heard[ch][s] :
        heard[ch][s][k].n <= read'[s] /\ (s = src => heard[ch][s][k].n < read'[s])
  BY <1>1, <1>4
<1>6. ASSUME NEW s \in Sources, Sending(s)', NEW k \in DOMAIN send'[s].todo,
             NEW m \in DOMAIN heard'[send'[s].todo[k]][s]
      PROVE  heard'[send'[s].todo[k]][s][m].n < read'[s]
  <2>1. CASE s = src
    <3>1. send'[s].todo[k] \in Handlers
      <4>1. send'[s].todo \in Seq(Handlers)
        BY DEF TypeInv, TypeOK
      <4> QED BY <1>6, <4>1, LenProperties, ElementOfSeq
    <3> QED BY <1>2, <1>5, <1>6, <2>1, <3>1
  <2>2. CASE s # src
    BY <1>1, <1>2, <1>6, <2>2 DEF OrderInv, Sending
  <2> QED BY <2>1, <2>2
<1>7. ASSUME NEW b \in DOMAIN buffer
      PROVE  /\ buffer[b].n \in 1..read'[buffer[b].src]
             /\ Sending(buffer[b].src)' =>
                  \A k \in DOMAIN send'[buffer[b].src].todo :
                    send'[buffer[b].src].todo[k] = App =>
                      buffer[b].n < read'[buffer[b].src]
  <2>1. buffer[b].src \in Sources /\ buffer[b].n \in 1..read[buffer[b].src]
    BY BufferEvents DEF OrderInv
  <2>2. CASE buffer[b].src = src
    BY <1>1, <2>1, <2>2
  <2>3. CASE buffer[b].src # src
    BY <1>1, <1>2, <2>1, <2>3 DEF OrderInv, Sending
  <2> QED BY <2>2, <2>3
<1> QED BY <1>2, <1>3, <1>5, <1>6, <1>7 DEF OrderInv

(* A handler that hears the line its source is sending.                    *)
LEMMA OrderReceive ==
  ASSUME TypeInv, RouteInv, OrderInv, NEW src \in Sources, Deliver(src),
         Head(send[src].todo) # App
  PROVE  OrderInv'
<1>1. PICK ch : ch = Head(send[src].todo)
  OBVIOUS
<1>2. PICK event : event = send[src].event
  OBVIOUS
<1>3. /\ Sending(src) /\ send[src].todo # <<>> /\ Offered(src)
      /\ Receive(ch, event) /\ UNCHANGED <<source, read, buffer>>
      /\ event \in Event /\ event.src = src /\ event.n = read[src]
  BY <1>1, <1>2 DEF Deliver, TypeInv, RouteInv, OrderInv
<1>4. /\ \A s \in Sources : /\ send'[s].event = send[s].event
                            /\ s # src => send'[s] = send[s]
      /\ ch = send[src].todo[1] /\ 1 \in DOMAIN send[src].todo /\ ch \in Handlers
      /\ \A k \in DOMAIN send'[src].todo :
           /\ send'[src].todo[k] # ch
           /\ \E m \in DOMAIN send[src].todo : send'[src].todo[k] = send[src].todo[m]
  BY <1>1, <1>3, TodoShrinks
<1>5. /\ \A c \in Handlers : \A s \in Sources :
           c # ch \/ s # src => heard'[c][s] = heard[c][s]
      /\ \A k \in DOMAIN heard'[ch][src] :
           \/ heard'[ch][src][k] = event
           \/ /\ k \in DOMAIN heard[ch][src]
              /\ heard'[ch][src][k] = heard[ch][src][k]
  <2>1. /\ \A c \in Handlers : \A s \in Sources :
             c # ch \/ s # event.src => heard'[c][s] = heard[c][s]
        /\ \A k \in DOMAIN heard'[ch][event.src] :
             \/ heard'[ch][event.src][k] = event
             \/ /\ k \in DOMAIN heard[ch][event.src]
                /\ heard'[ch][event.src][k] = heard[ch][event.src][k]
    BY <1>3, <1>4, ReceiveOK
  <2> QED BY <1>3, <2>1
<1>6. \A s \in Sources : read[s] \in Nat
  BY RouterAssumption DEF TypeInv, TypeOK
<1>7. ASSUME NEW c \in Handlers, NEW s \in Sources, NEW k \in DOMAIN heard'[c][s]
      PROVE  heard'[c][s][k].n <= read'[s]
  <2>1. CASE c = ch /\ s = src
    BY <1>3, <1>5, <1>6, <1>7, <2>1, <1>4 DEF OrderInv
  <2>2. CASE c # ch \/ s # src
    BY <1>3, <1>5, <1>7, <2>2 DEF OrderInv
  <2> QED BY <2>1, <2>2
<1>8. ASSUME NEW s \in Sources, Sending(s)', NEW k \in DOMAIN send'[s].todo,
             NEW m \in DOMAIN heard'[send'[s].todo[k]][s]
      PROVE  heard'[send'[s].todo[k]][s][m].n < read'[s]
  <2>1. Sending(s)
    BY <1>3, <1>8 DEF Sending
  <2>2. PICK l \in DOMAIN send[s].todo : send'[s].todo[k] = send[s].todo[l]
    BY <1>4, <1>8
  <2>3. send'[s].todo[k] # ch \/ s # src
    BY <1>4, <1>8
  <2>4. send[s].todo[l] \in Handlers
    <3>1. send[s].todo \in Seq(Handlers)
      BY DEF TypeInv, TypeOK
    <3> QED BY <3>1, LenProperties, ElementOfSeq
  <2>5. heard'[send'[s].todo[k]][s] = heard[send[s].todo[l]][s]
    BY <1>5, <2>2, <2>3, <2>4
  <2> QED BY <1>3, <1>8, <2>1, <2>2, <2>5 DEF OrderInv
<1>9. \A s \in Sources : heard'[App][s] = heard[App][s]
  BY <1>1, <1>5, HandlersOK
<1>10. ASSUME NEW b \in DOMAIN buffer, Sending(buffer[b].src)',
              NEW k \in DOMAIN send'[buffer[b].src].todo,
              send'[buffer[b].src].todo[k] = App
       PROVE  buffer[b].n < read[buffer[b].src]
  <2>1. buffer[b].src \in Sources
    BY BufferEvents
  <2>2. Sending(buffer[b].src)
    BY <1>3, <1>10 DEF Sending
  <2>3. \E m \in DOMAIN send[buffer[b].src].todo : send[buffer[b].src].todo[m] = App
    BY <1>4, <1>10, <2>1
  <2> QED BY <2>2, <2>3 DEF OrderInv
<1>11. \A s \in Sources : Sending(s)' => send'[s].event.n = read'[s] /\ read'[s] > 0
  BY <1>3, <1>4 DEF OrderInv, Sending
<1> QED BY <1>3, <1>7, <1>8, <1>9, <1>10, <1>11, BufferEvents DEF OrderInv

(* A line put into the App's channel: it is newer than what is there.      *)
LEMMA OrderBuffer ==
  ASSUME TypeInv, RouteInv, OrderInv, NEW src \in Sources, Deliver(src),
         Head(send[src].todo) = App
  PROVE  OrderInv'
<1>1. PICK event : event = send[src].event
  OBVIOUS
<1>2. /\ Sending(src) /\ send[src].todo # <<>> /\ Offered(src)
      /\ buffer' = Append(buffer, event)
      /\ UNCHANGED <<source, read, heard>>
      /\ event \in Event /\ event.src = src /\ event.n = read[src] /\ read[src] > 0
      /\ read[src] \in Nat
  BY <1>1, RouterAssumption DEF Deliver, TypeInv, TypeOK, RouteInv, OrderInv
<1>3. /\ \A s \in Sources : /\ send'[s].event = send[s].event
                            /\ s # src => send'[s] = send[s]
      /\ App = send[src].todo[1] /\ 1 \in DOMAIN send[src].todo
      /\ \A k \in DOMAIN send'[src].todo :
           /\ send'[src].todo[k] # App
           /\ \E m \in DOMAIN send[src].todo : send'[src].todo[k] = send[src].todo[m]
  BY <1>2, TodoShrinks
<1>4. /\ \A m \in DOMAIN heard[App][src] : heard[App][src][m].n < read[src]
      /\ \A b \in DOMAIN buffer : buffer[b].src = src => buffer[b].n < read[src]
  BY <1>2, <1>3 DEF OrderInv
<1>5. /\ DOMAIN buffer' = 1..Len(buffer) + 1 /\ Len(buffer) \in Nat
      /\ DOMAIN buffer = 1..Len(buffer)
      /\ \A b \in DOMAIN buffer : buffer'[b] = buffer[b]
      /\ buffer'[Len(buffer) + 1] = event
  <2>1. buffer \in Seq(Event)
    BY DEF TypeInv, TypeOK
  <2> QED BY <1>2, <2>1, AppendProperties, LenProperties
<1>6. \A b \in DOMAIN buffer' : b \in DOMAIN buffer \/ b = Len(buffer) + 1
  BY <1>5
<1>7. \A b, c \in DOMAIN buffer' :
        b < c => b \in DOMAIN buffer
  BY <1>5
<1>8. \A s \in Sources : Sending(s)' <=> Sending(s)
  BY <1>2 DEF Sending
<1>9. ASSUME NEW s \in Sources, Sending(s)'
      PROVE  /\ send'[s].event.n = read'[s] /\ read'[s] > 0
             /\ \A k \in DOMAIN send'[s].todo :
                  \A m \in DOMAIN heard'[send'[s].todo[k]][s] :
                    heard'[send'[s].todo[k]][s][m].n < read'[s]
  <2>1. /\ Sending(s) /\ send[s].event.n = read[s] /\ read[s] > 0
        /\ \A k \in DOMAIN send[s].todo : \A m \in DOMAIN heard[send[s].todo[k]][s] :
             heard[send[s].todo[k]][s][m].n < read[s]
    BY <1>8, <1>9 DEF OrderInv
  <2>2. \A k \in DOMAIN send'[s].todo : \E m \in DOMAIN send[s].todo :
          send'[s].todo[k] = send[s].todo[m]
    BY <1>3
  <2> QED BY <1>2, <1>3, <2>1, <2>2
<1>10. ASSUME NEW b \in DOMAIN buffer'
       PROVE  /\ buffer'[b].n \in 1..read'[buffer'[b].src]
              /\ \A m \in DOMAIN heard'[App][buffer'[b].src] :
                   heard'[App][buffer'[b].src][m].n < buffer'[b].n
              /\ buffer'[b].src \in Sources
  <2>1. CASE b \in DOMAIN buffer
    BY <1>2, <1>5, <2>1, BufferEvents DEF OrderInv
  <2>2. CASE b = Len(buffer) + 1
    BY <1>2, <1>4, <1>5, <2>2
  <2> QED BY <1>6, <2>1, <2>2
<1>11. ASSUME NEW b \in DOMAIN buffer', NEW c \in DOMAIN buffer', b < c,
              buffer'[b].src = buffer'[c].src
       PROVE  buffer'[b].n < buffer'[c].n
  <2>1. b \in DOMAIN buffer /\ buffer'[b] = buffer[b]
    BY <1>5, <1>7, <1>11
  <2>2. CASE c \in DOMAIN buffer
    BY <1>5, <1>11, <2>1, <2>2 DEF OrderInv
  <2>3. CASE c = Len(buffer) + 1
    BY <1>2, <1>4, <1>5, <1>11, <2>1, <2>3
  <2> QED BY <1>6, <2>2, <2>3
<1>12. ASSUME NEW b \in DOMAIN buffer', Sending(buffer[b].src)',
              NEW k \in DOMAIN send'[buffer'[b].src].todo,
              send'[buffer'[b].src].todo[k] = App
       PROVE  buffer'[b].n < read'[buffer'[b].src]
  <2>1. buffer'[b].src \in Sources /\ buffer'[b].src # src
    BY <1>3, <1>10, <1>12
  <2>2. b \in DOMAIN buffer /\ buffer'[b] = buffer[b]
    BY <1>2, <1>5, <1>6, <2>1
  <2>3. Sending(buffer[b].src) /\ send'[buffer[b].src] = send[buffer[b].src]
    BY <1>2, <1>3, <1>12, <2>1, <2>2 DEF Sending
  <2> QED BY <1>2, <1>12, <2>2, <2>3 DEF OrderInv
<1>13. \A ch \in Handlers : \A s \in Sources : \A k \in DOMAIN heard'[ch][s] :
         heard'[ch][s][k].n <= read'[s]
  BY <1>2 DEF OrderInv
<1> QED BY <1>9, <1>10, <1>11, <1>12, <1>13 DEF OrderInv

(* The App takes the oldest line out of its channel.                       *)
LEMMA OrderTake ==
  ASSUME TypeInv, RouteInv, OrderInv, AppTake
  PROVE  OrderInv'
<1>1. PICK event : event = Head(buffer)
  OBVIOUS
<1>2. /\ Len(buffer) \in Nat \ {0} /\ DOMAIN buffer = 1..Len(buffer)
      /\ event = buffer[1] /\ event \in Event /\ event.src \in Sources
      /\ DOMAIN buffer' = 1..Len(buffer) - 1
      /\ \A b \in 1..Len(buffer) - 1 : buffer'[b] = buffer[b + 1]
      /\ UNCHANGED <<read, send, source>> /\ Receive(App, event)
  <2>1. buffer \in Seq(Event) /\ buffer # <<>> /\ buffer' = Tail(buffer)
    BY DEF AppTake, TypeInv, TypeOK
  <2>2. Len(buffer) \in Nat \ {0} /\ DOMAIN buffer = 1..Len(buffer)
    BY <2>1, LenProperties, EmptySeq
  <2>3. /\ Head(buffer) = buffer[1] /\ Head(buffer) \in Event
        /\ Tail(buffer) \in Seq(Event) /\ Len(Tail(buffer)) = Len(buffer) - 1
        /\ \A b \in 1..Len(buffer) - 1 : Tail(buffer)[b] = buffer[b + 1]
    BY <2>1, <2>2, HeadTailProperties
  <2>4. DOMAIN buffer' = 1..Len(buffer) - 1
    BY <2>1, <2>3, LenProperties
  <2>5. UNCHANGED <<read, send, source>> /\ Receive(App, event)
    BY <1>1 DEF AppTake
  <2>6. event.src \in Sources
    BY <1>1, <2>3 DEF Event
  <2> QED BY <1>1, <2>1, <2>2, <2>3, <2>4, <2>5, <2>6
<1>3. PICK src \in Sources : src = event.src
  BY <1>2
<1>4. /\ 1 \in DOMAIN buffer /\ event.n \in 1..read[src]
      /\ \A m \in DOMAIN heard[App][src] : heard[App][src][m].n < event.n
      /\ \A c \in DOMAIN buffer : 1 < c /\ buffer[c].src = src => event.n < buffer[c].n
      /\ Sending(src) => \A k \in DOMAIN send[src].todo :
                           send[src].todo[k] = App => event.n < read[src]
  <2>1. 1 \in DOMAIN buffer
    BY <1>2
  <2> QED BY <1>2, <1>3, <2>1 DEF OrderInv
<1>5. /\ \A c \in Handlers : \A s \in Sources :
           c # App \/ s # src => heard'[c][s] = heard[c][s]
      /\ \A k \in DOMAIN heard'[App][src] :
           \/ heard'[App][src][k] = event
           \/ /\ k \in DOMAIN heard[App][src]
              /\ heard'[App][src][k] = heard[App][src][k]
  <2>1. App \in Handlers
    BY HandlersOK
  <2>2. /\ \A c \in Handlers : \A s \in Sources :
             c # App \/ s # event.src => heard'[c][s] = heard[c][s]
        /\ \A k \in DOMAIN heard'[App][event.src] :
             \/ heard'[App][event.src][k] = event
             \/ /\ k \in DOMAIN heard[App][event.src]
                /\ heard'[App][event.src][k] = heard[App][event.src][k]
    BY <1>2, <2>1, ReceiveOK
  <2> QED BY <1>3, <2>2
<1>6. \A s \in Sources : read[s] \in Nat
  BY RouterAssumption DEF TypeInv, TypeOK
<1>7. ASSUME NEW c \in Handlers, NEW s \in Sources, NEW k \in DOMAIN heard'[c][s]
      PROVE  heard'[c][s][k].n <= read'[s]
  <2>1. CASE c = App /\ s = src
    BY <1>2, <1>4, <1>5, <1>6, <1>7, <2>1 DEF OrderInv
  <2>2. CASE c # App \/ s # src
    BY <1>2, <1>5, <1>7, <2>2 DEF OrderInv
  <2> QED BY <2>1, <2>2
<1>8. ASSUME NEW s \in Sources, Sending(s)', NEW k \in DOMAIN send'[s].todo,
             NEW m \in DOMAIN heard'[send'[s].todo[k]][s]
      PROVE  heard'[send'[s].todo[k]][s][m].n < read'[s]
  <2>1. Sending(s) /\ k \in DOMAIN send[s].todo /\ send'[s] = send[s]
    BY <1>2, <1>8 DEF Sending
  <2>2. send[s].todo[k] \in Handlers
    <3>1. send[s].todo \in Seq(Handlers)
      BY DEF TypeInv, TypeOK
    <3> QED BY <2>1, <3>1, LenProperties, ElementOfSeq
  <2>3. \A j \in DOMAIN heard[send[s].todo[k]][s] :
          heard[send[s].todo[k]][s][j].n < read[s]
    BY <2>1 DEF OrderInv
  <2>4. CASE send[s].todo[k] = App /\ s = src
    BY <1>2, <1>4, <1>5, <1>8, <2>1, <2>3, <2>4
  <2>5. CASE send[s].todo[k] # App \/ s # src
    BY <1>2, <1>5, <1>8, <2>1, <2>2, <2>3, <2>5
  <2> QED BY <2>4, <2>5
<1>9. ASSUME NEW b \in DOMAIN buffer'
      PROVE  b + 1 \in DOMAIN buffer /\ buffer'[b] = buffer[b + 1] /\ 1 < b + 1
             /\ b \in Nat /\ buffer[b + 1].src \in Sources
  <2>1. b + 1 \in DOMAIN buffer /\ buffer'[b] = buffer[b + 1] /\ 1 < b + 1 /\ b \in Nat
    BY <1>2, <1>9
  <2> QED BY <2>1, BufferEvents
<1>10. ASSUME NEW b \in DOMAIN buffer', NEW m \in DOMAIN heard'[App][buffer'[b].src]
       PROVE  heard'[App][buffer'[b].src][m].n < buffer'[b].n
  <2>1. \A j \in DOMAIN heard[App][buffer[b + 1].src] :
          heard[App][buffer[b + 1].src][j].n < buffer[b + 1].n
    BY <1>9 DEF OrderInv
  <2>2. CASE buffer[b + 1].src = src
    BY <1>4, <1>5, <1>9, <1>10, <2>1, <2>2
  <2>3. CASE buffer[b + 1].src # src
    BY <1>5, <1>9, <1>10, <2>1, <2>3, HandlersOK
  <2> QED BY <2>2, <2>3
<1>11. ASSUME NEW b \in DOMAIN buffer', NEW c \in DOMAIN buffer', b < c,
              buffer'[b].src = buffer'[c].src
       PROVE  buffer'[b].n < buffer'[c].n
  <2>1. b + 1 < c + 1
    BY <1>9, <1>11
  <2> QED BY <1>9, <1>11, <2>1 DEF OrderInv
<1>12. ASSUME NEW b \in DOMAIN buffer', Sending(buffer[b].src)',
              NEW k \in DOMAIN send'[buffer'[b].src].todo,
              send'[buffer'[b].src].todo[k] = App
       PROVE  buffer'[b].n < read'[buffer'[b].src]
  <2>1. Sending(buffer[b + 1].src)
    BY <1>2, <1>9, <1>12 DEF Sending
  <2> QED BY <1>2, <1>9, <1>12, <2>1 DEF OrderInv
<1>13. ASSUME NEW b \in DOMAIN buffer'
       PROVE  buffer'[b].n \in 1..read'[buffer'[b].src]
  BY <1>2, <1>9 DEF OrderInv
<1>14. \A s \in Sources : Sending(s)' => send'[s].event.n = read'[s] /\ read'[s] > 0
  BY <1>2 DEF OrderInv, Sending
<1> QED BY <1>7, <1>8, <1>10, <1>11, <1>12, <1>13, <1>14 DEF OrderInv

(* Every step keeps the order of lines.                                    *)
LEMMA OrderStep ==
  ASSUME TypeInv, RouteInv, OrderInv, [Next]_vars
  PROVE  OrderInv'
<1>0. TypeInv' /\ \A b \in DOMAIN buffer : buffer[b].src \in Sources
  BY TypeStep, BufferEvents
<1>1. ASSUME UNCHANGED <<read, heard, buffer, send>>,
             \A src \in Sources : Sending(src)' => Sending(src)
      PROVE  OrderInv'
  BY <1>0, <1>1, OrderSame
<1>2. CASE NewServerState
  BY <1>1, <1>2 DEF NewServerState, Sending
<1>3. ASSUME NEW src \in Sources, StartSource(src) \/ StopSource(src)
      PROVE  OrderInv'
  BY <1>1, <1>3 DEF StartSource, StopSource, Sending, TypeInv, TypeOK
<1>4. ASSUME NEW src \in Sources, Deliver(src)
      PROVE  OrderInv'
  BY <1>4, OrderReceive, OrderBuffer
<1>5. ASSUME NEW src \in Sources, Drop(src)
      PROVE  OrderInv'
  <2>1. /\ Sending(src) /\ send[src].todo # <<>> /\ Offered(src)
        /\ UNCHANGED <<source, read, heard, buffer>>
    BY <1>5 DEF Drop
  <2>2. \A s \in Sources :
          /\ send'[s].event = send[s].event
          /\ \A k \in DOMAIN send'[s].todo : \E m \in DOMAIN send[s].todo :
               send'[s].todo[k] = send[s].todo[m]
    BY <2>1, TodoShrinks
  <2> QED BY <1>0, <2>1, <2>2, OrderSame DEF Sending
<1>6. ASSUME NEW src \in Sources, RUnlock(src)
      PROVE  OrderInv'
  <2>1. /\ UNCHANGED <<read, heard, buffer>>
        /\ \A s \in Sources : Sending(s)' => Sending(s) /\ send'[s] = send[s]
    BY <1>6 DEF RUnlock, Sending, TypeInv, TypeOK
  <2> QED BY <1>0, <2>1, OrderSame
<1>7. ASSUME NEW i \in Senders, SecureKnown(i) \/ SecureUnknown(i) \/ Legacy(i)
      PROVE  OrderInv'
  <2>1. CASE SecureKnown(i) \/ Legacy(i)
    BY <1>0, <2>1, OrderRLock DEF SecureKnown, Legacy, Sources
  <2>2. CASE SecureUnknown(i)
    BY <1>1, <2>2 DEF SecureUnknown, Sending
  <2> QED BY <1>7, <2>1, <2>2
<1>8. CASE LocalLine \/ DebugLine
  BY <1>0, <1>8, OrderRLock DEF LocalLine, DebugLine, Sources
<1>9. ASSUME NEW i \in StateIDs, Started(i) \/ Ticker(i)
      PROVE  OrderInv'
  BY <1>1, <1>9 DEF Started, Ticker, Move, Sending
<1>10. ASSUME NEW ch \in Handlers, Park(ch) \/ StopListener(ch)
       PROVE  OrderInv'
  BY <1>1, <1>10 DEF Park, StopListener, Move, Sending
<1>11. CASE AppRegisters \/ AppListenFor \/ AppForward \/ AppStop
  BY <1>1, <1>11 DEF AppRegisters, AppListenFor, AppForward, AppStop, Move, Sending
<1>12. CASE AppTake
  BY <1>12, OrderTake
<1>13. CASE Cancel \/ UNCHANGED vars
  BY <1>1, <1>13 DEF Cancel, vars, Sending
<1> QED BY <1>2, <1>3, <1>4, <1>5, <1>6, <1>7, <1>8, <1>9, <1>10, <1>11, <1>12,
           <1>13 DEF Next, Dispatch, Console, Listening

(* The numbers of a list of events to which one is appended.               *)
LEMMA NumbersAppend ==
  ASSUME NEW events \in Seq(Event), NEW event \in Event
  PROVE  /\ Numbers(events) \in Seq(Nat)
         /\ Numbers(Append(events, event)) = Append(Numbers(events), event.n)
<1>1. /\ DOMAIN events = 1..Len(events) /\ Len(events) \in Nat
      /\ \A k \in 1..Len(events) : events[k].n \in Nat
      /\ event.n \in Nat
  <2>1. /\ DOMAIN events = 1..Len(events) /\ Len(events) \in Nat
        /\ \A k \in 1..Len(events) : events[k] \in Event
    BY LenProperties, ElementOfSeq
  <2> QED BY <2>1 DEF Event
<1>2. Numbers(events) \in Seq(Nat) /\ Len(Numbers(events)) = Len(events)
  <2>1. Numbers(events) \in [1..Len(events) -> Nat]
    BY <1>1 DEF Numbers
  <2>2. Numbers(events) \in Seq(Nat)
    BY <1>1, <2>1, IsASeq DEF Numbers
  <2> QED BY <1>1, <2>1, <2>2, LenProperties
<1>3. PICK longer : longer = Append(events, event)
  OBVIOUS
<1>4. /\ longer \in Seq(Event) /\ DOMAIN longer = 1..Len(events) + 1
      /\ \A k \in 1..Len(events) : longer[k] = events[k]
      /\ longer[Len(events) + 1] = event
  BY <1>3, AppendProperties, LenProperties
<1>5. /\ Append(Numbers(events), event.n) \in Seq(Nat)
      /\ DOMAIN Append(Numbers(events), event.n) = 1..Len(events) + 1
      /\ \A k \in 1..Len(events) :
           Append(Numbers(events), event.n)[k] = Numbers(events)[k]
      /\ Append(Numbers(events), event.n)[Len(events) + 1] = event.n
  BY <1>1, <1>2, AppendProperties, LenProperties
<1>6. ASSUME NEW k \in 1..Len(events) + 1
      PROVE  longer[k].n = Append(Numbers(events), event.n)[k]
  <2>1. k \in 1..Len(events) \/ k = Len(events) + 1
    BY <1>1
  <2> QED BY <1>1, <1>4, <1>5, <2>1 DEF Numbers
<1>7. [k \in 1..Len(events) + 1 |-> longer[k].n] = Append(Numbers(events), event.n)
  BY <1>5, <1>6
<1> QED BY <1>2, <1>3, <1>4, <1>7 DEF Numbers

(* Receive, seen from LossyFeed: the handler hears a number that was read  *)
(* and is greater than all it heard before.                                *)
LEMMA ReceiveIsHear ==
  ASSUME TypeInv, NEW ch \in Handlers, NEW event \in Event, Receive(ch, event),
         UNCHANGED read, event.n \in 1..read[event.src],
         \A k \in DOMAIN heard[ch][event.src] : heard[ch][event.src][k].n < event.n
  PROVE  Feed!Hear(ch, event.src)
<1>1. PICK src \in Sources : src = event.src
  BY DEF Event
<1>2. /\ \A c \in Handlers : \A s \in Sources : heard[c][s] \in Seq(Event)
      /\ heard'[ch][src] = Append(heard[ch][src], event)
      /\ \A c \in Handlers : \A s \in Sources :
           c # ch \/ s # src => heard'[c][s] = heard[c][s]
  BY <1>1, ReceiveOK DEF TypeInv, TypeOK
<1>3. PICK got : got = NumbersHeard
  OBVIOUS
<1>4. Numbers(heard'[ch][src]) = Append(got[ch][src], event.n)
  BY <1>1, <1>2, <1>3, NumbersAppend DEF NumbersHeard
<1>5. NumbersHeard' = [got EXCEPT ![ch] = [got[ch] EXCEPT ![src] =
                         Append(got[ch][src], event.n)]]
  <2>1. ASSUME NEW c \in Handlers, NEW s \in Sources
        PROVE  Numbers(heard'[c][s]) =
                 IF c = ch /\ s = src THEN Append(got[ch][src], event.n)
                 ELSE got[c][s]
    BY <1>2, <1>3, <1>4 DEF NumbersHeard
  <2>2. NumbersHeard' = [c \in Handlers |-> [s \in Sources |-> Numbers(heard'[c][s])]]
    BY DEF NumbersHeard, Numbers
  <2>3. NumbersHeard' = [c \in Handlers |-> [s \in Sources |->
                          IF c = ch /\ s = src THEN Append(got[ch][src], event.n)
                          ELSE got[c][s]]]
    BY <2>1, <2>2
  <2>4. /\ DOMAIN got = Handlers /\ got = [c \in Handlers |-> got[c]]
        /\ \A c \in Handlers : DOMAIN got[c] = Sources
        /\ \A c \in Handlers : got[c] = [s \in Sources |-> got[c][s]]
    BY <1>3 DEF NumbersHeard
  <2>5. ASSUME NEW c \in Handlers
        PROVE  [s \in Sources |->
                  IF c = ch /\ s = src THEN Append(got[ch][src], event.n)
                  ELSE got[c][s]] =
               [got EXCEPT ![ch] = [got[ch] EXCEPT ![src] =
                  Append(got[ch][src], event.n)]][c]
    <3>1. CASE c = ch
      BY <2>4, <3>1
    <3>2. CASE c # ch
      BY <2>4, <3>2
    <3> QED BY <3>1, <3>2
  <2> QED BY <2>3, <2>4, <2>5
<1>6. \A k \in DOMAIN got[ch][src] : got[ch][src][k] < event.n
  BY <1>1, <1>3 DEF NumbersHeard, Numbers
<1> QED BY <1>1, <1>3, <1>5, <1>6 DEF Feed!Hear

(* What every handler hears is a feed of the lines read, in order and      *)
(* without repetition: each step of the router is a step of LossyFeed or   *)
(* none, for any number of servers, sources sending at the same time, and  *)
(* any capacity of the App's channel.                                      *)
THEOREM RouterImplementsLossyFeed == Spec => ImplementsLossyFeed
<1>1. Init => TypeInv /\ RouteInv /\ OrderInv
  <2>1. Init => TypeInv /\ RouteInv
    BY OriginInit
  <2>2. ASSUME Init PROVE OrderInv
    <3>1. \A src \in Sources : ~Sending(src)
      BY <2>2 DEF Init, Sending
    <3>2. DOMAIN buffer = {}
      BY <2>2 DEF Init
    <3>3. \A ch \in Handlers : \A src \in Sources : DOMAIN heard[ch][src] = {}
      BY <2>2 DEF Init
    <3> QED BY <3>1, <3>2, <3>3 DEF OrderInv
  <2> QED BY <2>1, <2>2
<1>2. TypeInv /\ RouteInv /\ OrderInv /\ [Next]_vars
        => (TypeInv /\ RouteInv /\ OrderInv)'
  BY TypeStep, RouteStep, OrderStep
<1>3. Init => Feed!FeedInit
  BY DEF Init, Feed!FeedInit, NumbersHeard, Numbers
<1>4. ASSUME TypeInv, RouteInv, OrderInv, [Next]_vars
      PROVE  [Feed!FeedNext]_(Feed!feedVars)
  <2>1. ASSUME UNCHANGED <<read, heard>>
        PROVE  UNCHANGED Feed!feedVars
    BY <2>1 DEF Feed!feedVars, NumbersHeard
  <2>2. ASSUME NEW src \in Sources, NEW from, NEW hostPort, RLock(src, from, hostPort)
        PROVE  Feed!FeedNext
    <3>1. read' = [read EXCEPT ![src] = read[src] + 1] /\ NumbersHeard' = NumbersHeard
      BY <2>2 DEF RLock, NumbersHeard
    <3> QED BY <3>1 DEF Feed!FeedNext, Feed!ReadLine
  <2>3. ASSUME NEW src \in Sources, Deliver(src)
        PROVE  [Feed!FeedNext]_(Feed!feedVars)
    <3>1. CASE Head(send[src].todo) = App
      BY <2>1, <2>3, <3>1 DEF Deliver
    <3>2. CASE Head(send[src].todo) # App
      <4>1. /\ Sending(src) /\ send[src].todo # <<>> /\ Offered(src)
            /\ Receive(Head(send[src].todo), send[src].event) /\ UNCHANGED read
        BY <2>3, <3>2 DEF Deliver
      <4>2. /\ send[src].event \in Event /\ send[src].event.src = src
            /\ send[src].event.n = read[src] /\ read[src] > 0 /\ read[src] \in Nat
        BY <1>4, <4>1, RouterAssumption DEF TypeInv, TypeOK, RouteInv, OrderInv
      <4>3. /\ Head(send[src].todo) \in Handlers /\ 1 \in DOMAIN send[src].todo
            /\ Head(send[src].todo) = send[src].todo[1]
        BY <1>4, <4>1, TodoShrinks
      <4>4. \A k \in DOMAIN heard[Head(send[src].todo)][src] :
              heard[Head(send[src].todo)][src][k].n < read[src]
        BY <1>4, <4>1, <4>3 DEF OrderInv
      <4>5. Feed!Hear(Head(send[src].todo), src)
        BY <1>4, <4>1, <4>2, <4>3, <4>4, ReceiveIsHear
      <4> QED BY <4>3, <4>5 DEF Feed!FeedNext
    <3> QED BY <3>1, <3>2
  <2>4. CASE AppTake
    <3>1. /\ Head(buffer) \in Event /\ Head(buffer) = buffer[1] /\ 1 \in DOMAIN buffer
          /\ Receive(App, Head(buffer)) /\ UNCHANGED read /\ App \in Handlers
          /\ Head(buffer).src \in Sources
      <4>1. /\ buffer \in Seq(Event) /\ buffer # <<>>
            /\ Receive(App, Head(buffer)) /\ UNCHANGED read
        BY <1>4, <2>4 DEF AppTake, TypeInv, TypeOK
      <4>2. /\ Head(buffer) = buffer[1] /\ Head(buffer) \in Event
            /\ 1 \in DOMAIN buffer
        BY <4>1, HeadTailProperties, LenProperties, EmptySeq
      <4> QED BY <4>1, <4>2, HandlersOK DEF Event
    <3>2. /\ Head(buffer).n \in 1..read[Head(buffer).src]
          /\ \A m \in DOMAIN heard[App][Head(buffer).src] :
               heard[App][Head(buffer).src][m].n < Head(buffer).n
      BY <1>4, <3>1 DEF OrderInv
    <3>3. Feed!Hear(App, Head(buffer).src)
      BY <1>4, <3>1, <3>2, ReceiveIsHear
    <3> QED BY <3>1, <3>3 DEF Feed!FeedNext
  <2>5. ASSUME NEW src \in Sources,
               StartSource(src) \/ StopSource(src) \/ Drop(src) \/ RUnlock(src)
        PROVE  UNCHANGED Feed!feedVars
    BY <2>1, <2>5 DEF StartSource, StopSource, Drop, RUnlock
  <2>6. ASSUME NEW i \in Senders, SecureKnown(i) \/ SecureUnknown(i) \/ Legacy(i)
        PROVE  [Feed!FeedNext]_(Feed!feedVars)
    BY <2>1, <2>2, <2>6 DEF SecureKnown, SecureUnknown, Legacy, Sources
  <2>7. CASE LocalLine \/ DebugLine
    BY <2>2, <2>7 DEF LocalLine, DebugLine, Sources
  <2>8. ASSUME NEW i \in StateIDs, Started(i) \/ Ticker(i)
        PROVE  UNCHANGED Feed!feedVars
    BY <2>1, <2>8 DEF Started, Ticker, Move
  <2>9. ASSUME NEW ch \in Handlers, Park(ch) \/ StopListener(ch)
        PROVE  UNCHANGED Feed!feedVars
    BY <2>1, <2>9 DEF Park, StopListener, Move
  <2>10. CASE AppRegisters \/ AppListenFor \/ AppForward \/ AppStop
    BY <2>1, <2>10 DEF AppRegisters, AppListenFor, AppForward, AppStop, Move
  <2>11. CASE NewServerState \/ Cancel \/ UNCHANGED vars
    BY <2>1, <2>11 DEF NewServerState, Cancel, vars
  <2> QED BY <1>4, <2>3, <2>4, <2>5, <2>6, <2>7, <2>8, <2>9, <2>10, <2>11
          DEF Next, Dispatch, Console, Listening
<1>5. TypeInv /\ RouteInv /\ OrderInv /\ [Next]_vars
        => [Feed!FeedNext]_(Feed!feedVars)
  BY <1>4
<1> QED BY <1>1, <1>2, <1>3, <1>5, PTL DEF Spec, ImplementsLossyFeed, Feed!FeedSpec

=============================================================================
