------------------------------ MODULE UIProofs ------------------------------
(***************************************************************************)
(* Proofs about Tabs, Selection and Views: that the models of the UI agree *)
(* when the commands are through, and what they are told, for any number   *)
(* of commands that run at once and any order in which they get through.   *)
(***************************************************************************)
EXTENDS Tabs, Selection, Views, TLAPS

-----------------------------------------------------------------------------
(* Bags of commands.                                                       *)

(* RunningCommands are started.                                                   *)
LEMMA Started ==
  ASSUME NEW B, IsABag(B), NEW S
  PROVE  /\ IsABag(B (+) SetToBag(S))
         /\ BagToSet(B (+) SetToBag(S)) = BagToSet(B) \cup S
<1>1. PICK new : new = B (+) SetToBag(S)
  OBVIOUS
<1>2. /\ DOMAIN new = DOMAIN B \cup S
      /\ new = [e \in DOMAIN B \cup S |-> (IF e \in DOMAIN B THEN B[e] ELSE 0)
                                            + (IF e \in S THEN 1 ELSE 0)]
  BY <1>1 DEF (+), SetToBag
<1>3. \A e \in DOMAIN new : new[e] \in {n \in Nat : n > 0}
  <2>1. SUFFICES ASSUME NEW e \in DOMAIN new PROVE new[e] \in {n \in Nat : n > 0}
    OBVIOUS
  <2>2. e \in DOMAIN B => B[e] \in Nat /\ B[e] > 0
    BY DEF IsABag
  <2> QED BY <1>2, <2>1, <2>2
<1> QED BY <1>1, <1>2, <1>3 DEF IsABag, BagToSet

(* A command is through: at most its own message is gone.                  *)
LEMMA Through ==
  ASSUME NEW B, IsABag(B), NEW m
  PROVE  /\ IsABag(B (-) SetToBag({m}))
         /\ BagToSet(B (-) SetToBag({m})) \subseteq BagToSet(B)
         /\ \A e \in BagToSet(B) : e # m => e \in BagToSet(B (-) SetToBag({m}))
<1>1. PICK C : C = [e \in DOMAIN B |-> IF e \in {m} THEN B[e] - 1 ELSE B[e]]
  OBVIOUS
<1>2. PICK left : left = B (-) SetToBag({m})
  OBVIOUS
<1>3. left = [e \in {d \in DOMAIN C : C[d] > 0} |-> C[e]]
  BY <1>1, <1>2 DEF (-), SetToBag
<1>4. \A e \in DOMAIN B : /\ B[e] \in Nat /\ B[e] > 0
                          /\ C[e] = IF e = m THEN B[e] - 1 ELSE B[e]
  BY <1>1 DEF IsABag
<1>5. DOMAIN C = DOMAIN B /\ \A e \in DOMAIN B : C[e] \in Nat
  BY <1>1, <1>4
<1>6. /\ DOMAIN left \subseteq DOMAIN B
      /\ \A e \in DOMAIN left : left[e] \in Nat /\ left[e] > 0
      /\ \A e \in DOMAIN B : e # m => e \in DOMAIN left
      /\ left = [e \in DOMAIN left |-> left[e]]
  BY <1>3, <1>4, <1>5
<1> QED BY <1>2, <1>6 DEF IsABag, BagToSet

-----------------------------------------------------------------------------
(* Tabs: the tab that is marked and the panel that is drawn.               *)

(* While no tab is selected before the last one was announced, what is on  *)
(* its way announces the tab that is marked; without such a message the    *)
(* announcement has arrived.                                               *)
TabsInv ==
  /\ IsABag(tabCommands)
  /\ ~rushed => /\ \A msg \in Announced : msg.val = selectedTab
                /\ Announced = {} => activeTab = selectedTab

(* A tab is selected with a key or a click.                                *)
LEMMA SelectStep ==
  ASSUME TabsInv, NEW tab, SelectTab(tab)
  PROVE  TabsInv'
<1>1. PICK msg : msg = [kind |-> "tab", val |-> tab]
  OBVIOUS
<1>2. msg.kind = "tab" /\ msg.val = tab
  BY <1>1
<1>3. tabCommands' = tabCommands (+) SetToBag({msg}) /\ selectedTab' = tab
  BY <1>1 DEF SelectTab, Send
<1>4. IsABag(tabCommands') /\ BagToSet(tabCommands') = BagToSet(tabCommands) \cup {msg}
  BY <1>3, Started DEF TabsInv
<1>5. Announced' = Announced \cup {msg}
  BY <1>2, <1>4 DEF Announced
<1>6. ASSUME ~rushed' PROVE Announced = {}
  BY <1>6 DEF SelectTab
<1> QED BY <1>2, <1>3, <1>4, <1>5, <1>6 DEF TabsInv

(* A message of a command arrives.                                         *)
LEMMA ArriveStep ==
  ASSUME TabsInv, TabArrive
  PROVE  TabsInv'
<1>1. PICK msg \in BagToSet(tabCommands) :
         /\ TabArrives(msg) \/ ZoneArrives(msg)
         /\ tabCommands' = tabCommands (-) SetToBag({msg})
         /\ UNCHANGED <<selectedTab, sent, rushed>>
  BY DEF TabArrive
<1>2. /\ IsABag(tabCommands')
      /\ BagToSet(tabCommands') \subseteq BagToSet(tabCommands)
      /\ \A e \in BagToSet(tabCommands) : e # msg => e \in BagToSet(tabCommands')
  BY <1>1, Through DEF TabsInv
<1>3. Announced' \subseteq Announced
  BY <1>2 DEF Announced
<1>4. CASE TabArrives(msg)
  <2>1. msg \in Announced /\ activeTab' = msg.val
    BY <1>1, <1>4 DEF TabArrives, Announced
  <2> QED BY <1>1, <1>2, <1>3, <2>1 DEF TabsInv
<1>5. CASE ZoneArrives(msg)
  <2>1. msg.kind # "tab" /\ activeTab' = activeTab
    BY <1>5 DEF ZoneArrives
  <2>2. Announced \subseteq Announced'
    BY <1>2, <2>1 DEF Announced
  <2> QED BY <1>1, <1>2, <1>3, <2>1, <2>2 DEF TabsInv
<1> QED BY <1>1, <1>4, <1>5

(* The panel that is drawn is the one of the tab that is marked, once the  *)
(* commands are through, for any number of keys and clicks, unless a tab   *)
(* was selected before the last one was announced.                         *)
THEOREM PanelOfTabHolds == TabsSpec => []PanelOfTab
<1>1. TabsInit => TabsInv
  BY DEF TabsInit, TabsInv, IsABag, EmptyBag, SetToBag, Announced, BagToSet
<1>2. TabsInv /\ [TabsNext]_tabVars => TabsInv'
  <2> SUFFICES ASSUME TabsInv, [TabsNext]_tabVars PROVE TabsInv'
    OBVIOUS
  <2>1. ASSUME NEW key \in TabKeys, PressTabKey(key) PROVE TabsInv'
    <3>1. CASE \E tab : SelectTab(tab)
      BY <3>1, SelectStep
    <3>2. CASE UNCHANGED <<selectedTab, activeTab, rushed, tabCommands>>
      BY <3>2 DEF TabsInv, Announced
    <3> QED BY <2>1, <3>1, <3>2 DEF PressTabKey
  <2>2. ASSUME NEW tab \in TabView, ClickTab(tab) PROVE TabsInv'
    BY <2>2, SelectStep DEF ClickTab
  <2>3. CASE ClickServerRow
    <3>1. PICK msg : msg = [kind |-> "zone", val |-> 0]
      OBVIOUS
    <3>2. /\ tabCommands' = tabCommands (+) SetToBag({msg})
          /\ UNCHANGED <<selectedTab, activeTab, rushed>>
      BY <2>3, <3>1 DEF ClickServerRow, Send
    <3>3. IsABag(tabCommands') /\ BagToSet(tabCommands') = BagToSet(tabCommands) \cup {msg}
      BY <3>2, Started DEF TabsInv
    <3>4. Announced' = Announced
      BY <3>1, <3>3 DEF Announced
    <3> QED BY <3>2, <3>3, <3>4 DEF TabsInv
  <2>4. CASE UNCHANGED tabVars
    BY <2>4 DEF tabVars, TabsInv, Announced
  <2> QED BY <2>1, <2>2, <2>3, <2>4, ArriveStep DEF TabsNext
<1>3. TabsInv => PanelOfTab
  BY DEF TabsInv, PanelOfTab, LowerPanel, Announced, EmptyBag, SetToBag, BagToSet
<1> QED BY <1>1, <1>2, <1>3, PTL DEF TabsSpec

-----------------------------------------------------------------------------
(* Selection: the commands.                                                *)

(* What a command has still to send.                                       *)
RunningCommands ==
  {<<Team(t)>> : t \in Teams}
    \cup {<<Player(sid)>> : sid \in SIDs \cup {NoSID}}
    \cup {<<Team(t), Player(sid)>> : t \in Teams, sid \in SIDs \cup {NoSID}}
    \cup {<<Server(h)>> : h \in Hosts}

OfTeam(cmd)   == Head(cmd).kind = "team"
OfServer(cmd) == Head(cmd).kind = "server"

(* It ends with a player, whether the team is through or not.              *)
OfPlayer(cmd) ==
  \E sid \in SIDs \cup {NoSID} :
    cmd = <<Player(sid)>> \/ \E t \in Teams : cmd = <<Team(t), Player(sid)>>

(* The messages of a command, one after the other.                         *)
LEMMA CommandParts ==
  /\ \A m : Head(<<m>>) = m /\ Tail(<<m>>) = <<>>
  /\ \A m, n : Head(<<m, n>>) = m /\ Tail(<<m, n>>) = <<n>> /\ <<n>> # <<>>
OBVIOUS

(* The kinds of messages.                                                  *)
LEMMA Kinds ==
  /\ \A t : Team(t).kind = "team" /\ Team(t).val = t
  /\ \A sid : Player(sid).kind = "player" /\ Player(sid).val = sid
  /\ \A h : Server(h).kind = "server" /\ Server(h).val = h
BY DEF Team, Player, Server

(* What follows the first message of a command: nothing, or the player.    *)
LEMMA CommandShape ==
  ASSUME NEW cmd \in RunningCommands
  PROVE  /\ Head(cmd).kind = "team" => Head(cmd).val \in Teams
         /\ Head(cmd).kind = "player" => Head(cmd).val \in SIDs \cup {NoSID}
         /\ Head(cmd).kind = "server" => Head(cmd).val \in Hosts
         /\ Tail(cmd) # <<>> => /\ OfTeam(cmd) /\ OfPlayer(cmd)
                                /\ Tail(cmd) \in RunningCommands /\ OfPlayer(Tail(cmd))
         /\ Tail(cmd) = <<>> /\ OfPlayer(cmd) => Head(cmd).kind = "player"
<1>1. ASSUME NEW t \in Teams, cmd = <<Team(t)>>
      PROVE  Head(cmd) = Team(t) /\ Tail(cmd) = <<>> /\ ~OfPlayer(cmd)
  <2>1. Head(cmd) = Team(t) /\ Tail(cmd) = <<>>
    BY <1>1, CommandParts
  <2>2. ASSUME OfPlayer(cmd) PROVE FALSE
    <3>1. PICK sid : cmd = <<Player(sid)>> \/ \E u \in Teams : cmd = <<Team(u), Player(sid)>>
      BY <2>2 DEF OfPlayer
    <3>2. CASE cmd = <<Player(sid)>>
      BY <2>1, <3>2, CommandParts, Kinds
    <3>3. ASSUME NEW u, cmd = <<Team(u), Player(sid)>> PROVE FALSE
      BY <2>1, <3>3, CommandParts
    <3> QED BY <3>1, <3>2, <3>3
  <2> QED BY <2>1, <2>2
<1>2. ASSUME NEW sid \in SIDs \cup {NoSID}, cmd = <<Player(sid)>>
      PROVE  Head(cmd) = Player(sid) /\ Tail(cmd) = <<>>
  BY <1>2, CommandParts
<1>3. ASSUME NEW t \in Teams, NEW sid \in SIDs \cup {NoSID}, cmd = <<Team(t), Player(sid)>>
      PROVE  /\ Head(cmd) = Team(t) /\ Tail(cmd) = <<Player(sid)>> /\ Tail(cmd) # <<>>
             /\ OfPlayer(cmd) /\ Tail(cmd) \in RunningCommands /\ OfPlayer(Tail(cmd))
  BY <1>3, CommandParts DEF OfPlayer, RunningCommands
<1>4. ASSUME NEW h \in Hosts, cmd = <<Server(h)>>
      PROVE  Head(cmd) = Server(h) /\ Tail(cmd) = <<>> /\ ~OfPlayer(cmd)
  <2>1. Head(cmd) = Server(h) /\ Tail(cmd) = <<>>
    BY <1>4, CommandParts
  <2>2. ASSUME OfPlayer(cmd) PROVE FALSE
    <3>1. PICK sid : cmd = <<Player(sid)>> \/ \E u \in Teams : cmd = <<Team(u), Player(sid)>>
      BY <2>2 DEF OfPlayer
    <3>2. CASE cmd = <<Player(sid)>>
      BY <2>1, <3>2, CommandParts, Kinds
    <3>3. ASSUME NEW u, cmd = <<Team(u), Player(sid)>> PROVE FALSE
      BY <2>1, <3>3, CommandParts
    <3> QED BY <3>1, <3>2, <3>3
  <2> QED BY <2>1, <2>2
<1>5. CASE \E t \in Teams : cmd = <<Team(t)>>
  BY <1>1, <1>5, Kinds
<1>6. CASE \E sid \in SIDs \cup {NoSID} : cmd = <<Player(sid)>>
  BY <1>2, <1>6, Kinds
<1>7. CASE \E t \in Teams, sid \in SIDs \cup {NoSID} : cmd = <<Team(t), Player(sid)>>
  BY <1>3, <1>7, Kinds DEF OfTeam
<1>8. CASE \E h \in Hosts : cmd = <<Server(h)>>
  BY <1>4, <1>8, Kinds
<1> QED BY <1>5, <1>6, <1>7, <1>8 DEF RunningCommands

-----------------------------------------------------------------------------
(* Selection: what is to come when models disagree.                        *)

TableRecords ==
  [rows : SUBSET SIDs, first : SIDs \cup {NoSID}, team : Teams, selected : SIDs \cup {NoSID}]

SelTypes ==
  /\ IsABag(running) /\ BagToSet(running) \subseteq RunningCommands
  /\ tables \in [Teams -> TableRecords]
  /\ chosen \in SIDs \cup {NoSID}
  /\ server \in Hosts \cup {NoHost}

(* Whenever two models disagree a command runs that will have them agree:  *)
(* on the server, on the player and on the team.                           *)
Pending ==
  /\ server # panels => \E cmd \in BagToSet(running) : OfServer(cmd)
  /\ \A t \in Teams :
       tables[t].selected # chosen => \E cmd \in BagToSet(running) : OfPlayer(cmd)
  /\ tables["RED"].team # tables["BLU"].team => \E cmd \in BagToSet(running) : OfTeam(cmd)

Agreed ==
  /\ server = panels
  /\ \A t \in Teams : tables[t].selected = chosen
  /\ tables["RED"].team = tables["BLU"].team

(* Before the first size of the window nothing has been selected, and no   *)
(* tick gets to its second message.                                        *)
SelInv ==
  /\ SelTypes
  /\ Pending
  /\ ~ready => Agreed /\ syncer # "sendFirst"

(* A table that acts has a player of its own, or nobody.                   *)
LEMMA SelectClosestOK ==
  ASSUME NEW t, NEW table \in TableRecords
  PROVE  /\ SelectClosest(t, table) \in TableRecords
         /\ SelectClosest(t, table).team = table.team
BY DEF SelectClosest, Closest, TableRecords

(* Both tables select, and what they announce is a command for a player.   *)
LEMMA ReselectStep ==
  ASSUME SelTypes,
         NEW taken \in [Teams -> TableRecords],
         \A t \in Teams : taken[t].selected = tables[t].selected,
         NEW left, IsABag(left), BagToSet(left) \subseteq RunningCommands,
         Reselect(taken, left)
  PROVE  /\ IsABag(running') /\ BagToSet(running') \subseteq RunningCommands
         /\ BagToSet(left) \subseteq BagToSet(running')
         /\ tables' \in [Teams -> TableRecords]
         /\ \A t \in Teams : tables'[t].team = taken[t].team
         /\ \A t \in Teams : tables'[t].selected # tables[t].selected =>
              \E cmd \in BagToSet(running') : OfPlayer(cmd)
<1>1. PICK new : new = [t \in Teams |-> SelectClosest(t, taken[t])]
  OBVIOUS
<1>2. tables' = new /\ running' = left (+) SetToBag(Announce(tables, new))
  BY <1>1 DEF Reselect, Run
<1>3. /\ new \in [Teams -> TableRecords]
      /\ \A t \in Teams : new[t].team = taken[t].team
  BY <1>1, SelectClosestOK
<1>4. PICK said : said = Announce(tables, new)
  OBVIOUS
<1>5. IsABag(running') /\ BagToSet(running') = BagToSet(left) \cup said
  BY <1>2, <1>4, Started
<1>6. \A t \in Teams : new[t].selected \in SIDs \cup {NoSID}
  BY <1>3 DEF TableRecords
<1>7. /\ \A cmd \in said : \E t \in Teams : cmd = <<Team(t), Player(new[t].selected)>>
      /\ \A t \in Teams : new[t].selected # tables[t].selected =>
           <<Team(t), Player(new[t].selected)>> \in said
  BY <1>4 DEF Announce
<1>8. said \subseteq RunningCommands
  BY <1>6, <1>7 DEF RunningCommands
<1>9. \A t \in Teams : OfPlayer(<<Team(t), Player(new[t].selected)>>)
  BY <1>6 DEF OfPlayer
<1> QED BY <1>2, <1>3, <1>5, <1>7, <1>8, <1>9

(* A command has sent its first message.                                   *)
LEMMA LeftOK ==
  ASSUME SelTypes, NEW cmd \in BagToSet(running)
  PROVE  /\ IsABag(Left(cmd)) /\ BagToSet(Left(cmd)) \subseteq RunningCommands
         /\ \A w \in BagToSet(running) : w # cmd => w \in BagToSet(Left(cmd))
         /\ Tail(cmd) # <<>> => Tail(cmd) \in BagToSet(Left(cmd))
<1>1. PICK rest : rest = running (-) SetToBag({cmd})
  OBVIOUS
<1>2. /\ IsABag(rest) /\ BagToSet(rest) \subseteq BagToSet(running)
      /\ \A w \in BagToSet(running) : w # cmd => w \in BagToSet(rest)
  BY <1>1, Through DEF SelTypes
<1>3. PICK next : next = IF Tail(cmd) = <<>> THEN {} ELSE {Tail(cmd)}
  OBVIOUS
<1>4. Left(cmd) = rest (+) SetToBag(next)
  BY <1>1, <1>3 DEF Left, Run
<1>5. IsABag(Left(cmd)) /\ BagToSet(Left(cmd)) = BagToSet(rest) \cup next
  BY <1>2, <1>4, Started
<1>6. next \subseteq RunningCommands
  BY <1>3, CommandShape DEF SelTypes
<1> QED BY <1>2, <1>3, <1>5, <1>6 DEF SelTypes

(* The user starts a command and changes no table.                         *)
LEMMA RunStep ==
  ASSUME SelInv, ready', NEW cmd \in RunningCommands,
         running' = Run(running, {cmd}),
         UNCHANGED <<panels, tables, chosen>>,
         server' \in Hosts \cup {NoHost},
         server' = server \/ OfServer(cmd)
  PROVE  SelInv'
<1>1. IsABag(running') /\ BagToSet(running') = BagToSet(running) \cup {cmd}
  BY Started DEF SelInv, SelTypes, Run
<1>2. SelTypes'
  BY <1>1 DEF SelInv, SelTypes
<1>3. server' # panels' => \E w \in BagToSet(running') : OfServer(w)
  BY <1>1 DEF SelInv, Pending
<1>4. \A t \in Teams :
        tables'[t].selected # chosen' => \E w \in BagToSet(running') : OfPlayer(w)
  BY <1>1 DEF SelInv, Pending
<1>5. tables'["RED"].team # tables'["BLU"].team => \E w \in BagToSet(running') : OfTeam(w)
  BY <1>1 DEF SelInv, Pending
<1> QED BY <1>2, <1>3, <1>4, <1>5 DEF SelInv, Pending

(* The commands that wait have kinds that exclude each other.              *)
LEMMA Waiting ==
  ASSUME SelTypes, NEW cmd \in BagToSet(running)
  PROVE  /\ Head(cmd).kind = "team" /\ OfPlayer(cmd) => OfPlayer(Tail(cmd)) /\ Tail(cmd) # <<>>
         /\ Head(cmd).kind = "server" => ~OfPlayer(cmd)
         /\ cmd \in RunningCommands
BY CommandShape DEF SelTypes, OfTeam

(* selectTeam's message: both tables get it, and select.                   *)
LEMMA TeamStep ==
  ASSUME SelInv, ready, ready', NEW cmd \in BagToSet(running),
         TeamArrives(Head(cmd), Left(cmd))
  PROVE  SelInv'
<1>1. PICK left : left = Left(cmd)
  OBVIOUS
<1>2. /\ IsABag(left) /\ BagToSet(left) \subseteq RunningCommands
      /\ \A w \in BagToSet(running) : w # cmd => w \in BagToSet(left)
      /\ Tail(cmd) # <<>> => Tail(cmd) \in BagToSet(left)
  BY <1>1, LeftOK DEF SelInv
<1>3. /\ Head(cmd).kind = "team" /\ Head(cmd).val \in Teams /\ ~OfServer(cmd)
      /\ OfPlayer(cmd) => OfPlayer(Tail(cmd)) /\ Tail(cmd) # <<>>
  BY CommandShape, Waiting DEF TeamArrives, SelInv, SelTypes, OfServer
<1>4. PICK taken : taken = [t \in Teams |-> [tables[t] EXCEPT !.team = Head(cmd).val]]
  OBVIOUS
<1>5. /\ taken \in [Teams -> TableRecords]
      /\ \A t \in Teams : taken[t].selected = tables[t].selected /\ taken[t].team = Head(cmd).val
  <2>1. \A t \in Teams : tables[t] \in TableRecords
    BY DEF SelInv, SelTypes
  <2> QED BY <1>3, <1>4, <2>1 DEF TableRecords
<1>6. Reselect(taken, left) /\ UNCHANGED <<server, panels, lists, chosen>>
  BY <1>1, <1>4 DEF TeamArrives
<1>7. /\ IsABag(running') /\ BagToSet(running') \subseteq RunningCommands
      /\ BagToSet(left) \subseteq BagToSet(running')
      /\ tables' \in [Teams -> TableRecords]
      /\ \A t \in Teams : tables'[t].team = taken[t].team
      /\ \A t \in Teams : tables'[t].selected # tables[t].selected =>
           \E w \in BagToSet(running') : OfPlayer(w)
  BY <1>2, <1>5, <1>6, ReselectStep DEF SelInv
<1>8. SelTypes'
  BY <1>6, <1>7 DEF SelInv, SelTypes
<1>9. server' # panels' => \E w \in BagToSet(running') : OfServer(w)
  BY <1>2, <1>3, <1>6, <1>7 DEF SelInv, Pending
<1>10. ASSUME NEW t \in Teams, tables'[t].selected # chosen'
       PROVE  \E w \in BagToSet(running') : OfPlayer(w)
  <2>1. CASE tables'[t].selected # tables[t].selected
    BY <1>7, <2>1
  <2>2. CASE tables'[t].selected = tables[t].selected
    <3>1. PICK w \in BagToSet(running) : OfPlayer(w)
      BY <1>6, <1>10, <2>2 DEF SelInv, Pending
    <3> QED BY <1>2, <1>3, <1>7, <3>1
  <2> QED BY <2>1, <2>2
<1>11. tables'["RED"].team = tables'["BLU"].team
  BY <1>5, <1>7 DEF Teams
<1> QED BY <1>8, <1>9, <1>10, <1>11 DEF SelInv, Pending

(* selectedPlayerMsg: both tables and the panels go by it.                 *)
LEMMA PlayerStep ==
  ASSUME SelInv, ready, ready', NEW cmd \in BagToSet(running),
         PlayerArrives(Head(cmd), Left(cmd))
  PROVE  SelInv'
<1>1. /\ running' = Left(cmd) /\ UNCHANGED <<server, panels, lists>>
      /\ Head(cmd).kind = "player" /\ chosen' = Head(cmd).val
      /\ tables' = [t \in Teams |-> [tables[t] EXCEPT !.selected = chosen']]
  BY DEF PlayerArrives
<1>2. /\ IsABag(running') /\ BagToSet(running') \subseteq RunningCommands
      /\ \A w \in BagToSet(running) : w # cmd => w \in BagToSet(running')
  BY <1>1, LeftOK DEF SelInv
<1>3. chosen' \in SIDs \cup {NoSID} /\ ~OfServer(cmd) /\ ~OfTeam(cmd)
  BY <1>1, CommandShape DEF SelInv, SelTypes, OfServer, OfTeam
<1>4. /\ tables' \in [Teams -> TableRecords]
      /\ \A t \in Teams : tables'[t].selected = chosen' /\ tables'[t].team = tables[t].team
  <2>1. \A t \in Teams : tables[t] \in TableRecords
    BY DEF SelInv, SelTypes
  <2>2. PICK sid : sid = chosen'
    OBVIOUS
  <2> QED BY <1>1, <1>3, <2>1, <2>2 DEF TableRecords
<1>5. SelTypes'
  BY <1>1, <1>2, <1>3, <1>4 DEF SelInv, SelTypes
<1>6. server' # panels' => \E w \in BagToSet(running') : OfServer(w)
  BY <1>1, <1>2, <1>3 DEF SelInv, Pending
<1>7. tables'["RED"].team # tables'["BLU"].team => \E w \in BagToSet(running') : OfTeam(w)
  <2>1. /\ tables'["RED"].team = tables["RED"].team
        /\ tables'["BLU"].team = tables["BLU"].team
    BY <1>4 DEF Teams
  <2> QED BY <1>2, <1>3, <2>1 DEF SelInv, Pending
<1> QED BY <1>4, <1>5, <1>6, <1>7 DEF SelInv, Pending

(* selectServerSnapshotMsg: the server table and the panels go by it.      *)
LEMMA ServerStep ==
  ASSUME SelInv, ready, ready', NEW cmd \in BagToSet(running),
         ServerArrives(Head(cmd), Left(cmd))
  PROVE  SelInv'
<1>1. /\ running' = Left(cmd) /\ UNCHANGED <<tables, chosen>>
      /\ Head(cmd).kind = "server" /\ server' = Head(cmd).val /\ panels' = server'
  BY DEF ServerArrives
<1>2. /\ IsABag(running') /\ BagToSet(running') \subseteq RunningCommands
      /\ \A w \in BagToSet(running) : w # cmd => w \in BagToSet(running')
  BY <1>1, LeftOK DEF SelInv
<1>3. server' \in Hosts /\ ~OfTeam(cmd) /\ ~OfPlayer(cmd)
  BY <1>1, CommandShape, Waiting DEF SelInv, SelTypes, OfTeam
<1>4. SelTypes'
  BY <1>1, <1>2, <1>3 DEF SelInv, SelTypes
<1>5. \A t \in Teams :
        tables'[t].selected # chosen' => \E w \in BagToSet(running') : OfPlayer(w)
  BY <1>1, <1>2, <1>3 DEF SelInv, Pending
<1>6. tables'["RED"].team # tables'["BLU"].team => \E w \in BagToSet(running') : OfTeam(w)
  BY <1>1, <1>2, <1>3 DEF SelInv, Pending
<1> QED BY <1>1, <1>4, <1>5, <1>6 DEF SelInv, Pending

(* A message of a command, which is dropped before the first size.         *)
LEMMA CommandStep ==
  ASSUME SelInv, NEW cmd \in BagToSet(running), CommandSends(cmd)
  PROVE  SelInv'
<1>1. CASE ready
  <2>1. ready'
    BY <1>1 DEF CommandSends
  <2> QED BY <1>1, <2>1, TeamStep, PlayerStep, ServerStep DEF CommandSends
<1>2. CASE ~ready
  <2>1. /\ running' = Left(cmd)
        /\ UNCHANGED <<ready, server, panels, tables, chosen, syncer>>
    BY <1>2 DEF CommandSends
  <2>2. IsABag(running') /\ BagToSet(running') \subseteq RunningCommands
    BY <2>1, LeftOK DEF SelInv
  <2>3. Agreed' /\ syncer' # "sendFirst"
    BY <1>2, <2>1 DEF SelInv, Agreed
  <2>4. SelTypes'
    BY <2>1, <2>2 DEF SelInv, SelTypes
  <2> QED BY <2>3, <2>4 DEF SelInv, Pending, Agreed
<1> QED BY <1>1, <1>2

(* app.updateUIState's second message: new rows in both tables.            *)
LEMMA SendFirstStep ==
  ASSUME SelInv, SendFirst
  PROVE  SelInv'
<1>0. PICK players \in [SIDs -> Teams \cup {"none"}] :
        \E red \in Listings("RED", players), blu \in Listings("BLU", players) :
          LET listing == [t \in Teams |-> IF t = "RED" THEN red ELSE blu] IN
          Reselect([t \in Teams |-> [tables[t] EXCEPT !.rows = listing[t].rows,
                                                      !.first = listing[t].first]], running)
  BY DEF SendFirst
<1>1. PICK red \in Listings("RED", players), blu \in Listings("BLU", players) :
        LET listing == [t \in Teams |-> IF t = "RED" THEN red ELSE blu] IN
        Reselect([t \in Teams |-> [tables[t] EXCEPT !.rows = listing[t].rows,
                                                    !.first = listing[t].first]], running)
  BY <1>0
<1>2. PICK listing : listing = [t \in Teams |-> IF t = "RED" THEN red ELSE blu]
  OBVIOUS
<1>3. PICK taken : taken = [t \in Teams |-> [tables[t] EXCEPT !.rows = listing[t].rows,
                                                              !.first = listing[t].first]]
  OBVIOUS
<1>4. \A t \in Teams : listing[t].rows \in SUBSET SIDs /\ listing[t].first \in SIDs \cup {NoSID}
  <2>1. \A t : \A l \in Listings(t, players) :
          l.rows \in SUBSET SIDs /\ l.first \in SIDs \cup {NoSID}
    <3>1. SUFFICES ASSUME NEW t, NEW l \in Listings(t, players)
                   PROVE  l.rows \in SUBSET SIDs /\ l.first \in SIDs \cup {NoSID}
      OBVIOUS
    <3>2. PICK rows : rows = {sid \in SIDs : players[sid] = t}
      OBVIOUS
    <3>3. PICK f \in (IF rows = {} THEN {NoSID} ELSE rows) : l = [rows |-> rows, first |-> f]
      BY <3>1, <3>2 DEF Listings
    <3> QED BY <3>2, <3>3
  <2> QED BY <1>2, <2>1
<1>5. /\ taken \in [Teams -> TableRecords]
      /\ \A t \in Teams : taken[t].selected = tables[t].selected
                          /\ taken[t].team = tables[t].team
  <2>1. \A t \in Teams : tables[t] \in TableRecords
    BY DEF SelInv, SelTypes
  <2>2. ASSUME NEW t \in Teams
        PROVE  /\ taken[t] \in TableRecords
               /\ taken[t].selected = tables[t].selected /\ taken[t].team = tables[t].team
    <3>1. PICK l : l = listing[t]
      OBVIOUS
    <3>2. PICK table : table = tables[t]
      OBVIOUS
    <3>3. taken[t] = [table EXCEPT !.rows = l.rows, !.first = l.first]
      BY <1>3, <3>1, <3>2
    <3> QED BY <1>4, <2>1, <3>1, <3>2, <3>3 DEF TableRecords
  <2>3. taken = [t \in Teams |-> taken[t]]
    BY <1>3
  <2> QED BY <2>2, <2>3
<1>6. Reselect(taken, running) /\ UNCHANGED <<ready, server, panels, chosen>> /\ ready' = ready
  BY <1>1, <1>2, <1>3 DEF SendFirst
<1>7. /\ IsABag(running') /\ BagToSet(running') \subseteq RunningCommands
      /\ BagToSet(running) \subseteq BagToSet(running')
      /\ tables' \in [Teams -> TableRecords]
      /\ \A t \in Teams : tables'[t].team = taken[t].team
      /\ \A t \in Teams : tables'[t].selected # tables[t].selected =>
           \E w \in BagToSet(running') : OfPlayer(w)
  BY <1>5, <1>6, ReselectStep DEF SelInv, SelTypes
<1>8. SelTypes'
  BY <1>6, <1>7 DEF SelInv, SelTypes
<1>9. Pending'
  <2>1. server' # panels' => \E w \in BagToSet(running') : OfServer(w)
    BY <1>6, <1>7 DEF SelInv, Pending
  <2>2. \A t \in Teams :
          tables'[t].selected # chosen' => \E w \in BagToSet(running') : OfPlayer(w)
    BY <1>6, <1>7 DEF SelInv, Pending
  <2>3. tables'["RED"].team = tables["RED"].team /\ tables'["BLU"].team = tables["BLU"].team
    BY <1>5, <1>7 DEF Teams
  <2>4. tables'["RED"].team # tables'["BLU"].team => \E w \in BagToSet(running') : OfTeam(w)
    BY <1>7, <2>3 DEF SelInv, Pending
  <2> QED BY <2>1, <2>2, <2>4 DEF Pending
<1>10. ready'
  <2>1. ready
    BY DEF SendFirst, SelInv
  <2> QED BY <1>6, <2>1
<1> QED BY <1>8, <1>9, <1>10 DEF SelInv

(* The user.                                                               *)
LEMMA UserStep ==
  ASSUME SelInv, User
  PROVE  SelInv'
<1>0. Input
  BY DEF User, KeyTeam, ClickHeader, ClickPlayer, ClickServer
<1>1. ready /\ ready' /\ UNCHANGED <<server, panels, chosen>>
  <2>1. ready /\ UNCHANGED <<ready, server, panels, chosen>>
    BY <1>0 DEF Input
  <2> QED BY <2>1
<1>2. ASSUME NEW t \in Teams, KeyTeam(t) PROVE SelInv'
  <2>1. <<Team(t)>> \in RunningCommands
    BY DEF RunningCommands
  <2>2. running' = Run(running, {<<Team(t)>>}) /\ UNCHANGED tables
    BY <1>2 DEF KeyTeam
  <2>3. server' \in Hosts \cup {NoHost}
    BY <1>1 DEF SelInv, SelTypes
  <2> QED BY <1>1, <2>1, <2>2, <2>3, RunStep
<1>3. ASSUME NEW h \in Hosts, ClickServer(h) PROVE SelInv'
  <2>1. <<Server(h)>> \in RunningCommands
    BY DEF RunningCommands
  <2>2. running' = Run(running, {<<Server(h)>>}) /\ UNCHANGED tables
    BY <1>3 DEF ClickServer
  <2>3. server' \in Hosts \cup {NoHost}
    BY <1>1 DEF SelInv, SelTypes
  <2> QED BY <1>1, <2>1, <2>2, <2>3, RunStep
<1>4. ASSUME NEW t \in Teams, NEW sid \in SIDs, ClickPlayer(t, sid) PROVE SelInv'
  <2>1. PICK cmd : cmd = <<Team(t), Player(sid)>>
    OBVIOUS
  <2>2. cmd \in RunningCommands /\ OfTeam(cmd) /\ OfPlayer(cmd)
    <3>1. Head(cmd) = Team(t)
      BY <2>1, CommandParts
    <3> QED BY <2>1, <3>1, Kinds DEF RunningCommands, OfTeam, OfPlayer
  <2>3. running' = running (+) SetToBag({cmd})
    BY <1>4, <2>1 DEF ClickPlayer, Run
  <2>4. IsABag(running') /\ BagToSet(running') = BagToSet(running) \cup {cmd}
    BY <2>3, Started DEF SelInv, SelTypes
  <2>5. tables' \in [Teams -> TableRecords]
    <3>1. PICK table : table = [tables[t] EXCEPT !.selected = sid, !.team = t]
      OBVIOUS
    <3>2. table \in TableRecords
      <4>1. tables[t] \in TableRecords
        BY DEF SelInv, SelTypes
      <4> QED BY <3>1, <4>1 DEF TableRecords
    <3>3. tables' = [tables EXCEPT ![t] = table]
      BY <1>4, <3>1 DEF ClickPlayer
    <3> QED BY <3>2, <3>3 DEF SelInv, SelTypes
  <2>6. SelTypes'
    BY <1>1, <2>2, <2>4, <2>5 DEF SelInv, SelTypes
  <2>7. server' # panels' => \E w \in BagToSet(running') : OfServer(w)
    BY <1>1, <2>4 DEF SelInv, Pending
  <2> QED BY <1>1, <2>2, <2>4, <2>6, <2>7 DEF SelInv, Pending
<1>5. ASSUME NEW t \in Teams, ClickHeader(t) PROVE SelInv'
  <2>1. PICK sid \in tables[t].rows : tables' = [tables EXCEPT ![t].first = sid]
    BY <1>5 DEF ClickHeader
  <2>2. PICK table : table = [tables[t] EXCEPT !.first = sid]
    OBVIOUS
  <2>3. /\ table \in TableRecords
        /\ table.team = tables[t].team /\ table.selected = tables[t].selected
    BY <2>1, <2>2 DEF SelInv, SelTypes, TableRecords
  <2>4. tables' = [tables EXCEPT ![t] = table]
    BY <2>1, <2>2
  <2>5. /\ tables' \in [Teams -> TableRecords]
        /\ \A u \in Teams : /\ tables'[u].team = tables[u].team
                            /\ tables'[u].selected = tables[u].selected
    BY <2>3, <2>4 DEF SelInv, SelTypes
  <2>6. running' = running
    BY <1>5 DEF ClickHeader
  <2>7. SelTypes'
    BY <1>1, <2>5, <2>6 DEF SelInv, SelTypes
  <2>8. /\ tables'["RED"].team = tables["RED"].team
        /\ tables'["BLU"].team = tables["BLU"].team
    BY <2>5 DEF Teams
  <2>9. Pending'
    BY <1>1, <2>5, <2>6, <2>8 DEF SelInv, Pending
  <2> QED BY <1>1, <2>7, <2>9 DEF SelInv
<1> QED BY <1>2, <1>3, <1>4, <1>5 DEF User

(* When no command runs all models have the same server, the same player   *)
(* and the same team selected: for any number of servers, players, ticks,  *)
(* clicks and keys, and in whatever order the messages got through.        *)
THEOREM QuietModelsAgreeHolds == SelSpec => []QuietModelsAgree
<1>1. SelInit => SelInv
  <2> SUFFICES ASSUME SelInit PROVE SelInv
    OBVIOUS
  <2>1. PICK first : first = <<Team("RED")>>
    OBVIOUS
  <2>2. first \in RunningCommands
    BY <2>1 DEF RunningCommands, Teams
  <2>3. running = SetToBag({first})
    BY <2>1 DEF SelInit
  <2>4. IsABag(running) /\ BagToSet(running) \subseteq RunningCommands
    BY <2>2, <2>3 DEF IsABag, BagToSet, SetToBag
  <2>5. /\ tables \in [Teams -> TableRecords]
        /\ \A t \in Teams : tables[t].selected = NoSID /\ tables[t].team = "RED"
    BY DEF SelInit, TableRecords, Teams
  <2>6. SelTypes
    BY <2>4, <2>5 DEF SelInit, SelTypes
  <2>7. Agreed
    BY <2>5 DEF SelInit, Agreed, Teams
  <2> QED BY <2>6, <2>7 DEF SelInit, SelInv, Pending, Agreed
<1>2. SelInv /\ [SelNext]_selVars => SelInv'
  <2> SUFFICES ASSUME SelInv, [SelNext]_selVars PROVE SelInv'
    OBVIOUS
  <2>1. CASE FirstSize
    BY <2>1 DEF FirstSize, SelInv, SelTypes, Pending
  <2>2. CASE SendAll
    <3>1. ready /\ ready' /\ UNCHANGED <<panels, tables, chosen>>
      BY <2>2 DEF SendAll
    <3>2. server' \in Hosts \/ server' = server
      BY <2>2 DEF SendAll
    <3>3. running' = Run(running, {<<Server(server')>>})
      BY <2>2 DEF SendAll
    <3>4. server' \in Hosts
      BY <2>2 DEF SendAll, SelInv, SelTypes
    <3>5. PICK cmd : cmd = <<Server(server')>>
      OBVIOUS
    <3>6. cmd \in RunningCommands /\ OfServer(cmd)
      BY <3>4, <3>5, CommandParts, Kinds DEF RunningCommands, OfServer
    <3> QED BY <3>1, <3>3, <3>4, <3>5, <3>6, RunStep
  <2>3. CASE UNCHANGED selVars
    BY <2>3 DEF selVars, SelInv, SelTypes, Pending, Agreed
  <2> QED BY <2>1, <2>2, <2>3, SendFirstStep, UserStep, CommandStep DEF SelNext
<1>3. SelInv => QuietModelsAgree
  BY DEF SelInv, Pending, QuietModelsAgree, Quiet, EmptyBag, SetToBag, BagToSet
<1> QED BY <1>1, <1>2, <1>3, PTL DEF SelSpec

-----------------------------------------------------------------------------
(* Views: what the models are told.                                        *)

Clear == Msg("clear", "")

Forms == [view : {"viewConfig", "viewMain"}, focusIndex : 0 .. NumFields, focus : 0 .. NumFields,
          text : [Fields -> {"unedited", "valid", "invalid"}]]

(* Only the main view is ever announced.                                   *)
MainOnly(msgs) == \A msg \in msgs : msg.kind = "view" => msg.val = "viewMain"

ViewsInv ==
  /\ form \in Forms
  /\ helpView = "viewMain"
  /\ IsABag(commands)
  /\ MainOnly(BagToSet(commands))
  /\ ClearIsComing

(* configModel.Update: what the form is told of another view stays.        *)
LEMMA FormStep ==
  ASSUME form \in Forms, NEW msg, NEW ok \in BOOLEAN, msg.kind = "view" => msg.val = "viewMain"
  PROVE  /\ FormUpdate(msg, ok) \in Forms
         /\ form.view = "viewMain" => FormUpdate(msg, ok).view = "viewMain"
<1>0. NumFields \in Nat \ {0} /\ Fields = 0 .. NumFields - 1 /\ FieldSave = NumFields
  BY ViewsAssumption DEF Fields, FieldSave
<1>1. PICK f : f = Typed(msg, ok)
  OBVIOUS
<1>2. f \in Forms /\ f.view = form.view /\ f.focusIndex = form.focusIndex
  <2>1. CASE f = form
    BY <2>1
  <2>2. CASE /\ form.focus \in Fields
             /\ f = [form EXCEPT !.text[form.focus] = IF ok THEN "valid" ELSE "invalid"]
    <3>1. PICK s \in {"valid", "invalid"} : f = [form EXCEPT !.text[form.focus] = s]
      BY <2>2
    <3>2. [form.text EXCEPT ![form.focus] = s] \in [Fields -> {"unedited", "valid", "invalid"}]
      BY DEF Forms
    <3> QED BY <3>1, <3>2 DEF Forms
  <2> QED BY <1>1, <2>1, <2>2 DEF Typed
<1>3. ASSUME NEW i \in 0 .. NumFields
      PROVE  ChangeInput(f, i) \in Forms /\ ChangeInput(f, i).view = form.view
  BY <1>2, <1>3 DEF ChangeInput, Forms
<1>4. CASE msg.kind = "view"
  <2>1. \A b : ~FormKey(msg, b)
    BY <1>4 DEF FormKey, Matches
  <2>2. FormUpdate(msg, ok) = [f EXCEPT !.view = msg.val,
                                        !.focus = IF msg.val = "viewConfig" THEN 0 ELSE @]
    BY <1>1, <1>4, <2>1 DEF FormUpdate
  <2>3. msg.val = "viewMain"
    BY <1>4
  <2> QED BY <1>2, <2>2, <2>3 DEF Forms
<1>5. CASE msg.kind # "view" /\ FormKey(msg, "back")
  <2>1. FormUpdate(msg, ok) = [f EXCEPT !.view = "viewMain"]
    <3>1. ~FormKey(msg, "up") /\ ~FormKey(msg, "down") /\ ~FormKey(msg, "accept")
      BY <1>5 DEF FormKey, Matches, DefaultKeyMap
    <3> QED BY <1>1, <1>5, <3>1 DEF FormUpdate
  <2> QED BY <1>2, <2>1 DEF Forms
<1>6. CASE msg.kind # "view" /\ ~FormKey(msg, "back")
  <2>1. \/ FormUpdate(msg, ok) = f
        \/ form.focusIndex > 0 /\ FormUpdate(msg, ok) = ChangeInput(f, f.focusIndex - 1)
        \/ form.focusIndex < FieldSave /\ FormUpdate(msg, ok) = ChangeInput(f, f.focusIndex + 1)
    BY <1>1, <1>2, <1>6 DEF FormUpdate
  <2>2. form.focusIndex \in 0 .. NumFields
    BY DEF Forms
  <2>3. form.focusIndex > 0 => form.focusIndex - 1 \in 0 .. NumFields
    BY <1>0, <2>2
  <2>4. form.focusIndex < FieldSave => form.focusIndex + 1 \in 0 .. NumFields
    BY <1>0, <2>2
  <2> QED BY <1>2, <1>3, <2>1, <2>3, <2>4
<1> QED BY <1>4, <1>5, <1>6

(* The commands that a message starts.                                     *)
LEMMA CommandsOK ==
  ASSUME NEW msg, NEW ok
  PROVE  /\ MainOnly(Commands(msg, ok))
         /\ msg.kind = "status" => Clear \in Commands(msg, ok)
<1>1. \A m \in Commands(msg, ok) :
        m \in {Msg("view", "viewMain"), Msg("status", "saved"), Msg("status", "error"), Clear}
  BY DEF Commands, FormCommands, HelpCommands, BarCommands, Clear
<1>2. /\ Msg("view", "viewMain").val = "viewMain"
      /\ \A v : Msg("status", v).kind = "status"
      /\ Clear.kind = "clear"
  BY DEF Msg, Clear
<1>3. MainOnly(Commands(msg, ok))
  BY <1>1, <1>2 DEF MainOnly
<1>4. msg.kind = "status" => Clear \in Commands(msg, ok)
  BY DEF Commands, BarCommands, Clear
<1> QED BY <1>3, <1>4

(* A message that is handled, of a command or a key.                       *)
LEMMA UpdateStep ==
  ASSUME ViewsInv, NEW msg, NEW ok \in BOOLEAN, ViewUpdate(msg, ok),
         msg.kind = "view" => msg.val = "viewMain"
  PROVE  ViewsInv' /\ (form.view = "viewMain" => form'.view = "viewMain")
<1>1. CASE UNCHANGED <<form, helpView, bar, commands>>
  BY <1>1 DEF ViewsInv, ClearIsComing
<1>2. CASE Propagate(msg, ok)
  <2>1. form' \in Forms /\ (form.view = "viewMain" => form'.view = "viewMain")
    BY <1>2, FormStep DEF Propagate, ViewsInv
  <2>2. helpView' = "viewMain"
    BY <1>2 DEF Propagate, HelpUpdate, ViewsInv
  <2>3. PICK left : left = commands (-) SetToBag({msg})
    OBVIOUS
  <2>4. /\ IsABag(left) /\ BagToSet(left) \subseteq BagToSet(commands)
        /\ \A e \in BagToSet(commands) : e # msg => e \in BagToSet(left)
    BY <2>3, Through DEF ViewsInv
  <2>5. IsABag(commands') /\ BagToSet(commands') = BagToSet(left) \cup Commands(msg, ok)
    BY <1>2, <2>3, <2>4, Started DEF Propagate
  <2>6. MainOnly(BagToSet(commands'))
    BY <2>4, <2>5, CommandsOK DEF ViewsInv, MainOnly
  <2>7. ASSUME bar' # "" PROVE Clear \in BagToSet(commands')
    <3>1. CASE msg.kind = "status"
      BY <2>5, <3>1, CommandsOK
    <3>2. CASE msg.kind # "status"
      <4>1. msg.kind # "clear" /\ bar # ""
        BY <1>2, <2>7, <3>2 DEF Propagate, BarUpdate
      <4>2. msg # Clear
        <5>1. Clear.kind = "clear"
          BY DEF Clear, Msg
        <5> QED BY <4>1, <5>1
      <4>3. Clear \in BagToSet(commands)
        BY <4>1 DEF ViewsInv, ClearIsComing, Clear
      <4> QED BY <2>4, <2>5, <4>2, <4>3
    <3> QED BY <3>1, <3>2
  <2> QED BY <2>1, <2>2, <2>5, <2>6, <2>7 DEF ViewsInv, ClearIsComing, Clear
<1> QED BY <1>1, <1>2 DEF ViewUpdate

LEMMA ViewsStart == ViewsInit => ViewsInv
<1> SUFFICES ASSUME ViewsInit PROVE ViewsInv
  OBVIOUS
<1>1. NumFields \in Nat
  BY ViewsAssumption
<1>2. form \in Forms
  <2>1. form \in [view : {"viewConfig"}, focusIndex : {0}, focus : {FieldSave},
                  text : [Fields -> {"unedited"}]]
    BY DEF ViewsInit
  <2>3. FieldSave \in 0 .. NumFields /\ 0 \in 0 .. NumFields
    BY <1>1 DEF FieldSave
  <2>2. [Fields -> {"unedited"}] \subseteq [Fields -> {"unedited", "valid", "invalid"}]
    OBVIOUS
  <2> QED BY <2>1, <2>2, <2>3 DEF Forms
<1>3. IsABag(commands) /\ BagToSet(commands) = {}
  BY DEF ViewsInit, EmptyBag, SetToBag, IsABag, BagToSet
<1> QED BY <1>2, <1>3 DEF ViewsInit, ViewsInv, MainOnly, ClearIsComing

LEMMA ViewsStep ==
  ASSUME ViewsInv, [ViewsNext]_viewVars
  PROVE  ViewsInv' /\ (form.view = "viewMain" => form'.view = "viewMain")
<1>1. CASE Resize
  <2>1. Msg("size", "").kind = "size"
    BY DEF Msg
  <2> QED BY <1>1, <2>1, UpdateStep DEF Resize
<1>2. ASSUME NEW msg \in BagToSet(commands), Arrive(msg)
      PROVE  ViewsInv' /\ (form.view = "viewMain" => form'.view = "viewMain")
  <2>1. msg.kind = "view" => msg.val = "viewMain"
    BY DEF ViewsInv, MainOnly
  <2> QED BY <1>2, <2>1, UpdateStep DEF Arrive
<1>3. ASSUME NEW key \in ViewKeys, Press(key)
      PROVE  ViewsInv' /\ (form.view = "viewMain" => form'.view = "viewMain")
  <2>1. Msg("key", key).kind = "key"
    BY DEF Msg
  <2>2. PICK ok \in BOOLEAN : ViewUpdate(Msg("key", key), ok)
    BY <1>3 DEF Press
  <2> QED BY <2>1, <2>2, UpdateStep
<1>4. CASE UNCHANGED viewVars
  BY <1>4 DEF viewVars, ViewsInv, ClearIsComing
<1> QED BY <1>1, <1>2, <1>3, <1>4 DEF ViewsNext

(* A message in the status bar is never without a timer that will clear    *)
(* it, for any number of messages and timers in any order.                 *)
THEOREM ClearIsComingHolds == ViewsSpec => []ClearIsComing
<1>1. ViewsInv /\ [ViewsNext]_viewVars => ViewsInv'
  BY ViewsStep
<1>2. ViewsInv => ClearIsComing
  BY DEF ViewsInv
<1> QED BY ViewsStart, <1>1, <1>2, PTL DEF ViewsSpec

(* No view but the main one is ever announced: the help never knows that   *)
(* it is shown, and the form, once it was left, not any more.  So the keys *)
(* of the form work until it is left, and back never leaves the help,      *)
(* whatever is pressed.                                                    *)
THEOREM OnlyMainIsAnnounced ==
  ViewsSpec => /\ [](helpView = "viewMain")
               /\ [][form.view = "viewMain" => form'.view = "viewMain"]_viewVars
<1>1. ViewsInv /\ [ViewsNext]_viewVars => ViewsInv'
  BY ViewsStep
<1>2. ViewsInv => helpView = "viewMain"
  BY DEF ViewsInv
<1>3. ViewsInv /\ [ViewsNext]_viewVars => [form.view = "viewMain" => form'.view = "viewMain"]_viewVars
  BY ViewsStep
<1> QED BY ViewsStart, <1>1, <1>2, <1>3, PTL DEF ViewsSpec

=============================================================================
