-------------------------------- MODULE Lines -------------------------------
(***************************************************************************)
(* A line of a game server's log from the parser to those that keep what   *)
(* it says: the match recorder of the server (state/blackbox.go) with the  *)
(* database, and the console, the chat and the status bar of the UI.       *)
(*                                                                         *)
(* EventRouter models how events reach them, and that some do not; here a  *)
(* line is taken by the recorder, the UI, both or neither.  Of a line the  *)
(* model keeps which patterns it matches: players choose their names and   *)
(* what they say, so a line may match several.  Of what is stored it keeps *)
(* whether it was taken from what a player said.  The parser finds no      *)
(* SteamIDs: all chat is that of the same, empty ID.                       *)
(***************************************************************************)
EXTENDS Naturals, SequencesExt

CONSTANT LineHosts  \* the servers, a recorder each

VARIABLES
  match,      \* per host, blackBox.match: who its facts are from, whether it has kills
  validIDs,   \* per host: blackBox.validIDs holds the ID
  stored,     \* the database: rows of the ID in player and in chat_history
  statement,  \* per host: the statement that its recorder waits for
  uiAlive,    \* the UI has not panicked
  bar         \* statusBarModel: who its hostname and map are from

lineVars == <<match, validIDs, stored, statement, uiAlive, bar>>

-----------------------------------------------------------------------------
(* Parser.Parse.                                                           *)

(* Mutated form of Rx: chat is tried last.                                 *)
RxChatLast == <<"Kill", "Connect", "Disconnect", "StatusID", "Hostname", "Map", "Tags", "Address",
                "Version", "Msg">>

(* NewParser: the patterns in the order in which they are tried.  Only the *)
(* one for kills is anchored to the beginning of the line.                 *)
Rx == <<"Kill", "Msg", "Connect", "Disconnect", "StatusID", "Hostname", "Map", "Tags", "Address",
        "Version">>

(* A version or an address that matches may still be none: the next        *)
(* pattern is tried.  What is parsed of a status line, whose pattern       *)
(* bounds the digits of each number and of the time, never fails.          *)
Garbles == {"Address", "Version"}

(* The first that matches; Router.Send makes the others Any.               *)
Parse(line) ==
  LET hits == {k \in DOMAIN Rx : Rx[k] \in line.matches \ line.garbled} IN
  IF hits = {} THEN "Any" ELSE Rx[Min(hits)]

(* Chat reads "name :  text", with any text: it matches Msg, and any other *)
(* pattern as well.  In another line the name of a player may match one    *)
(* more than the line itself.                                              *)
Lines ==
  {l \in [said : BOOLEAN, matches : {{}} \cup {{p, q} : p, q \in ToSet(Rx)}, garbled : SUBSET Garbles] :
     (l.said => "Msg" \in l.matches) /\ l.garbled \subseteq l.matches}

From(line) == IF line.said THEN "chat" ELSE "server"

-----------------------------------------------------------------------------
(* blackBox.Start.                                                         *)

NewMatch == [from |-> {}, kills |-> FALSE]

(* onConnect, onKill and the assignments.  Any player's "... connected"    *)
(* starts a match.                                                         *)
MatchAfter(m, line) ==
  LET type == Parse(line) IN
  CASE type = "Connect" -> NewMatch
    [] type = "Kill"    -> [m EXCEPT !.kills = TRUE]
    [] type \in {"Hostname", "Address", "Tags"} -> [m EXCEPT !.from = @ \cup {From(line)}]
    [] OTHER -> m

Record(h, line) ==
  /\ statement[h] = "none"
  /\ match' = [match EXCEPT ![h] = MatchAfter(@, line)]
  /\ statement' = [statement EXCEPT
       ![h] = IF Parse(line) # "Msg" THEN "none" ELSE IF validIDs[h] THEN "insertChat" ELSE "insertPlayer"]

(* The statements of queries.sql.go, on what is stored.  A player who is   *)
(* there already is updated.  No chat line is given an ID: all have 0, so  *)
(* that a second one is in conflict with the first.                        *)
PlayerInserted(s, ok) == [s EXCEPT !.player = @ \/ ok]
ChatInserted(s, ok)   == [s EXCEPT !.chat = @ \/ ok]

(* Mutated form of InsertPlayer: the ID is good whatever sqlite says.      *)
InsertPlayerUnchecked(h, ok) ==
  /\ statement[h] = "insertPlayer"
  /\ stored' = PlayerInserted(stored, ok)
  /\ validIDs' = [validIDs EXCEPT ![h] = TRUE]
  /\ statement' = [statement EXCEPT ![h] = "insertChat"]
  /\ UNCHANGED <<match, uiAlive, bar>>

(* ensureSID.  ok is what sqlite makes of the statement; it may fail.  The *)
(* statement of this commit still has sqlc's macros in it, and does.       *)
InsertPlayer(h, ok) ==
  /\ statement[h] = "insertPlayer"
  /\ stored' = PlayerInserted(stored, ok)
  /\ validIDs' = IF ok THEN [validIDs EXCEPT ![h] = TRUE] ELSE validIDs
  /\ statement' = [statement EXCEPT ![h] = IF ok THEN "insertChat" ELSE "none"]
  /\ UNCHANGED <<match, uiAlive, bar>>

InsertChat(h, ok) ==
  /\ statement[h] = "insertChat"
  /\ ok => ~stored.chat
  /\ stored' = ChatInserted(stored, ok)
  /\ statement' = [statement EXCEPT ![h] = "none"]
  /\ UNCHANGED <<match, validIDs, uiAlive, bar>>

-----------------------------------------------------------------------------
(* The Updates of the UI for an events.Event.                              *)

(* chatModel's maps are nil, and so the first chat line ends the UI.  The  *)
(* status bar does not ask which server an event is from.                  *)
Show(line) ==
  LET type == Parse(line) IN
  /\ uiAlive
  /\ uiAlive' = (type # "Msg")
  /\ bar' = IF type \in {"Hostname", "Map"} THEN bar \cup {From(line)} ELSE bar

LineArrives(h, line) ==
  \/ /\ Record(h, line)
     /\ \/ Show(line)
        \/ UNCHANGED <<uiAlive, bar>>
     /\ UNCHANGED <<validIDs, stored>>
  \/ Show(line) /\ UNCHANGED <<match, validIDs, stored, statement>>

(* The program is started again: the database stays.                       *)
Restart ==
  /\ match' = [h \in LineHosts |-> NewMatch]
  /\ validIDs' = [h \in LineHosts |-> FALSE]
  /\ statement' = [h \in LineHosts |-> "none"]
  /\ uiAlive' = TRUE
  /\ bar' = {}
  /\ UNCHANGED stored

LinesInit ==
  /\ match = [h \in LineHosts |-> NewMatch]
  /\ validIDs = [h \in LineHosts |-> FALSE]
  /\ stored = [player |-> FALSE, chat |-> FALSE]
  /\ statement = [h \in LineHosts |-> "none"]
  /\ uiAlive = TRUE
  /\ bar = {}

LinesNext ==
  \/ \E h \in LineHosts : \/ \E line \in Lines : LineArrives(h, line)
                          \/ \E ok \in BOOLEAN : InsertPlayer(h, ok) \/ InsertChat(h, ok)
  \/ Restart

LinesSpec == LinesInit /\ [][LinesNext]_lineVars

-----------------------------------------------------------------------------
(* Properties.                                                             *)

(* Whatever a player says, it is not taken for what the server says of     *)
(* itself: not by the recorder and not by the status bar.  (It may be      *)
(* taken for a kill.)                                                      *)
ChatForgesNothing ==
  "chat" \notin bar \cup UNION {match[h].from : h \in LineHosts}

(* A chat line is stored only if its player is ("ensureSID handles making  *)
(* sure the players steam_id FK is satisfied"), though several recorders   *)
(* write and each statement may fail; sqlite checks foreign keys only on   *)
(* the one connection of the pool that was configured.                     *)
ChatHasItsPlayer ==
  /\ stored.chat => stored.player
  /\ \A h \in LineHosts : statement[h] = "insertChat" => stored.player

=============================================================================
