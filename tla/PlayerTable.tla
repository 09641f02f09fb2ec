----------------------------- MODULE PlayerTable ----------------------------
(***************************************************************************)
(* internal/ui/table_player*.go: what a table of players draws.            *)
(*                                                                         *)
(* A snapshot makes a new table of the players of one team and sorts it by *)
(* score.  A click on a header sorts the rows where they are, the other    *)
(* way round than the last time; the header is found by its mark, and the  *)
(* column by the name of the mark.  What a cell shows is not quite what    *)
(* its column is sorted by.  A name or a text is its place in the order of *)
(* lower-case texts, 0 when it is empty.                                   *)
(***************************************************************************)
EXTENDS Sorting

CONSTANTS TableSIDs,  \* the players of the server
          MaxKey      \* bound: the values in a column

ASSUME PlayerTableAssumption == IsFiniteSet(TableSIDs) /\ MaxKey \in Nat \ {0}

VARIABLES
  roster,      \* the players of the last snapshot, a sequence
  serverMode,  \* tablePlayerModel.serverMode
  rows,        \* tablePlayerData.players
  sortColumn,  \* tablePlayerData.sortColumn
  asc,         \* tablePlayerData.asc
  selected,    \* tablePlayerModel.selectedSteamID
  clicked      \* history: the header of this table clicked last, or 0

playerVars == <<roster, serverMode, rows, sortColumn, asc, selected, clicked>>

-----------------------------------------------------------------------------
(* The columns.                                                            *)

(* defaultServerColumns and defaultLocalColumns.                           *)
EnabledColumns ==
  IF serverMode THEN <<"meta", "name", "loss", "ping", "address">>
                ELSE <<"meta", "name", "score", "deaths", "ping">>

(* Headers: the mark around each of them.                                  *)
Headers == EnabledColumns

(* Mutated form of ColumnOf: a mark that the switch does not know.         *)
ColumnOfMost(mark) ==
  IF mark \in {"uid", "score", "deaths", "ping", "meta", "loss", "time"} THEN mark ELSE "name"

(* The column that Update finds for a mark.                                *)
ColumnOf(mark) ==
  IF mark \in {"uid", "score", "deaths", "ping", "meta", "address", "loss", "time"}
  THEN mark ELSE "name"

(* The text of an address: its host, a colon and its port.  The colon      *)
(* comes after all of the digits.                                          *)
Colon == MaxKey + 1

Address(p) == p.host \o <<Colon>> \o p.port

LessText(s, t) ==
  \/ IsStrictPrefix(s, t)
  \/ \E i \in DOMAIN s \cap DOMAIN t : s[i] < t[i] /\ SubSeq(s, 1, i - 1) = SubSeq(t, 1, i - 1)

(* What Sort compares.  Meta is compared the other way round.              *)
Before(col, a, b) ==
  CASE col = "meta"    -> a.bans + a.vacs > b.bans + b.vacs
    [] col = "address" -> LessText(Address(a), Address(b))
    [] OTHER           -> a[col] < b[col]

(* metaColumn: an icon for each kind of trouble, and for a league player.  *)
MetaColumn(p) ==
  {icon \in {"bans", "vac", "comp"} :
     \/ icon = "bans" /\ p.bans > 0
     \/ icon = "vac" /\ p.vacs > 0
     \/ icon = "comp" /\ p.comp}

(* At: the name is made up for a player who has none yet.                  *)
CellAt(row, col) ==
  LET p == rows[row]
      c == EnabledColumns[col] IN
  CASE c = "name"    -> IF p.name # 0 THEN <<"name", p.name>>
                        ELSE IF p.persona # 0 THEN <<"persona", p.persona>> ELSE <<"sid", p.sid>>
    [] c = "meta"    -> MetaColumn(p)
    [] c = "address" -> p.host
    [] OTHER         -> p[c]

-----------------------------------------------------------------------------
(* Sort, and the messages that lead to it.                                 *)

Sort(players, col, up) ==
  LET s == StableSort(players, {p \in Pairs(players) : Before(col, p[1], p[2])}) IN
  IF up THEN Reverse(s) ELSE s

(* newTablePlayerData: the players of the team whose SteamID is valid.     *)
OfTeam(players) ==
  LET team[n \in 0 .. Len(players)] ==
        IF n = 0 THEN <<>>
        ELSE IF players[n].listed THEN Append(team[n - 1], players[n]) ELSE team[n - 1]
  IN team[Len(players)]

(* currentRowIndex: 0 for none.                                            *)
CurrentRowIndex == SelectInSeq(rows, LAMBDA p : p.sid = selected)

(* updatePlayers: the table starts afresh, and a player who is not there   *)
(* any more makes room for the first one.                                  *)
UpdatePlayers(players) ==
  LET table == Sort(OfTeam(players), "score", TRUE)
      known == \E i \in DOMAIN table : table[i].sid = selected IN
  /\ roster' = players
  /\ rows' = table
  /\ sortColumn' = "score" /\ asc' = TRUE
  /\ selected' = IF ~known /\ table # <<>> THEN table[1].sid ELSE IF known THEN selected ELSE "none"
  /\ clicked' = 0
  /\ UNCHANGED serverMode

(* A click on the name of a row.                                           *)
ClickRow(row) ==
  /\ row \in DOMAIN rows
  /\ selected' = rows[row].sid
  /\ UNCHANGED <<roster, serverMode, rows, sortColumn, asc, clicked>>

(* A click on a header.                                                    *)
ClickHeader(h) ==
  LET col == ColumnOf(Headers[h]) IN
  /\ sortColumn' = col
  /\ asc' = ~asc
  /\ rows' = Sort(rows, col, ~asc)
  /\ clicked' = h
  /\ UNCHANGED <<roster, serverMode, selected>>

-----------------------------------------------------------------------------
(* View, for the table of the team that is selected.  The position of a    *)
(* column, from 0, is compared with the number of a kind of column.        *)

ColName == 1
ColMeta == 5

(* isSelf asks whether the row is the last one, or comes after it.         *)
CellStyle(row, pos) ==
  LET isSelf == row >= Len(rows) /\ rows[row].sid = "self" IN
  IF row = CurrentRowIndex /\ pos # ColMeta
  THEN IF pos = ColName /\ isSelf THEN "self" ELSE "selected"
  ELSE "plain"

-----------------------------------------------------------------------------
(* A team of any players, who differ in one respect.                       *)

Plain == [sid |-> "none", listed |-> TRUE, name |-> 1, persona |-> 0, score |-> 0, deaths |-> 0,
          ping |-> 0, loss |-> 0, bans |-> 0, vacs |-> 0, comp |-> FALSE, host |-> <<0>>,
          port |-> <<0>>]

Scorer(l, s)  == [Plain EXCEPT !.listed = l, !.score = s]
Named(n, q)   == [Plain EXCEPT !.name = n, !.persona = q]
Pinging(s)    == [Plain EXCEPT !.ping = s, !.deaths = MaxKey - s, !.loss = MaxKey - s]
Banned(b, v)  == [Plain EXCEPT !.bans = b, !.vacs = v, !.comp = (b = 0)]
Located(h, p) == [Plain EXCEPT !.host = h, !.port = p]

Keys == 0 .. MaxKey

Kinds ==
  { {Scorer(l, s) : l \in BOOLEAN, s \in Keys}, {Named(n, q) : n \in Keys, q \in Keys},
    {Pinging(s) : s \in Keys}, {Banned(b, v) : b \in Keys, v \in Keys},
    {Located(h, p) : h \in {<<0>>, <<0, MaxKey>>}, p \in {<<0>>, <<MaxKey>>}} }

(* The first n players.                                                    *)
RostersOf(n) ==
  LET order == SetToSeq(TableSIDs) IN
  UNION {{[i \in 1 .. n |-> [keys[i] EXCEPT !.sid = order[i]]] : keys \in [1 .. n -> kind]}
           : kind \in Kinds}

(* All are there, or all but the last of them, or nobody.                  *)
Rosters == UNION {RostersOf(n) : n \in {0, Cardinality(TableSIDs) - 1, Cardinality(TableSIDs)} \cap Nat}

(* What a snapshot brings after the last one: the same players, one who    *)
(* comes or goes, or nobody any more; and then any.                        *)
NextRosters ==
  IF roster = <<>> THEN Rosters ELSE {r \in Rosters : IsPrefix(r, roster) \/ IsPrefix(roster, r)}

PlayersInit ==
  /\ roster = <<>>
  /\ serverMode \in BOOLEAN
  /\ rows = <<>>
  /\ sortColumn = "score" /\ asc = TRUE
  /\ selected = "none"
  /\ clicked = 0

PlayersNext ==
  \/ \E players \in NextRosters : UpdatePlayers(players)
  \/ \E row \in 1 .. Len(roster) : ClickRow(row)
  \/ \E h \in DOMAIN EnabledColumns : ClickHeader(h)

PlayersSpec == PlayersInit /\ [][PlayersNext]_playerVars

-----------------------------------------------------------------------------
(* Properties.                                                             *)

(* The rows are those of the team in the last snapshot, each once, in the  *)
(* order that the header stands for, whatever was clicked before.          *)
RowsInOrder ==
  /\ \A i, j \in DOMAIN rows : i < j =>
       IF asc THEN ~Before(sortColumn, rows[i], rows[j]) ELSE ~Before(sortColumn, rows[j], rows[i])
  /\ ToSet(rows) = ToSet(OfTeam(roster))
  /\ Len(rows) = Len(OfTeam(roster))

(* The rows of which the cell at the position shows the same are next to   *)
(* each other.                                                             *)
Together(col) ==
  \A i, j, k \in DOMAIN rows : i < j /\ j < k /\ CellAt(i, col) = CellAt(k, col) => CellAt(j, col) = CellAt(i, col)

(* The cells below the header that was clicked last are in order as they   *)
(* are read, though they are not what was compared: the players of one     *)
(* host are together, whatever their ports and though 10 comes before 1;   *)
(* those with a ban icon are together; names and numbers go up or down,    *)
(* players without a name at one end.                                      *)
CellsInOrder ==
  clicked # 0 =>
    LET col == EnabledColumns[clicked] IN
    CASE col = "address" -> Together(clicked)
      [] col = "meta" ->
           \A i, j, k \in DOMAIN rows : i < j /\ j < k =>
             LET clean(r) == CellAt(r, clicked) \cap {"bans", "vac"} = {} IN
             clean(i) = clean(k) => clean(j) = clean(i)
      [] OTHER ->
           \A i, j \in DOMAIN rows :
             LET a == CellAt(i, clicked)
                 b == CellAt(j, clicked)
                 named == col = "name" => a[1] = "name" /\ b[1] = "name"
                 less  == IF col = "name" THEN a[2] < b[2] ELSE a < b IN
             i < j /\ named => (less => ~asc)

(* Sorting moves the highlight with the player: the cells drawn as         *)
(* selected are those of the row of the selected player, all of its cells. *)
(* His own row the user sees marked only if it is the last one.            *)
HighlightIsOneRow ==
  /\ \A row \in DOMAIN rows : \A pos \in 0 .. Len(EnabledColumns) - 1 :
       CellStyle(row, pos) # "plain" <=> rows[row].sid = selected
  /\ \A row \in DOMAIN rows : CellStyle(row, ColName) = "self" =>
       rows[row].sid = selected /\ row = Len(rows)

(* Whatever was clicked and in whichever mode, the table shows the players *)
(* of the team, each once; the column that was clicked can be read in      *)
(* order, and the highlight is on the selected player.                     *)
PlayerTableReads ==
  /\ RowsInOrder
  /\ CellsInOrder
  /\ HighlightIsOneRow

=============================================================================
