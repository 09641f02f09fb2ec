------------------------------- MODULE Tables -------------------------------
(***************************************************************************)
(* internal/ui: the table of servers and the league history.               *)
(*                                                                         *)
(* Both are sorted with slices.SortStableFunc and a comparison that is no  *)
(* order, and reversed.  The snapshots make a new table of servers, sorted *)
(* by name; a click on a mark sorts the rows where they are.  The country  *)
(* of a server is looked up when it starts and is "" until then.  The      *)
(* league history is sorted in the slice that all copies of the player     *)
(* share, each time the player is selected.                                *)
(***************************************************************************)
EXTENDS Sorting

CONSTANTS Countries,  \* the codes of countries that the database has
          FleetSize,  \* the number of servers
          MaxCell,    \* bound: the values in a column
          MaxStints,  \* bound: the teams of a player
          MaxTime     \* bound: the times at which a team is joined or left

(* The country of a server before it is looked up, and without one.        *)
NoCountry == ""

ASSUME TablesAssumption ==
  /\ FleetSize \in Nat /\ MaxCell \in Nat /\ MaxStints \in Nat /\ MaxTime \in Nat
  /\ NoCountry \notin Countries

VARIABLES
  fleet,    \* the snapshots of the servers, as they are sent
  servers,  \* serverTableData: rows, column and asc
  career,   \* the player's CompetitiveTeams
  shown     \* history: the player was selected

tableVars == <<fleet, servers, career, shown>>

-----------------------------------------------------------------------------
(* The country of a server, and its flag.                                  *)

(* geoip.Lookup and the lower-case code of the country, "" without one:    *)
(* the resolver may fail, and not all addresses are in the database.       *)
Lookup(place) == {place, NoCountry}

(* resolveCountry, once, by onStart.                                       *)
ResolveCountry(i) ==
  /\ fleet[i].region = NoCountry
  /\ \E cc \in Lookup(fleet[i].place) : fleet' = [fleet EXCEPT ![i].region = cc]
  /\ UNCHANGED <<servers, career, shown>>

(* styles.Flag: a code that it does not know has the flag of Kosovo.       *)
Flag(cc) == IF cc \in Countries THEN cc ELSE "xk"

FlagAt(row) == Flag(servers.rows[row].region)

-----------------------------------------------------------------------------
(* serverTableData.  Its Sort compares two things of each server, the      *)
(* players listed since a dump and those of the status.                    *)

ServerBefore(col, a, b) ==
  CASE col = "players"  -> a.dumped < b.status
    [] col = "connects" -> a.connects < b.connects
    [] OTHER            -> a.name < b.name

(* Mutated form of SortServers: downwards is upwards.                      *)
SortServersUp(list, col, up) == StableSort(list, {p \in Pairs(list) : ServerBefore(col, p[1], p[2])})

SortServers(list, col, up) ==
  LET s == StableSort(list, {p \in Pairs(list) : ServerBefore(col, p[1], p[2])}) IN
  IF up THEN Reverse(s) ELSE s

(* The marks that Update asks for, and their columns; only those of the    *)
(* three that can be met are kept.                                         *)
MarkIDs == [n |-> "name", pl |-> "players", co |-> "connects"]

(* The marks that Headers and At draw: the headers have other names, and a *)
(* flag has that of its country.                                           *)
HeaderZones == {"server", "players", "conns"}

Zones == HeaderZones \cup {servers.rows[i].region : i \in DOMAIN servers.rows}

(* []Snapshot: the table starts afresh.                                    *)
UpdateServers ==
  /\ servers' = [rows |-> SortServers(fleet, "name", TRUE), column |-> "name", asc |-> TRUE]
  /\ UNCHANGED <<fleet, career, shown>>

(* A click on something that is marked and is not the name of a server.    *)
ClickServerZone(zone) ==
  /\ zone \in Zones
  /\ IF zone \in DOMAIN MarkIDs
     THEN LET col == MarkIDs[zone] IN
          servers' = [rows |-> SortServers(servers.rows, col, ~servers.asc), column |-> col,
                      asc |-> ~servers.asc]
     ELSE UNCHANGED servers
  /\ UNCHANGED <<fleet, career, shown>>

-----------------------------------------------------------------------------
(* tableCompModel.  A stint in a team that was not left is left at 0.      *)

(* Mutated form of EarlierStint: a swap of the two times.                  *)
EarlierStintSwapped(a, b) == a.left < b.joined

(* JoinedTeam of the one is compared with LeftTeam of the other.           *)
EarlierStint(a, b) == a.joined < b.left

SelectPlayer ==
  /\ career' = Reverse(StableSort(career, {p \in Pairs(career) : EarlierStint(p[1], p[2])}))
  /\ shown' = TRUE
  /\ UNCHANGED <<fleet, servers>>

-----------------------------------------------------------------------------
(* Any servers, or a player with any history.  The list of a server's      *)
(* players and its status differ either way: players who left are listed   *)
(* until they time out, players who came are not before the next dump.     *)

Fleets ==
  [1 .. FleetSize ->
     {s \in [name : 0 .. MaxCell, place : Countries, region : {NoCountry}, dumped : 0 .. MaxCell,
             status : 0 .. MaxCell, connects : 0 .. MaxCell] :
        s.connects = MaxCell - s.name}]

Stints == {s \in [joined : 1 .. MaxTime, left : 0 .. MaxTime] : s.left = 0 \/ s.joined < s.left}

Careers == UNION {[1 .. n -> Stints] : n \in 0 .. MaxStints}

TablesInit ==
  /\ \/ fleet \in Fleets /\ career = <<>>
     \/ fleet = <<>> /\ career \in Careers
  /\ servers = [rows |-> <<>>, column |-> "name", asc |-> TRUE]
  /\ shown = FALSE

TablesNext ==
  \/ \E i \in DOMAIN fleet : ResolveCountry(i)
  \/ UpdateServers
  \/ \E zone \in HeaderZones \cup Countries : ClickServerZone(zone)
  \/ SelectPlayer

TablesSpec == TablesInit /\ [][TablesNext]_tableVars

-----------------------------------------------------------------------------
(* Properties.                                                             *)

(* No header of the server table sorts it, only the flags of two countries *)
(* do; then too the rows are the servers, in the order of the column,      *)
(* unless a list and a status differ in how many play on a server.         *)
ServersInOrder ==
  LET list == servers.rows IN
  /\ servers.column # "name" => \E i \in DOMAIN list : list[i].region \in {"pl", "co"}
  /\ list # <<>> =>
       \E f \in [DOMAIN list -> DOMAIN fleet] :
         /\ IsInjective(f)
         /\ \A i \in DOMAIN list : list[i] \in {fleet[f[i]], [fleet[f[i]] EXCEPT !.region = NoCountry]}
  /\ (\A i \in DOMAIN list : list[i].dumped = list[i].status) =>
       \A i, j \in DOMAIN list : i < j =>
         ~ IF servers.asc THEN ServerBefore(servers.column, list[i], list[j])
                          ELSE ServerBefore(servers.column, list[j], list[i])

(* A flag in the table is that of the country of the server in its row,    *)
(* whatever the rows were sorted by, or Kosovo's when it is not known.     *)
FlagsAreTrue ==
  \A row \in DOMAIN servers.rows : FlagAt(row) \in {servers.rows[row].place, "xk"}

(* The table of servers: all of them in the order of the column, each with *)
(* its own flag.                                                           *)
ServerTableReads == ServersInOrder /\ FlagsAreTrue

(* Teams that were left, one after the other.                              *)
OneAfterTheOther(s) ==
  /\ \A i \in DOMAIN s : s[i].left # 0
  /\ \A i, j \in DOMAIN s : i # j => s[i].left <= s[j].joined \/ s[j].left <= s[i].joined

(* The league history is shown with the latest team first, though it is    *)
(* sorted by comparing the start of one with the end of another: for a     *)
(* player who has left all of his teams and was never in two at a time.    *)
LatestTeamFirst ==
  shown /\ OneAfterTheOther(career) =>
    \A i, j \in DOMAIN career : i < j => career[j].joined <= career[i].joined

=============================================================================
