------------------------------- MODULE DumpText -----------------------------
(***************************************************************************)
(* What is made of the answers of a game server: Fetcher.Fetch of the      *)
(* answer to "status;stats" in server mode and to "g15_dumpplayer" in      *)
(* client mode.                                                            *)
(*                                                                         *)
(* Lines are records of what the patterns take from them.  Of the fields   *)
(* of a dump the model keeps one per kind of value; of a SteamID the       *)
(* number of the account that it is made of, 0 for none.  The server hands *)
(* out user IDs in increasing order and lists its players by slot.         *)
(***************************************************************************)
EXTENDS Naturals, Integers, SequencesExt

CONSTANTS MaxPlayerCount,  \* tf.MaxPlayerCount
          MaxUserID,       \* bound: players who ever join
          MaxReply         \* bound: lines of an answer

ASSUME DumpAssumption ==
  MaxPlayerCount \in Nat /\ MaxUserID \in Nat /\ MaxReply \in Nat

VARIABLES
  slots,   \* the server's slots: a user ID, or 0
  joined,  \* how many user IDs have been given out
  dump,    \* the user IDs of the last dump by index
  reply,   \* the lines of the answer that were scanned
  g15,     \* parsePlayerState's data: field and index to value
  scan     \* where it is: "scanning", "failed" or "panicked"

dumpVars == <<slots, joined, dump, reply, g15, scan>>

-----------------------------------------------------------------------------
(* Server mode.  lastStatus and lastUpdate are set in a copy of the        *)
(* Fetcher, so that every Fetch starts from nothing.                       *)

JoinServer ==
  \E s \in DOMAIN slots :
    /\ slots[s] = 0 /\ joined < MaxUserID
    /\ joined' = joined + 1
    /\ slots' = [slots EXCEPT ![s] = joined']
    /\ UNCHANGED <<dump, reply, g15, scan>>

LeaveServer ==
  \E s \in DOMAIN slots :
    /\ slots[s] # 0
    /\ slots' = [slots EXCEPT ![s] = 0]
    /\ UNCHANGED <<joined, dump, reply, g15, scan>>

(* Mutated form of SortedByUserID: in the order of their slots.            *)
AsListed == SelectSeq(slots, LAMBDA u : u # 0)

Listed == {slots[s] : s \in DOMAIN slots} \ {0}

(* The players sorted by UserID, each into the arrays at its index.        *)
SortedByUserID ==
  CHOOSE d \in [1 .. Cardinality(Listed) -> Listed] :
    \A i, j \in DOMAIN d : i < j => d[i] < d[j]

(* "We have no way of knowing their real teams in server mode."            *)
TeamAt(idx) == IF idx % 2 = 0 THEN "BLU" ELSE "RED"

(* A status that does not parse is logged: the dump is empty.  More        *)
(* players than MaxPlayerCount are an index out of range.                  *)
OnStatus ==
  /\ scan # "panicked"
  /\ dump' \in {SortedByUserID, <<>>}
  /\ scan' = IF Len(dump') > MaxPlayerCount THEN "panicked" ELSE scan
  /\ UNCHANGED <<slots, joined, reply, g15>>

-----------------------------------------------------------------------------
(* Client mode: parsePlayerState.                                          *)

Fields  == {"m_iUserID", "m_iAccountID", "m_bValid"}
Indices == 0 .. MaxPlayerCount - 1
Texts   == {"", "1", "true"}
Huge    == MaxPlayerCount + 1  \* an index that does not fit into 32 bits

(* A line that is none of the pattern's, and those that are.               *)
Junk     == [field |-> "none", index |-> 0, text |-> ""]
G15Lines == {Junk} \cup [field : Fields, index : 0 .. Huge, text : Texts]

parseInt(text, def) == IF text = "1" THEN 1 ELSE def
parseBool(text)     == text \in {"1", "true"}

IndexOf(line) == IF line.index = Huge THEN -1 ELSE line.index

Value(line) ==
  CASE line.field = "m_iUserID"    -> parseInt(line.text, -1)
    [] line.field = "m_iAccountID" -> parseInt(line.text, 0)
    [] line.field = "m_bValid"     -> IF parseBool(line.text) THEN 1 ELSE 0

Skips(line) == line.field = "none" \/ IndexOf(line) < 0

ScanLine ==
  /\ scan = "scanning" /\ Len(reply) < MaxReply
  /\ \E line \in G15Lines :
       /\ reply' = Append(reply, line)
       /\ \/ Skips(line) /\ UNCHANGED <<g15, scan>>
          \/ /\ ~Skips(line) /\ IndexOf(line) \in Indices
             /\ g15' = [g15 EXCEPT ![line.field][line.index] = Value(line)]
             /\ UNCHANGED scan
          \/ /\ ~Skips(line) /\ IndexOf(line) \notin Indices
             /\ scan' = "panicked" /\ UNCHANGED g15
  /\ UNCHANGED <<slots, joined, dump>>

(* A line too long for the Scanner ends it: what there is so far is the    *)
(* dump, and the error is logged.                                          *)
ScanFails ==
  /\ scan = "scanning" /\ reply # <<>>
  /\ scan' = "failed"
  /\ UNCHANGED <<slots, joined, dump, reply, g15>>

-----------------------------------------------------------------------------

DumpInit ==
  /\ slots \in {[s \in 1 .. n |-> 0] : n \in {MaxPlayerCount, MaxPlayerCount + 1}}
  /\ joined = 0
  /\ dump = <<>>
  /\ reply = <<>>
  /\ g15 = [f \in Fields |-> [i \in Indices |-> 0]]
  /\ scan = "scanning"

StatusNext == JoinServer \/ LeaveServer \/ OnStatus
G15Next    == ScanLine \/ ScanFails

DumpSpec == DumpInit /\ [][StatusNext \/ G15Next]_dumpVars

-----------------------------------------------------------------------------
(* Properties.                                                             *)

TeamsIn(d) == [u \in ToSet(d) |-> TeamAt(CHOOSE i \in 0 .. Len(d) - 1 : d[i + 1] = u)]

(* Fetch in server mode: the made-up teams follow from the place in the    *)
(* sorted dump.  As long as nobody leaves, whoever joins, in whichever     *)
(* slot, and whatever else the answer says, nobody changes sides.          *)
JoinsKeepTeams ==
  [][dump # <<>> /\ ToSet(dump) \subseteq ToSet(dump')
       => \A u \in ToSet(dump) : TeamsIn(dump')[u] = TeamsIn(dump)[u]]_dumpVars

(* parsePlayerState: whatever the order of the lines, and whatever is in   *)
(* between, a field of a player is what the last line for it says, zero    *)
(* without one; also after a line that ended the scan or the program.      *)
LastLineCounts ==
  \A f \in Fields, i \in Indices :
    LET of == {k \in DOMAIN reply : reply[k].field = f /\ reply[k].index = i} IN
    g15[f][i] = IF of = {} THEN 0 ELSE Value(reply[Max(of)])

(* What Fetch returns in either mode: of the lines of a dump the last one  *)
(* for each field, and of a status teams that do not change because        *)
(* somebody joins.                                                         *)
DumpsAreTrue == []LastLineCounts /\ JoinsKeepTeams

=============================================================================
