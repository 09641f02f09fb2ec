------------------------- MODULE ServerStateProofs --------------------------
(***************************************************************************)
(* Proofs about ServerState, for any set of players and any bounds.        *)
(***************************************************************************)
EXTENDS ServerState, SequenceTheorems, TLAPS

-----------------------------------------------------------------------------
(* Facts about the slice operations.                                       *)

(* A function on 1..n is a sequence of length n.                           *)
LEMMA FunctionIsSeq ==
  ASSUME NEW S, NEW n \in Nat, NEW f \in [1..n -> S]
  PROVE  f \in Seq(S) /\ Len(f) = n
<1>1. f \in Seq(S)
  BY SeqDef
<1>2. DOMAIN f = 1..Len(f) /\ Len(f) \in Nat
  BY <1>1, LenProperties
<1> QED BY <1>1, <1>2

(* The part of TypeOK that is about the player list and its snapshots.     *)
ListOK ==
  /\ players \in Seq(Row)
  /\ snaps \in [Readers -> Snap]
  /\ \A r \in Readers : snaps[r].len <= Len(RowsUnder(r))

(* Moving s.players to another array leaves every snapshot the rows it     *)
(* had: MoveTo freezes what is under it.                                   *)
LEMMA MoveToOK ==
  ASSUME ListOK, NEW rows \in Seq(Row), MoveTo(rows)
  PROVE  /\ ListOK'
         /\ \A r \in Readers : /\ snaps'[r].len = snaps[r].len
                               /\ \A i \in 1..snaps[r].len :
                                    RowsUnder(r)'[i] = RowsUnder(r)[i]
<1>1. snaps' \in [Readers -> Snap]
  BY DEF MoveTo, ListOK, Snap
<1>2. ASSUME NEW r \in Readers
      PROVE  /\ snaps'[r].len = snaps[r].len
             /\ snaps'[r].len <= Len(RowsUnder(r)')
             /\ \A i \in 1..snaps[r].len : RowsUnder(r)'[i] = RowsUnder(r)[i]
  BY DEF MoveTo, ListOK, Snap, RowsUnder
<1> QED BY <1>1, <1>2 DEF ListOK, MoveTo

(* Overwriting keeps the length and the player of every slot.              *)
LEMMA OverwriteOK ==
  ASSUME ListOK, NEW row \in Row, Overwrite(row)
  PROVE  /\ ListOK'
         /\ Len(players') = Len(players)
         /\ \A i \in 1..Len(players) :
              players'[i] = IF players[i].sid = row.sid THEN row ELSE players[i]
<1>1. /\ Len(players) \in Nat
      /\ DOMAIN players = 1..Len(players)
      /\ \A i \in 1..Len(players) : players[i] \in Row
  BY DEF ListOK
<1>2. players' \in [1..Len(players) -> Row]
  BY <1>1 DEF Overwrite
<1>3. players' \in Seq(Row) /\ Len(players') = Len(players)
  BY <1>1, <1>2, FunctionIsSeq
<1>4. ListOK'
  BY <1>3 DEF Overwrite, ListOK, RowsUnder, Snap
<1> QED BY <1>1, <1>3, <1>4 DEF Overwrite

(* Appending keeps what is there, and adds the row at the end.             *)
LEMMA AppendPlayerOK ==
  ASSUME ListOK, NEW row \in Row, AppendPlayer(row)
  PROVE  /\ ListOK'
         /\ players' = Append(players, row)
<1>1. players' = Append(players, row) /\ Append(players, row) \in Seq(Row)
  BY DEF AppendPlayer, MoveTo, ListOK
<1>2. CASE UNCHANGED snaps
  BY <1>1, <1>2 DEF ListOK, RowsUnder, Snap
<1>3. CASE MoveTo(Append(players, row))
  BY <1>1, <1>3, MoveToOK
<1> QED BY <1>1, <1>2, <1>3 DEF AppendPlayer

(* What one iteration of setPlayer, or a sweep, may do to the rows a       *)
(* reader still has to walk over: nothing, or replace one by row.          *)
Keeps(r, row) ==
  /\ snaps'[r].len = snaps[r].len
  /\ \A i \in 1..snaps[r].len :
       /\ RowsUnder(r)'[i].sid = RowsUnder(r)[i].sid
       /\ RowsUnder(r)'[i] \in {RowsUnder(r)[i], row}

(* One iteration of setPlayer, whatever the state of `existing`: no slot   *)
(* changes hands, and a list without duplicates stays without duplicates.  *)
LEMMA SetPlayerOK ==
  ASSUME ListOK, NEW row \in Row, NEW seen \in BOOLEAN, SetPlayer(row, seen)
  PROVE  /\ ListOK'
         /\ Len(players) <= Len(players')
         /\ \A i \in 1..Len(players) : /\ players'[i].sid = players[i].sid
                                       /\ players'[i] \in {players[i], row}
         /\ \A i \in 1..Len(players') : i > Len(players) => players'[i] = row
         /\ \A r \in Readers : Keeps(r, row)
         /\ UniqueSIDs => UniqueSIDs'
<1>0. \A r \in Readers : snaps[r].len \in Nat
  BY DEF ListOK, Snap
<1>1. CASE Slots(row.sid) # {} /\ Overwrite(row)
  <2>1. /\ ListOK'
        /\ Len(players') = Len(players)
        /\ \A i \in 1..Len(players) :
             players'[i] = IF players[i].sid = row.sid THEN row ELSE players[i]
    BY <1>1, OverwriteOK
  <2>2. \A i \in 1..Len(players) : players'[i].sid = players[i].sid
    BY <2>1
  <2>3. UniqueSIDs => UniqueSIDs'
    BY <2>1, <2>2 DEF UniqueSIDs, ListOK
  <2>4. \A r \in Readers : Keeps(r, row)
    BY <1>0, <1>1, <2>1, <2>2 DEF Overwrite, Keeps, RowsUnder, ListOK
  <2> QED BY <2>1, <2>2, <2>3, <2>4 DEF ListOK
<1>2. CASE Slots(row.sid) = {} /\ ~seen /\ AppendPlayer(row)
  <2>1. ListOK' /\ players' = Append(players, row)
    BY <1>2, AppendPlayerOK
  <2>2. /\ Len(players') = Len(players) + 1
        /\ \A i \in 1..Len(players) : players'[i] = players[i]
        /\ players'[Len(players) + 1] = row
    BY <2>1 DEF ListOK
  <2>3. \A i \in 1..Len(players) : players[i].sid # row.sid
    BY <1>2 DEF Slots, ListOK
  <2>4. UniqueSIDs => UniqueSIDs'
    BY <2>1, <2>2, <2>3 DEF UniqueSIDs, ListOK
  <2>5. \A r \in Readers : Keeps(r, row)
    <3>1. CASE UNCHANGED snaps
      BY <1>0, <2>2, <3>1 DEF Keeps, RowsUnder, ListOK
    <3>2. CASE MoveTo(Append(players, row))
      <4>1. Append(players, row) \in Seq(Row)
        BY DEF ListOK
      <4> QED BY <3>2, <4>1, MoveToOK DEF Keeps
    <3> QED BY <1>2, <3>1, <3>2 DEF AppendPlayer
  <2> QED BY <2>1, <2>2, <2>4, <2>5 DEF ListOK
<1>3. CASE Slots(row.sid) = {} /\ seen /\ UNCHANGED listVars
  BY <1>3 DEF ListOK, UniqueSIDs, RowsUnder, listVars, Keeps
<1> QED BY <1>1, <1>2, <1>3 DEF SetPlayer

-----------------------------------------------------------------------------
(* Type correctness.                                                       *)

(* Each step of onStart leads to the next one, the last to the select.     *)
LEMMA OnStartThenOK ==
  ASSUME NEW step \in DOMAIN OnStartThen
  PROVE  OnStartThen[step] \in DOMAIN OnStartThen \cup {"select"}
BY DEF OnStartThen

(* player() returns a row of that player.                                  *)
LEMMA PlayerOrNewOK ==
  ASSUME ListOK, UniqueSIDs, NEW sid \in SteamIDs
  PROVE  /\ PlayerOrNew(sid) \in Row
         /\ PlayerOrNew(sid).sid = sid
         /\ \/ PlayerOrNew(sid) = NewPlayer(sid) /\ Slots(sid) = {}
            \/ \E i \in DOMAIN players : PlayerOrNew(sid) = players[i]
<1>1. CASE Slots(sid) = {}
  BY <1>1 DEF PlayerOrNew, NewPlayer, Row, Never
<1>2. CASE Slots(sid) # {}
  <2>1. PICK k \in Slots(sid) : TRUE
    BY <1>2
  <2>2. \E i \in Slots(sid) : \A j \in Slots(sid) : i <= j
    BY <2>1 DEF UniqueSIDs, Slots, ListOK
  <2>3. PICK i \in Slots(sid) : PlayerOrNew(sid) = players[i]
    BY <1>2, <2>2 DEF PlayerOrNew
  <2> QED BY <2>3 DEF Slots, ListOK
<1> QED BY <1>1, <1>2

(* removeExpired builds a list without duplicates out of one, from rows    *)
(* that were in it, and touches nothing a reader walks over.               *)
LEMMA RemoveExpiredOK ==
  ASSUME ListOK, UniqueSIDs, RemoveExpired
  PROVE  /\ ListOK'
         /\ UniqueSIDs'
         /\ \A i \in DOMAIN players' : \E k \in Survivors : players'[i] = players[k]
         /\ \A k \in Survivors : \E i \in DOMAIN players' : players'[i] = players[k]
         /\ \A r \in Readers :
              /\ snaps'[r].len = snaps[r].len
              /\ \A i \in 1..snaps[r].len : RowsUnder(r)'[i] = RowsUnder(r)[i]
<1>0. PICK n \in 0..Len(players) : \E order \in [1..n -> Survivors] :
        /\ Enumerates(order, Survivors)
        /\ MoveTo([i \in 1..n |-> players[order[i]]])
  BY DEF RemoveExpired
<1>1. PICK order \in [1..n -> Survivors] :
        /\ Enumerates(order, Survivors)
        /\ MoveTo([i \in 1..n |-> players[order[i]]])
  BY <1>0
<1> DEFINE rows == [i \in 1..n |-> players[order[i]]]
<1>2. n \in Nat /\ \A i \in 1..n : order[i] \in DOMAIN players
  BY DEF Survivors, ListOK
<1>3. rows \in [1..n -> Row]
  BY <1>2 DEF ListOK
<1>4. rows \in Seq(Row) /\ Len(rows) = n
  BY <1>2, <1>3, FunctionIsSeq
<1>5. /\ ListOK' /\ players' = rows
      /\ \A r \in Readers :
           /\ snaps'[r].len = snaps[r].len
           /\ \A i \in 1..snaps[r].len : RowsUnder(r)'[i] = RowsUnder(r)[i]
  BY <1>1, <1>4, MoveToOK DEF MoveTo
<1>6. \A i, j \in 1..n : order[i] = order[j] => i = j
  <2>1. \A i, j \in 1..n : i < j => order[i] < order[j]
    BY <1>1 DEF Enumerates
  <2>2. \A i \in 1..n : order[i] \in Nat
    BY <1>2 DEF ListOK
  <2> QED BY <2>1, <2>2, <1>2
<1>7. UniqueSIDs'
  BY <1>2, <1>4, <1>5, <1>6 DEF UniqueSIDs
<1>8. /\ \A i \in DOMAIN players' : \E k \in Survivors : players'[i] = players[k]
      /\ \A k \in Survivors : \E i \in DOMAIN players' : players'[i] = players[k]
  BY <1>1, <1>5 DEF Enumerates
<1> QED BY <1>5, <1>7, <1>8

(* A torn copy is still a row of the player whose slot it was taken from.  *)
LEMMA CopiesOK ==
  ASSUME TypeOK, NEW i \in 1..snaps["bd"].len, NEW row \in Copies(i)
  PROVE  /\ row \in Row
         /\ RowsUnder("bd")[i] \in Row
         /\ \/ row = RowsUnder("bd")[i]
            \/ batch["dump"] # <<>> /\ row = Head(batch["dump"])
            \/ /\ row.sid = RowsUnder("bd")[i].sid
               /\ row.bd = RowsUnder("bd")[i].bd
               /\ RowsUnder("bd")[i].g15 = Never
               /\ row.g15 = 1
<1>1. RowsUnder("bd") \in Seq(Row)
  BY DEF TypeOK, Readers, RowsUnder, Snap
<1>2. RowsUnder("bd")[i] \in Row
  BY <1>1 DEF TypeOK, Readers, Snap
<1>3. batch["dump"] # <<>> => Head(batch["dump"]) \in Row
  BY DEF TypeOK, Goroutines
<1> DEFINE old == RowsUnder("bd")[i]
           torn == [old EXCEPT !.g15 = IF @ = Never THEN 1 ELSE @]
<1>4. \/ row = old
      \/ batch["dump"] # <<>> /\ row = Head(batch["dump"])
      \/ row = torn
  BY DEF Copies
<1>5. torn \in Row /\ torn.sid = old.sid /\ torn.bd = old.bd
      /\ torn.g15 = IF old.g15 = Never THEN 1 ELSE old.g15
  BY <1>2 DEF Row
<1>6. old.g15 # Never => torn = old
  BY <1>2 DEF Row
<1> QED BY <1>2, <1>3, <1>4, <1>5, <1>6

(* The inductive step of type correctness and uniqueness.                  *)
LEMMA TypeStep ==
  ASSUME TypeOK, UniqueSIDs, [Next]_vars
  PROVE  TypeOK' /\ UniqueSIDs'
<1> USE DEF listVars, tickVars, uiVars, loopVars, envVars
<1>0. ListOK /\ lists \in Nat /\ now \in Nat
  BY ConstantsAssumption DEF TypeOK, ListOK
<1>1. ASSUME NEW g \in Goroutines, Lock(g)
      PROVE  TypeOK' /\ UniqueSIDs'
  BY <1>1 DEF Lock, TypeOK, UniqueSIDs, RowsUnder, PCs, Goroutines
<1>2. ASSUME NEW g \in Goroutines, Write(g)
      PROVE  TypeOK' /\ UniqueSIDs'
  <2>1. Head(batch[g]) \in Row /\ Tail(batch[g]) \in Seq(Row)
    BY <1>2 DEF Write, TypeOK
  <2>2. ListOK' /\ UniqueSIDs'
    BY <1>0, <1>2, <2>1, SetPlayerOK DEF Write, TypeOK
  <2>3. existing' \in [Goroutines -> BOOLEAN] /\ batch' \in [Goroutines -> Seq(Row)]
    BY <1>2, <2>1 DEF Write, TypeOK
  <2> QED BY <1>2, <2>2, <2>3 DEF Write, TypeOK, ListOK
<1>3. ASSUME NEW g \in Goroutines, Unlock(g)
      PROVE  TypeOK' /\ UniqueSIDs'
  BY <1>3 DEF Unlock, TypeOK, UniqueSIDs, RowsUnder, PCs, Goroutines
<1>4. CASE BDSnapshot
  BY <1>4 DEF BDSnapshot, Snapshot, TypeOK, UniqueSIDs, RowsUnder, PCs,
             Goroutines, Readers, Snap
<1>5. CASE BDBuild
  <2>1. PICK row \in Copies(Len(batch["bd"]) + 1) :
          batch' = [batch EXCEPT !["bd"] = Append(@, [row EXCEPT !.bd = lists])]
    BY <1>5 DEF BDBuild
  <2>2. Len(batch["bd"]) + 1 \in 1..snaps["bd"].len
    BY <1>5 DEF BDBuild, TypeOK, Readers, Snap, Goroutines
  <2>3. row \in Row
    BY <2>1, <2>2, CopiesOK
  <2>4. [row EXCEPT !.bd = lists] \in Row
    BY <1>0, <2>3 DEF Row
  <2>5. batch' \in [Goroutines -> Seq(Row)]
    BY <2>1, <2>4 DEF TypeOK, Goroutines
  <2> QED BY <1>5, <2>5 DEF BDBuild, TypeOK, UniqueSIDs, RowsUnder
<1>6. CASE BDBuilt
  BY <1>6 DEF BDBuilt, NoSnap, TypeOK, UniqueSIDs, RowsUnder, PCs,
             Goroutines, Readers, Snap
<1>7. ASSUME NEW res \in Result, Fetched(res), UNCHANGED dumpFetcher
      PROVE  TypeOK' /\ UniqueSIDs'
  BY <1>7 DEF Fetched, TypeOK, UniqueSIDs, RowsUnder, PCs, Goroutines
<1>8. CASE FetchOk
  <2>1. PICK n \in 0..MaxPlayerCount : \E dump \in [1..n -> SteamIDs] :
          Fetched([dump |-> dump, status |-> IF Remote THEN now ELSE Never,
                   err |-> FALSE])
    BY <1>8 DEF FetchOk
  <2>2. PICK dump \in [1..n -> SteamIDs] :
          Fetched([dump |-> dump, status |-> IF Remote THEN now ELSE Never,
                   err |-> FALSE])
    BY <2>1
  <2>3. n \in Nat
    BY ConstantsAssumption
  <2>4. dump \in Seq(SteamIDs)
    BY <2>3, FunctionIsSeq
  <2>5. [dump |-> dump, status |-> IF Remote THEN now ELSE Never,
         err |-> FALSE] \in Result
    BY <2>4 DEF Result, TypeOK, Never
  <2> QED BY <1>7, <1>8, <2>2, <2>5 DEF FetchOk
<1>9. CASE FetchUnparsed
  <2>1. NoResult \in Result
    BY DEF NoResult, Result, Never
  <2> QED BY <1>7, <1>9, <2>1 DEF FetchUnparsed
<1>10. CASE FetchFail
  <2>0. NoResult \in Result
    BY DEF NoResult, Result, Never
  <2>1. [NoResult EXCEPT !.err = TRUE] \in Result
    BY <2>0 DEF Result
  <2>2. [dump |-> dumpFetcher.lastUpdate,
         status |-> dumpFetcher.lastStatus, err |-> FALSE] \in Result
    BY DEF TypeOK, Result
  <2> QED BY <1>7, <1>10, <2>1, <2>2 DEF FetchFail
<1>11. CASE UpdateStatus
  BY <1>11 DEF UpdateStatus, TypeOK, UniqueSIDs, RowsUnder, PCs, Goroutines,
              Result
<1>12. CASE DumpBuild
  <2> DEFINE sid == result.dump[Len(batch["dump"]) + 1]
  <2>1. sid \in SteamIDs
    BY <1>12 DEF DumpBuild, TypeOK, Result, Goroutines
  <2>2. PlayerOrNew(sid) \in Row
    BY <1>0, <2>1, PlayerOrNewOK
  <2>3. [PlayerOrNew(sid) EXCEPT !.g15 = now] \in Row
    BY <1>0, <2>2 DEF Row
  <2>4. batch' = [batch EXCEPT !["dump"] =
                    Append(@, [PlayerOrNew(sid) EXCEPT !.g15 = now])]
    BY <1>12 DEF DumpBuild, TypeOK, Goroutines
  <2> HIDE DEF sid
  <2>5. batch' \in [Goroutines -> Seq(Row)]
    BY <2>3, <2>4 DEF TypeOK, Goroutines
  <2> QED BY <1>12, <2>5 DEF DumpBuild, TypeOK, UniqueSIDs, RowsUnder
<1>13. CASE DumpBuilt
  BY <1>13 DEF DumpBuilt, TypeOK, UniqueSIDs, RowsUnder, PCs, Goroutines
<1>14. CASE OnStart
  BY <1>14, OnStartThenOK DEF OnStart, TypeOK, UniqueSIDs, RowsUnder
<1>15. ASSUME NEW sid \in SteamIDs, OnStatusID(sid)
       PROVE  TypeOK' /\ UniqueSIDs'
  <2>1. ListOK' /\ UniqueSIDs'
    BY <1>0, <1>15, PlayerOrNewOK, SetPlayerOK DEF OnStatusID
  <2> QED BY <1>15, <2>1 DEF OnStatusID, TypeOK, ListOK
<1>16. CASE OnDumpTick
  BY <1>16 DEF OnDumpTick, TypeOK, UniqueSIDs, RowsUnder, PCs, Goroutines
<1>17. CASE DumpTickDone
  <2>1. NoResult \in Result
    BY DEF NoResult, Result, Never
  <2> QED BY <1>17, <2>1 DEF DumpTickDone, TypeOK, UniqueSIDs, RowsUnder
<1>18. CASE RemoveExpired
  <2>1. ListOK' /\ UniqueSIDs'
    BY <1>0, <1>18, RemoveExpiredOK
  <2> QED BY <1>18, <2>1 DEF RemoveExpired, TypeOK, ListOK
<1>19. CASE Stop
  BY <1>19 DEF Stop, TypeOK, UniqueSIDs, RowsUnder
<1>20. CASE UISnapshot
  BY <1>20 DEF UISnapshot, Snapshot, TypeOK, UniqueSIDs, RowsUnder, Readers, Snap
<1>21. CASE UICopy
  <2>1. RowsUnder("ui") \in Seq(Row)
    BY DEF TypeOK, Readers, RowsUnder, Snap
  <2>2. Len(uiRows) + 1 \in 1..Len(RowsUnder("ui"))
    BY <1>21, <2>1 DEF UICopy, TypeOK, Readers, Snap
  <2>3. RowsUnder("ui")[Len(uiRows) + 1].sid \in SteamIDs
    <3>1. RowsUnder("ui")[Len(uiRows) + 1] \in Row
      BY <2>1, <2>2, ElementOfSeq
    <3> QED BY <3>1 DEF Row
  <2>4. uiRows' \in Seq(SteamIDs)
    BY <1>21, <2>3 DEF UICopy, TypeOK
  <2> QED BY <1>21, <2>4 DEF UICopy, TypeOK, UniqueSIDs, RowsUnder
<1>22. CASE UISend
  BY <1>22 DEF UISend, NoSnap, TypeOK, UniqueSIDs, RowsUnder, Readers, Snap
<1>23. CASE Environment
  <2>1. lists' \in 0..NumUpdates /\ now' \in 1..MaxTime /\ ctxDone' \in BOOLEAN
    <3>1. CASE Tick
      BY <3>1, ConstantsAssumption DEF Tick, TypeOK
    <3>2. CASE BDUpdated
      BY <3>2, ConstantsAssumption DEF BDUpdated, TypeOK
    <3>3. CASE Cancel
      BY <3>3 DEF Cancel, TypeOK
    <3> QED BY <1>23, <3>1, <3>2, <3>3 DEF Environment
  <2>2. UNCHANGED othersVars
    BY <1>23 DEF Environment, Tick, BDUpdated, Cancel
  <2> QED BY <2>1, <2>2 DEF othersVars, TypeOK, UniqueSIDs, RowsUnder
<1>24. CASE UNCHANGED vars
  BY <1>24 DEF vars, TypeOK, UniqueSIDs, RowsUnder
<1> QED
  BY <1>1, <1>2, <1>3, <1>4, <1>5, <1>6, <1>8, <1>9, <1>10, <1>11, <1>12,
     <1>13, <1>14, <1>15, <1>16, <1>17, <1>18, <1>19, <1>20, <1>21, <1>22,
     <1>23, <1>24
  DEF Next, Select, UpdateBD, UpdateDump, UpdateUIState, Goroutines

-----------------------------------------------------------------------------
(* Control: where the goroutines can be, and which of their locals are in  *)
(* use there.                                                              *)

Control ==
  /\ OneWriter
  /\ \A g \in Goroutines :
       pc[g] \in {"begin", "status", "done"} => batch[g] = <<>>
  /\ pc["bd"] # "build" => snaps["bd"].len = 0
  /\ ui = "idle" => snaps["ui"].len = 0 /\ uiRows = <<>>
  /\ loop # "dump" => base = <<>>

(* setPlayer and removeExpired replace the list under the readers, and     *)
(* leave them the lengths they have.                                       *)
LEMMA ListStepKeepsLens ==
  ASSUME TypeOK, UniqueSIDs,
         \/ \E row \in Row, seen \in BOOLEAN : SetPlayer(row, seen)
         \/ RemoveExpired
  PROVE  \A r \in Readers : snaps'[r].len = snaps[r].len
<1>1. ListOK
  BY DEF TypeOK, ListOK
<1>2. ASSUME NEW row \in Row, NEW seen \in BOOLEAN, SetPlayer(row, seen)
      PROVE  \A r \in Readers : snaps'[r].len = snaps[r].len
  BY <1>1, <1>2, SetPlayerOK DEF Keeps
<1>3. ASSUME RemoveExpired
      PROVE  \A r \in Readers : snaps'[r].len = snaps[r].len
  BY <1>1, <1>3, RemoveExpiredOK
<1> QED BY <1>2, <1>3

(* Where the goroutines of onDumpTick, the loop and the UI can be is       *)
(* preserved by every step: a goroutine leaves setPlayer as it entered     *)
(* it.                                                                     *)
LEMMA ControlStep ==
  ASSUME TypeOK, UniqueSIDs, Control, [Next]_vars
  PROVE  Control'
<1> USE DEF listVars, tickVars, uiVars, loopVars, envVars
<1>0. ListOK
  BY DEF TypeOK, ListOK
<1>1. ASSUME NEW g \in Goroutines, Lock(g)
      PROVE  Control'
  BY <1>1 DEF Lock, Control, OneWriter, TypeOK, Goroutines
<1>2. ASSUME NEW g \in Goroutines, Write(g)
      PROVE  Control'
  <2>1. \A r \in Readers : snaps'[r].len = snaps[r].len
    <3>1. Head(batch[g]) \in Row /\ existing[g] \in BOOLEAN
      BY <1>2 DEF Write, TypeOK
    <3> QED BY <1>2, <3>1, ListStepKeepsLens DEF Write
  <2> QED BY <1>2, <2>1 DEF Write, Control, OneWriter, TypeOK, Goroutines, Readers
<1>3. ASSUME NEW g \in Goroutines, Unlock(g)
      PROVE  Control'
  BY <1>3 DEF Unlock, Control, OneWriter, TypeOK, Goroutines
<1>4. CASE BDSnapshot
  BY <1>4 DEF BDSnapshot, Control, OneWriter, TypeOK, Goroutines, Readers
<1>5. CASE BDBuild
  BY <1>5 DEF BDBuild, Control, OneWriter, TypeOK, Goroutines
<1>6. CASE BDBuilt
  BY <1>6 DEF BDBuilt, NoSnap, Control, OneWriter, TypeOK, Goroutines, Readers
<1>7. CASE FetchOk \/ FetchUnparsed \/ FetchFail
  <2>1. PICK res : Fetched(res)
    BY <1>7 DEF FetchOk, FetchUnparsed, FetchFail
  <2> QED BY <2>1 DEF Fetched, Control, OneWriter, TypeOK, Goroutines
<1>8. CASE UpdateStatus
  BY <1>8 DEF UpdateStatus, Control, OneWriter, TypeOK, Goroutines
<1>9. CASE DumpBuild
  BY <1>9 DEF DumpBuild, Control, OneWriter, TypeOK, Goroutines
<1>10. CASE DumpBuilt
  BY <1>10 DEF DumpBuilt, Control, OneWriter, TypeOK, Goroutines
<1>11. CASE OnStart
  <2>1. loop # "dump" /\ loop' # "dump"
    BY <1>11 DEF OnStart, OnStartThen
  <2> QED BY <1>11, <2>1 DEF OnStart, Control, OneWriter
<1>12. ASSUME NEW sid \in SteamIDs, OnStatusID(sid)
       PROVE  Control'
  <2>1. \A r \in Readers : snaps'[r].len = snaps[r].len
    BY <1>0, <1>12, PlayerOrNewOK, ListStepKeepsLens DEF OnStatusID
  <2> QED BY <1>12, <2>1 DEF OnStatusID, Control, OneWriter, Readers
<1>13. CASE OnDumpTick
  BY <1>13 DEF OnDumpTick, Control, OneWriter, TypeOK, Goroutines
<1>14. CASE DumpTickDone
  BY <1>14 DEF DumpTickDone, Control, OneWriter, Goroutines
<1>15. CASE RemoveExpired
  <2>1. \A r \in Readers : snaps'[r].len = snaps[r].len
    BY <1>15, ListStepKeepsLens
  <2> QED BY <1>15, <2>1 DEF RemoveExpired, Control, OneWriter, Readers
<1>16. CASE Stop
  BY <1>16 DEF Stop, Control, OneWriter
<1>17. CASE UpdateUIState
  BY <1>17 DEF UpdateUIState, UISnapshot, UICopy, UISend, NoSnap, Control,
              OneWriter, TypeOK, Readers
<1>18. CASE Environment
  BY <1>18 DEF Environment, Tick, BDUpdated, Cancel, othersVars, Control, OneWriter
<1>19. CASE UNCHANGED vars
  BY <1>19 DEF vars, Control, OneWriter
<1> QED
  BY <1>1, <1>2, <1>3, <1>4, <1>5, <1>6, <1>7, <1>8, <1>9, <1>10, <1>11,
     <1>12, <1>13, <1>14, <1>15, <1>16, <1>17, <1>18, <1>19
  DEF Next, Select, UpdateBD, UpdateDump, Goroutines

-----------------------------------------------------------------------------
(* The unlocked readers.                                                   *)

(* What a step can do to a reader: leave it its rows, player by player;    *)
(* end its walk; or start one.                                             *)
LEMMA ReaderStep ==
  ASSUME TypeOK, UniqueSIDs, Control, [Next]_vars, NEW r \in Readers
  PROVE  \/ /\ snaps'[r].len = snaps[r].len
            /\ \A i \in 1..snaps[r].len :
                 RowsUnder(r)'[i].sid = RowsUnder(r)[i].sid
         \/ snaps'[r] = NoSnap /\ (r = "ui" => UISend)
         \/ /\ snaps[r].len = 0 /\ snaps'[r] = Snapshot /\ players' = players
            /\ r = "ui" => UISnapshot
<1> USE DEF listVars, tickVars, uiVars, loopVars, envVars
<1>0. ListOK
  BY DEF TypeOK, ListOK
<1>1. CASE UNCHANGED <<players, snaps>>
  BY <1>1 DEF RowsUnder
<1>2. ASSUME NEW row \in Row, NEW seen \in BOOLEAN, SetPlayer(row, seen)
      PROVE  /\ snaps'[r].len = snaps[r].len
             /\ \A i \in 1..snaps[r].len :
                  RowsUnder(r)'[i].sid = RowsUnder(r)[i].sid
  BY <1>0, <1>2, SetPlayerOK DEF Keeps
<1>3. ASSUME NEW g \in Goroutines, Write(g)
      PROVE  /\ snaps'[r].len = snaps[r].len
             /\ \A i \in 1..snaps[r].len :
                  RowsUnder(r)'[i].sid = RowsUnder(r)[i].sid
  <2>1. Head(batch[g]) \in Row /\ existing[g] \in BOOLEAN
    BY <1>3 DEF Write, TypeOK
  <2> QED BY <1>2, <1>3, <2>1 DEF Write
<1>4. ASSUME NEW sid \in SteamIDs, OnStatusID(sid)
      PROVE  /\ snaps'[r].len = snaps[r].len
             /\ \A i \in 1..snaps[r].len :
                  RowsUnder(r)'[i].sid = RowsUnder(r)[i].sid
  BY <1>0, <1>2, <1>4, PlayerOrNewOK DEF OnStatusID
<1>5. CASE RemoveExpired
  BY <1>0, <1>5, RemoveExpiredOK
<1>6. CASE BDSnapshot
  BY <1>6 DEF BDSnapshot, Control, TypeOK, Readers, RowsUnder
<1>7. CASE BDBuilt
  BY <1>7 DEF BDBuilt, TypeOK, Readers, RowsUnder
<1>8. CASE UISnapshot
  BY <1>8 DEF UISnapshot, Control, TypeOK, Readers, RowsUnder
<1>9. CASE UISend
  BY <1>9 DEF UISend, TypeOK, Readers, RowsUnder
<1>10. \/ UNCHANGED <<players, snaps>>
       \/ \E g \in Goroutines : Write(g)
       \/ \E sid \in SteamIDs : OnStatusID(sid)
       \/ RemoveExpired \/ BDSnapshot \/ BDBuilt \/ UISnapshot \/ UISend
  BY DEF Next, vars, OnStart, Select, OnDumpTick, DumpTickDone, Stop, UpdateBD,
         BDBuild, Lock, Unlock, UpdateDump, FetchOk, FetchUnparsed, FetchFail,
         Fetched, UpdateStatus, DumpBuild, DumpBuilt, UpdateUIState, UICopy,
         Environment, Tick, BDUpdated, Cancel, othersVars, Goroutines
<1> QED BY <1>1, <1>3, <1>4, <1>5, <1>6, <1>7, <1>8, <1>9, <1>10

(* No step changes whose slot it is that a reader has yet to copy.         *)
LEMMA SlotsStep ==
  ASSUME TypeOK, UniqueSIDs, Control, [Next]_vars
  PROVE  \A r \in Readers : \A i \in 1..snaps[r].len :
           snaps'[r].len = snaps[r].len =>
             RowsUnder(r)'[i].sid = RowsUnder(r)[i].sid
<1> SUFFICES ASSUME NEW r \in Readers, NEW i \in 1..snaps[r].len,
                    snaps'[r].len = snaps[r].len
             PROVE  RowsUnder(r)'[i].sid = RowsUnder(r)[i].sid
  OBVIOUS
<1>1. snaps[r].len # 0
  BY DEF TypeOK, Snap
<1>2. snaps'[r] # NoSnap
  BY <1>1 DEF NoSnap
<1> QED BY <1>1, <1>2, ReaderStep

(* The rows under a snapshot are those of different players, and what      *)
(* updateUIState has copied is what is there.                              *)
ReadersInv ==
  /\ \A r \in Readers : \A i, j \in 1..snaps[r].len :
       RowsUnder(r)[i].sid = RowsUnder(r)[j].sid => i = j
  /\ Len(uiRows) <= snaps["ui"].len
  /\ \A i \in 1..Len(uiRows) : uiRows[i] = RowsUnder("ui")[i].sid

(* No step puts a player twice under a snapshot that is being walked       *)
(* without s.mu, nor changes what updateUIState has copied from it.        *)
LEMMA ReadersInvStep ==
  ASSUME TypeOK, UniqueSIDs, Control, ReadersInv, [Next]_vars
  PROVE  ReadersInv'
<1> USE DEF listVars, tickVars, uiVars, loopVars, envVars
<1>1. ASSUME NEW r \in Readers
      PROVE  \A i, j \in 1..snaps'[r].len :
               RowsUnder(r)'[i].sid = RowsUnder(r)'[j].sid => i = j
  <2>1. CASE /\ snaps'[r].len = snaps[r].len
             /\ \A i \in 1..snaps[r].len :
                  RowsUnder(r)'[i].sid = RowsUnder(r)[i].sid
    BY <2>1 DEF ReadersInv
  <2>2. CASE snaps'[r] = NoSnap
    BY <2>2 DEF NoSnap
  <2>3. CASE snaps'[r] = Snapshot /\ players' = players
    <3>1. snaps'[r].len = Len(players) /\ RowsUnder(r)' = players
      BY <2>3 DEF Snapshot, RowsUnder
    <3> QED BY <3>1 DEF UniqueSIDs, TypeOK
  <2> QED BY <2>1, <2>2, <2>3, ReaderStep
<1>2. /\ Len(uiRows') <= snaps'["ui"].len
      /\ \A i \in 1..Len(uiRows') : uiRows'[i] = RowsUnder("ui")'[i].sid
  <2>0. "ui" \in Readers /\ Len(uiRows) \in Nat /\ snaps["ui"].len \in Nat
    BY DEF Readers, TypeOK, Snap
  <2>1. CASE UICopy
    <3>1. uiRows' = Append(uiRows, RowsUnder("ui")[Len(uiRows) + 1].sid)
          /\ Len(uiRows) < snaps["ui"].len
          /\ RowsUnder("ui")' = RowsUnder("ui") /\ snaps' = snaps
      BY <2>1 DEF UICopy, RowsUnder
    <3>2. Len(uiRows') = Len(uiRows) + 1
          /\ \A i \in 1..Len(uiRows) : uiRows'[i] = uiRows[i]
          /\ uiRows'[Len(uiRows) + 1] = RowsUnder("ui")[Len(uiRows) + 1].sid
      BY <3>1, <2>0 DEF TypeOK
    <3> QED BY <2>0, <3>1, <3>2 DEF ReadersInv
  <2>2. CASE UISend
    BY <2>2, <2>0 DEF UISend, NoSnap, TypeOK
  <2>3. CASE UISnapshot
    BY <2>3, <2>0 DEF UISnapshot, Control, Snapshot, TypeOK
  <2>4. CASE uiRows' = uiRows /\ ~UISend /\ ~UISnapshot
    <3>1. /\ snaps'["ui"].len = snaps["ui"].len
          /\ \A i \in 1..snaps["ui"].len :
               RowsUnder("ui")'[i].sid = RowsUnder("ui")[i].sid
      BY <2>0, <2>4, ReaderStep
    <3> QED BY <2>0, <2>4, <3>1 DEF ReadersInv
  <2>5. uiRows' = uiRows \/ UICopy \/ UISend \/ UISnapshot
    BY DEF Next, vars, OnStart, Select, OnStatusID, OnDumpTick, DumpTickDone,
           RemoveExpired, Stop, UpdateBD, BDSnapshot, BDBuild, BDBuilt, Lock,
           Write, Unlock, UpdateDump, FetchOk, FetchUnparsed, FetchFail,
           Fetched, UpdateStatus, DumpBuild, DumpBuilt, UpdateUIState,
           Environment, Tick, BDUpdated, Cancel, othersVars
  <2> QED BY <2>1, <2>2, <2>3, <2>4, <2>5
<1> QED BY <1>1, <1>2 DEF ReadersInv

-----------------------------------------------------------------------------
(* The races of a dump tick.                                               *)

(* A row that is not older than what the tick began with.                  *)
NotOlder(row) ==
  \A k \in DOMAIN base :
    row.sid = base[k].sid => row.g15 >= base[k].g15 /\ row.bd >= base[k].bd

(* A row that does not come from the future.                               *)
Past(row) == row.g15 <= now /\ row.bd <= lists

(* Wherever a row is, in the list, in a batch waiting to be written or in  *)
(* an array a reader walks over, it is from the past and not older than    *)
(* the tick began with; and base is a prefix of the list, player by player.*)
RowsInv ==
  /\ \A i \in DOMAIN players : Past(players[i]) /\ NotOlder(players[i])
  /\ \A g \in Goroutines : \A i \in DOMAIN batch[g] :
       Past(batch[g][i]) /\ NotOlder(batch[g][i])
  /\ \A i \in 1..snaps["bd"].len :
       Past(RowsUnder("bd")[i]) /\ NotOlder(RowsUnder("bd")[i])
  /\ \A k \in DOMAIN base : /\ Past(base[k])
                            /\ k \in DOMAIN players
                            /\ players[k].sid = base[k].sid

(* The strengthened invariant gives TickLosesNothing: it says of every     *)
(* row of the list what TickLosesNothing says of those of the tick.        *)
LEMMA RowsInvImpliesTick ==
  ASSUME RowsInv
  PROVE  TickLosesNothing
BY DEF RowsInv, NotOlder, TickLosesNothing

(* A step that writes a row of the past, not older than base, and leaves   *)
(* base, the clock and the lists alone, preserves RowsInv.                 *)
LEMMA SetPlayerRows ==
  ASSUME TypeOK, RowsInv, NEW row \in Row, NEW seen \in BOOLEAN,
         SetPlayer(row, seen), Past(row), NotOlder(row),
         UNCHANGED <<base, now, lists>>,
         \A g \in Goroutines : batch'[g] = batch[g] \/
                               (batch[g] # <<>> /\ batch'[g] = Tail(batch[g]))
  PROVE  RowsInv'
<1>0. ListOK
  BY DEF TypeOK, ListOK
<1>1. /\ ListOK'
      /\ Len(players) <= Len(players')
      /\ \A i \in 1..Len(players) : /\ players'[i].sid = players[i].sid
                                    /\ players'[i] \in {players[i], row}
      /\ \A i \in 1..Len(players') : i > Len(players) => players'[i] = row
      /\ Keeps("bd", row)
  BY <1>0, SetPlayerOK DEF Readers
<1>2. \A x : Past(x)' <=> Past(x)
  BY DEF Past
<1>3. \A x : NotOlder(x)' <=> NotOlder(x)
  BY DEF NotOlder
<1>4. \A i \in DOMAIN players' : Past(players'[i]) /\ NotOlder(players'[i])
  BY <1>0, <1>1 DEF ListOK, RowsInv
<1>5. \A g \in Goroutines : \A i \in DOMAIN batch'[g] :
        Past(batch'[g][i]) /\ NotOlder(batch'[g][i])
  <2> SUFFICES ASSUME NEW g \in Goroutines, NEW i \in DOMAIN batch'[g]
               PROVE  Past(batch'[g][i]) /\ NotOlder(batch'[g][i])
    OBVIOUS
  <2>1. CASE batch'[g] = batch[g]
    BY <2>1 DEF RowsInv
  <2>2. CASE batch[g] # <<>> /\ batch'[g] = Tail(batch[g])
    <3>1. batch[g] \in Seq(Row)
      BY DEF TypeOK
    <3>2. i + 1 \in DOMAIN batch[g] /\ batch'[g][i] = batch[g][i + 1]
      BY <2>2, <3>1
    <3> QED BY <3>2 DEF RowsInv
  <2> QED BY <2>1, <2>2
<1>6. \A i \in 1..snaps'["bd"].len :
        Past(RowsUnder("bd")'[i]) /\ NotOlder(RowsUnder("bd")'[i])
  BY <1>1 DEF Keeps, RowsInv
<1>7. \A k \in DOMAIN base : /\ Past(base[k])
                             /\ k \in DOMAIN players'
                             /\ players'[k].sid = base[k].sid
  BY <1>0, <1>1 DEF ListOK, RowsInv
<1> QED BY <1>2, <1>3, <1>4, <1>5, <1>6, <1>7 DEF RowsInv

(* Appending such a row to a batch preserves it as well.                   *)
LEMMA BatchRows ==
  ASSUME TypeOK, RowsInv, NEW g \in Goroutines, NEW row \in Row,
         Past(row), NotOlder(row),
         batch' = [batch EXCEPT ![g] = Append(@, row)],
         UNCHANGED <<players, snaps, base, now, lists>>
  PROVE  RowsInv'
<1>1. /\ \A x : Past(x)' <=> Past(x)
      /\ \A x : NotOlder(x)' <=> NotOlder(x)
  BY DEF Past, NotOlder
<1>2. ASSUME NEW h \in Goroutines, NEW i \in DOMAIN batch'[h]
      PROVE  Past(batch'[h][i]) /\ NotOlder(batch'[h][i])
  <2>1. CASE h # g
    BY <2>1 DEF RowsInv, TypeOK
  <2>2. CASE h = g
    <3>1. batch[g] \in Seq(Row) /\ batch'[g] = Append(batch[g], row)
      BY DEF TypeOK
    <3>2. \/ i \in DOMAIN batch[g] /\ batch'[g][i] = batch[g][i]
          \/ batch'[g][i] = row
      BY <2>2, <3>1
    <3> QED BY <2>2, <3>2 DEF RowsInv
  <2> QED BY <2>1, <2>2
<1> QED BY <1>1, <1>2 DEF RowsInv, RowsUnder

(* No step brings in a row that is older than what the tick began with:    *)
(* updateBD copies rows under its snapshot, UpdateDumpPlayer those that    *)
(* player() finds.                                                         *)
LEMMA RowsInvStep ==
  ASSUME TypeOK, UniqueSIDs, Control, RowsInv, [Next]_vars
  PROVE  RowsInv'
<1> USE DEF listVars, tickVars, uiVars, loopVars, envVars
<1>0. ListOK /\ lists \in Nat /\ now \in Nat /\ now >= 1
  BY ConstantsAssumption DEF TypeOK, ListOK
<1>1. CASE UNCHANGED <<players, snaps, batch, base, now, lists>>
  BY <1>1 DEF RowsInv, Past, NotOlder, RowsUnder
<1>2. ASSUME NEW g \in Goroutines, Write(g)
      PROVE  RowsInv'
  <2>1. batch[g] \in Seq(Row) /\ batch[g] # <<>> /\ existing[g] \in BOOLEAN
    BY <1>2 DEF Write, TypeOK
  <2>2. Head(batch[g]) \in Row /\ Past(Head(batch[g])) /\ NotOlder(Head(batch[g]))
    <3>1. 1 \in DOMAIN batch[g] /\ Head(batch[g]) = batch[g][1]
      BY <2>1
    <3> QED BY <2>1, <3>1 DEF RowsInv
  <2>3. SetPlayer(Head(batch[g]), existing[g]) /\ UNCHANGED <<base, now, lists>>
    BY <1>2 DEF Write
  <2>4. \A h \in Goroutines : batch'[h] = batch[h] \/
                              (batch[h] # <<>> /\ batch'[h] = Tail(batch[h]))
    BY <1>2 DEF Write, TypeOK
  <2> QED BY <2>1, <2>2, <2>3, <2>4, SetPlayerRows
<1>3. ASSUME NEW sid \in SteamIDs, OnStatusID(sid)
      PROVE  RowsInv'
  <2>1. base = <<>>
    BY <1>3 DEF OnStatusID, Control
  <2>2. PlayerOrNew(sid) \in Row /\ Past(PlayerOrNew(sid))
    BY <1>0, PlayerOrNewOK DEF NewPlayer, Past, RowsInv, Never
  <2>3. NotOlder(PlayerOrNew(sid))
    BY <2>1 DEF NotOlder
  <2> QED BY <1>3, <2>2, <2>3, SetPlayerRows DEF OnStatusID
<1>4. CASE BDSnapshot
  <2>1. snaps'["bd"].len = Len(players) /\ RowsUnder("bd")' = players
    BY <1>4 DEF BDSnapshot, Snapshot, RowsUnder, TypeOK, Readers
  <2>2. DOMAIN players = 1..Len(players)
    BY DEF TypeOK
  <2> QED BY <1>4, <2>1, <2>2 DEF BDSnapshot, RowsInv, Past, NotOlder
<1>5. CASE BDBuild
  <2>1. PICK row \in Copies(Len(batch["bd"]) + 1) :
          batch' = [batch EXCEPT !["bd"] = Append(@, [row EXCEPT !.bd = lists])]
    BY <1>5 DEF BDBuild
  <2> DEFINE i == Len(batch["bd"]) + 1
             old == RowsUnder("bd")[i]
             new == [row EXCEPT !.bd = lists]
  <2>2. i \in 1..snaps["bd"].len
    BY <1>5 DEF BDBuild, TypeOK, Readers, Snap, Goroutines
  <2>3. /\ row \in Row /\ old \in Row
        /\ \/ row = old
           \/ batch["dump"] # <<>> /\ row = Head(batch["dump"])
           \/ row.sid = old.sid /\ old.g15 = Never /\ row.g15 = 1
    BY <2>1, <2>2, CopiesOK
  <2>4. Past(old) /\ NotOlder(old)
    BY <2>2 DEF RowsInv
  <2>5. batch["dump"] # <<>> => Past(Head(batch["dump"])) /\ NotOlder(Head(batch["dump"]))
    <3>1. batch["dump"] \in Seq(Row)
      BY DEF TypeOK, Goroutines
    <3>2. batch["dump"] # <<>> => 1 \in DOMAIN batch["dump"]
                                  /\ Head(batch["dump"]) = batch["dump"][1]
      BY <3>1
    <3> QED BY <3>2 DEF RowsInv, Goroutines
  <2>6. new \in Row /\ new.sid = row.sid /\ new.g15 = row.g15 /\ new.bd = lists
    BY <1>0, <2>3 DEF Row
  <2>7. Past(new)
    BY <1>0, <2>3, <2>4, <2>5, <2>6 DEF Past, Row
  <2>8. NotOlder(new)
    <3> SUFFICES ASSUME NEW k \in DOMAIN base, new.sid = base[k].sid
                 PROVE  new.g15 >= base[k].g15 /\ new.bd >= base[k].bd
      BY DEF NotOlder
    <3>1. Past(base[k]) /\ base[k] \in Row
      BY DEF RowsInv, TypeOK
    <3>2. row.g15 >= base[k].g15
      BY <2>3, <2>4, <2>5, <2>6, <3>1 DEF NotOlder, Row, Never
    <3> QED BY <1>0, <2>6, <3>1, <3>2 DEF Past, Row
  <2>9. UNCHANGED <<players, snaps, base, now, lists>>
    BY <1>5 DEF BDBuild
  <2> HIDE DEF new
  <2> QED BY <2>1, <2>6, <2>7, <2>8, <2>9, BatchRows DEF Goroutines, new
<1>6. CASE BDBuilt
  BY <1>6 DEF BDBuilt, NoSnap, RowsInv, Past, NotOlder, TypeOK, Readers
<1>7. CASE DumpBuild
  <2> DEFINE sid == result.dump[Len(batch["dump"]) + 1]
             new == [PlayerOrNew(sid) EXCEPT !.g15 = now]
  <2>1. sid \in SteamIDs
    BY <1>7 DEF DumpBuild, TypeOK, Result, Goroutines
  <2>2. batch' = [batch EXCEPT !["dump"] = Append(@, new)]
    BY <1>7 DEF DumpBuild, TypeOK, Goroutines
  <2> HIDE DEF sid
  <2>3. /\ PlayerOrNew(sid) \in Row /\ PlayerOrNew(sid).sid = sid
        /\ \/ PlayerOrNew(sid) = NewPlayer(sid) /\ Slots(sid) = {}
           \/ \E i \in DOMAIN players : PlayerOrNew(sid) = players[i]
    BY <1>0, <2>1, PlayerOrNewOK
  <2>4. new \in Row /\ new.sid = sid /\ new.g15 = now /\ new.bd = PlayerOrNew(sid).bd
    BY <1>0, <2>3 DEF Row
  <2>5. Past(new)
    BY <1>0, <2>3, <2>4 DEF Past, RowsInv, NewPlayer
  <2>6. NotOlder(new)
    <3> SUFFICES ASSUME NEW k \in DOMAIN base, new.sid = base[k].sid
                 PROVE  new.g15 >= base[k].g15 /\ new.bd >= base[k].bd
      BY DEF NotOlder
    <3>1. Past(base[k]) /\ k \in Slots(sid)
      BY <2>4 DEF RowsInv, Slots
    <3>2. PICK i \in DOMAIN players : PlayerOrNew(sid) = players[i]
      BY <2>3, <3>1
    <3>3. NotOlder(players[i]) /\ players[i].sid = base[k].sid
      BY <2>3, <2>4, <3>2 DEF RowsInv
    <3> QED BY <2>4, <3>1, <3>2, <3>3 DEF Past, NotOlder
  <2>7. UNCHANGED <<players, snaps, base, now, lists>>
    BY <1>7 DEF DumpBuild
  <2> HIDE DEF new
  <2> QED BY <2>2, <2>4, <2>5, <2>6, <2>7, BatchRows DEF Goroutines
<1>8. CASE OnDumpTick
  <2>1. \A g \in Goroutines : batch[g] = <<>>
    BY <1>8 DEF OnDumpTick, Control, OneWriter
  <2>2. snaps["bd"].len = 0
    BY <1>8 DEF OnDumpTick, Control, OneWriter, Goroutines
  <2>3. base' = players /\ UNCHANGED <<players, snaps, batch, now, lists>>
    BY <1>8 DEF OnDumpTick
  <2>4. \A i \in DOMAIN players : NotOlder(players[i])'
    <3>1. \A i, k \in DOMAIN players : players[i].sid = players[k].sid =>
            players[i].g15 >= players[k].g15 /\ players[i].bd >= players[k].bd
      <4>1. \A i \in DOMAIN players : players[i].g15 \in Nat /\ players[i].bd \in Nat
        <5>1. \A i \in DOMAIN players : players[i] \in Row
          BY <1>0 DEF ListOK
        <5> QED BY <5>1 DEF Row
      <4> QED BY <4>1 DEF UniqueSIDs
    <3> QED BY <2>3, <3>1 DEF NotOlder
  <2>5. \A x : Past(x)' <=> Past(x)
    BY <2>3 DEF Past
  <2> QED BY <2>1, <2>2, <2>3, <2>4, <2>5 DEF RowsInv
<1>9. CASE DumpTickDone
  BY <1>9 DEF DumpTickDone, RowsInv, Past, NotOlder, RowsUnder
<1>10. CASE RemoveExpired
  <2>1. base = <<>> /\ UNCHANGED <<batch, base, now, lists>>
    BY <1>10 DEF RemoveExpired, Control
  <2>2. /\ \A x : Past(x)' <=> Past(x)
        /\ \A x : NotOlder(x)'
    BY <2>1 DEF Past, NotOlder
  <2>3. \A i \in DOMAIN players' : \E k \in DOMAIN players : players'[i] = players[k]
    BY <1>0, <1>10, RemoveExpiredOK DEF Survivors
  <2>4. /\ snaps'["bd"].len = snaps["bd"].len
        /\ \A i \in 1..snaps["bd"].len : RowsUnder("bd")'[i] = RowsUnder("bd")[i]
    BY <1>0, <1>10, RemoveExpiredOK DEF Readers
  <2> QED BY <2>1, <2>2, <2>3, <2>4 DEF RowsInv
<1>11. CASE Environment
  <2>1. \A x \in Row : Past(x) => Past(x)'
    BY <1>0, <1>11 DEF Environment, Tick, BDUpdated, Cancel, Past, Row
  <2>2. UNCHANGED <<players, snaps, batch, base>>
    BY <1>11 DEF Environment, Tick, BDUpdated, Cancel, othersVars
  <2>3. /\ \A i \in DOMAIN players : players[i] \in Row
        /\ \A g \in Goroutines : \A i \in DOMAIN batch[g] : batch[g][i] \in Row
        /\ \A i \in DOMAIN base : base[i] \in Row
    BY DEF TypeOK
  <2>4. \A i \in 1..snaps["bd"].len : RowsUnder("bd")[i] \in Row
    BY DEF TypeOK, RowsUnder, Readers, Snap
  <2>5. RowsUnder("bd")' = RowsUnder("bd") /\ \A x : NotOlder(x)' <=> NotOlder(x)
    BY <2>2 DEF RowsUnder, NotOlder
  <2> QED BY <2>1, <2>2, <2>3, <2>4, <2>5 DEF RowsInv
<1>12. CASE UISnapshot \/ UISend
  <2>1. snaps'["bd"] = snaps["bd"] /\ UNCHANGED <<players, batch, base, now, lists>>
    BY <1>12 DEF UISnapshot, UISend, TypeOK, Readers
  <2> QED BY <2>1 DEF RowsInv, Past, NotOlder, RowsUnder
<1> QED
  BY <1>1, <1>2, <1>3, <1>4, <1>5, <1>6, <1>7, <1>8, <1>9, <1>10, <1>11, <1>12
  DEF Next, vars, OnStart, Select, Stop, UpdateBD, Lock, Unlock, UpdateDump,
      FetchOk, FetchUnparsed, FetchFail, Fetched, UpdateStatus, DumpBuilt,
      UpdateUIState, UICopy, Goroutines

-----------------------------------------------------------------------------
(* The theorems.                                                           *)

(* The inductive invariant.  TypeOK and UniqueSIDs need one another        *)
(* (player() finds the only row of a player); the rest needs both.         *)
IInv == TypeOK /\ UniqueSIDs /\ Control /\ ReadersInv /\ RowsInv

(* newServerState starts with an empty list, no lock held and no reader.   *)
LEMMA IInvInit == Init => IInv
<1> SUFFICES ASSUME Init PROVE IInv
  OBVIOUS
<1>1. TypeOK
  <2>1. NoSnap \in Snap /\ NoResult \in Result
    BY DEF NoSnap, Snap, NoResult, Result, Never
  <2>2. loop \in DOMAIN OnStartThen \cup {"select", "dump", "stopped"}
    BY DEF Init, OnStartThen
  <2>3. \A r \in Readers : snaps[r].len <= Len(RowsUnder(r))
    BY DEF Init, RowsUnder, NoSnap
  <2>4. lists \in 0..NumUpdates /\ now \in 1..MaxTime
    BY ConstantsAssumption DEF Init
  <2>5. /\ players \in Seq(Row) /\ base \in Seq(Row)
        /\ uiRows \in Seq(SteamIDs) /\ ui \in {"idle", "copy"}
        /\ status \in Nat /\ mu \in Goroutines \cup {"none"}
        /\ loaded \subseteq DOMAIN OnStartThen
        /\ pc \in [Goroutines -> PCs]
    BY DEF Init, PCs, Never
  <2>6. /\ batch \in [Goroutines -> Seq(Row)]
        /\ existing \in [Goroutines -> BOOLEAN]
        /\ snaps \in [Readers -> Snap]
        /\ result \in Result
        /\ dumpFetcher \in [lastUpdate : Seq(SteamIDs), lastStatus : Nat]
    BY <2>1 DEF Init, Never
  <2>7. ctxDone \in BOOLEAN
    BY DEF Init
  <2> QED BY <2>2, <2>3, <2>4, <2>5, <2>6, <2>7 DEF TypeOK
<1>2. UniqueSIDs /\ ReadersInv /\ RowsInv
  BY DEF Init, UniqueSIDs, ReadersInv, RowsInv, NoSnap, Goroutines, Readers
<1>3. Control
  <2>1. loop # "dump"
    BY DEF Init
  <2> QED BY <2>1 DEF Init, Control, OneWriter, NoSnap, Goroutines, Readers
<1> QED BY <1>1, <1>2, <1>3 DEF IInv

(* Every step of serverState, of the UI and of their environment           *)
(* preserves the inductive invariant.                                      *)
LEMMA IInvStep == IInv /\ [Next]_vars => IInv'
<1> SUFFICES ASSUME IInv, [Next]_vars PROVE IInv'
  OBVIOUS
<1>1. TypeOK' /\ UniqueSIDs'
  BY TypeStep DEF IInv
<1>2. Control'
  BY ControlStep DEF IInv
<1>3. ReadersInv'
  BY ReadersInvStep DEF IInv
<1>4. RowsInv'
  BY RowsInvStep DEF IInv
<1> QED BY <1>1, <1>2, <1>3, <1>4 DEF IInv

(* The inductive invariant holds in every state of serverState.            *)
THEOREM Invariance == Spec => []IInv
<1>1. Init => IInv
  BY IInvInit
<1>2. IInv /\ [Next]_vars => IInv'
  BY IInvStep
<1> QED BY <1>1, <1>2, PTL DEF Spec

(* Every variable keeps its type, and no walk over a snapshot runs out of  *)
(* its array.                                                              *)
THEOREM TypeCorrect == Spec => []TypeOK
<1>1. IInv => TypeOK
  BY DEF IInv
<1> QED BY <1>1, Invariance, PTL

(* setPlayer is mutually exclusive, and the event loop never overlaps a    *)
(* dump tick.                                                              *)
THEOREM MutualExclusion == Spec => []OneWriter
<1>1. IInv => OneWriter
  BY DEF IInv, Control
<1> QED BY <1>1, Invariance, PTL

(* No player is ever listed twice, for any number of players, any dumps    *)
(* and any interleaving of updateBD, updateDump and the event loop.        *)
THEOREM NoDuplicates == Spec => []UniqueSIDs
<1>1. IInv => UniqueSIDs
  BY DEF IInv
<1> QED BY <1>1, Invariance, PTL

(* What the UI is sent, copied without a lock, has no duplicates either.   *)
THEOREM UIDistinct == Spec => []UIRowsDistinct
<1>1. IInv => UIRowsDistinct
  <2> SUFFICES ASSUME IInv PROVE UIRowsDistinct
    OBVIOUS
  <2>1. DOMAIN uiRows = 1..Len(uiRows) /\ Len(uiRows) \in Nat
        /\ snaps["ui"].len \in Nat /\ Len(uiRows) <= snaps["ui"].len
    BY DEF IInv, TypeOK, Readers, Snap, ReadersInv
  <2> QED BY <2>1 DEF IInv, ReadersInv, UIRowsDistinct, Readers
<1> QED BY <1>1, Invariance, PTL

(* updateBD and updateDump lose at most updates of their own tick.         *)
THEOREM TickSafe == Spec => []TickLosesNothing
<1>1. IInv => TickLosesNothing
  BY RowsInvImpliesTick DEF IInv
<1> QED BY <1>1, Invariance, PTL

(* No slot that an unlocked reader still has to copy changes its player.   *)
THEOREM SlotsStable == Spec => SlotsKeepTheirPlayer
<1>1. IInv /\ [Next]_vars =>
        [\A r \in Readers : \A i \in 1..snaps[r].len :
           snaps'[r].len = snaps[r].len =>
             (RowsUnder(r)[i].sid)' = RowsUnder(r)[i].sid]_vars
  BY SlotsStep DEF IInv
<1> QED BY <1>1, Invariance, PTL DEF Spec, SlotsKeepTheirPlayer

-----------------------------------------------------------------------------
(* The refinement of PlayerBook.                                           *)

(* One iteration of setPlayer writes one row of the book, or none.         *)
LEMMA SetPlayerIsPut ==
  ASSUME TypeOK, NEW row \in Row, NEW seen \in BOOLEAN,
         SetPlayer(row, seen), Past(row), UNCHANGED now
  PROVE  Book!Put(row.sid) \/ UNCHANGED <<BookOfPlayers, now>>
<1>0. ListOK
  BY DEF TypeOK, ListOK
<1>1. StampOf(row) \in Book!Stamp /\ StampOf(row).g15 <= now /\ row.sid \in SteamIDs
  BY ConstantsAssumption DEF StampOf, Book!Stamp, Past, Row, TypeOK
<1>2. CASE Slots(row.sid) = {} /\ seen /\ UNCHANGED listVars
  BY <1>2 DEF listVars, BookOfPlayers, Slots
<1>3. CASE Slots(row.sid) # {} /\ Overwrite(row)
  <2>1. /\ Len(players') = Len(players)
        /\ DOMAIN players = 1..Len(players) /\ DOMAIN players' = 1..Len(players)
        /\ \A i \in 1..Len(players) :
             players'[i] = IF players[i].sid = row.sid THEN row ELSE players[i]
    BY <1>0, <1>3, OverwriteOK DEF ListOK
  <2>2. \A s : Slots(s)' = Slots(s)
    BY <2>1 DEF Slots
  <2>3. ASSUME NEW s \in SteamIDs
        PROVE  BookOfPlayers'[s] =
                 IF s = row.sid THEN {StampOf(row)} ELSE BookOfPlayers[s]
    <3>1. BookOfPlayers'[s] = {StampOf(players'[i]) : i \in Slots(s)}
      BY <2>2 DEF BookOfPlayers, StampOf
    <3>2. CASE s = row.sid
      BY <1>3, <2>1, <3>1, <3>2 DEF Slots
    <3>3. CASE s # row.sid
      BY <2>1, <3>1, <3>3 DEF Slots, BookOfPlayers
    <3> QED BY <3>2, <3>3
  <2>4. BookOfPlayers' = [BookOfPlayers EXCEPT ![row.sid] = {StampOf(row)}]
    BY <2>3 DEF BookOfPlayers
  <2> QED BY <1>1, <2>4 DEF Book!Put
<1>4. CASE Slots(row.sid) = {} /\ AppendPlayer(row)
  <2>1. players' = Append(players, row) /\ players \in Seq(Row)
    BY <1>0, <1>4, AppendPlayerOK DEF ListOK
  <2>2. /\ DOMAIN players = 1..Len(players)
        /\ DOMAIN players' = 1..(Len(players) + 1)
        /\ \A i \in 1..Len(players) : players'[i] = players[i]
        /\ players'[Len(players) + 1] = row
        /\ Len(players) \in Nat
    BY <2>1
  <2>3. \A s : Slots(s)' = Slots(s) \cup
                           IF s = row.sid THEN {Len(players) + 1} ELSE {}
    BY <2>2 DEF Slots
  <2>4. ASSUME NEW s \in SteamIDs
        PROVE  BookOfPlayers'[s] =
                 IF s = row.sid THEN {StampOf(row)} ELSE BookOfPlayers[s]
    <3>1. BookOfPlayers'[s] = {StampOf(players'[i]) : i \in Slots(s)'}
      BY DEF BookOfPlayers, StampOf
    <3>2. CASE s = row.sid
      BY <1>4, <2>2, <2>3, <3>1, <3>2
    <3>3. CASE s # row.sid
      <4>1. Slots(s)' = Slots(s) /\ \A i \in Slots(s) : players'[i] = players[i]
        BY <2>2, <2>3, <3>3 DEF Slots
      <4> QED BY <3>1, <3>3, <4>1 DEF BookOfPlayers
    <3> QED BY <3>2, <3>3
  <2>5. BookOfPlayers' = [BookOfPlayers EXCEPT ![row.sid] = {StampOf(row)}]
    BY <2>4 DEF BookOfPlayers
  <2> QED BY <1>1, <2>5 DEF Book!Put
<1> QED BY <1>2, <1>3, <1>4 DEF SetPlayer

(* removeExpired is the sweep of the book.                                 *)
LEMMA RemoveExpiredIsExpire ==
  ASSUME TypeOK, UniqueSIDs, RemoveExpired
  PROVE  Book!Expire
<1>0. ListOK
  BY DEF TypeOK, ListOK
<1>1. /\ \A i \in DOMAIN players' : \E k \in Survivors : players'[i] = players[k]
      /\ \A k \in Survivors : \E i \in DOMAIN players' : players'[i] = players[k]
  BY <1>0, RemoveExpiredOK
<1>2. \A i \in DOMAIN players : Expired(players[i]) <=>
                                Book!ExpiredAt(StampOf(players[i]), now)
  BY DEF Expired, Book!ExpiredAt, StampOf, Never, Book!Never
<1>3. ASSUME NEW s \in SteamIDs
      PROVE  BookOfPlayers'[s] =
               {stamp \in BookOfPlayers[s] : ~Book!ExpiredAt(stamp, now)}
  <2>1. BookOfPlayers'[s] = {StampOf(players'[i]) : i \in Slots(s)'}
    BY DEF BookOfPlayers, StampOf
  <2>2. ASSUME NEW stamp \in BookOfPlayers'[s]
        PROVE  stamp \in BookOfPlayers[s] /\ ~Book!ExpiredAt(stamp, now)
    <3>1. PICK i \in Slots(s)' : stamp = StampOf(players'[i])
      BY <2>1, <2>2
    <3>2. PICK k \in Survivors : players'[i] = players[k]
      BY <1>1, <3>1 DEF Slots
    <3>3. k \in Slots(s) /\ ~Expired(players[k])
      BY <3>1, <3>2 DEF Slots, Survivors
    <3> QED BY <1>2, <3>1, <3>2, <3>3 DEF BookOfPlayers, Slots
  <2>3. ASSUME NEW stamp \in BookOfPlayers[s], ~Book!ExpiredAt(stamp, now)
        PROVE  stamp \in BookOfPlayers'[s]
    <3>1. PICK k \in Slots(s) : stamp = StampOf(players[k])
      BY <2>3 DEF BookOfPlayers
    <3>2. k \in Survivors
      BY <1>2, <2>3, <3>1 DEF Slots, Survivors
    <3>3. PICK i \in DOMAIN players' : players'[i] = players[k]
      BY <1>1, <3>2
    <3>4. i \in Slots(s)'
      BY <3>1, <3>3 DEF Slots
    <3> QED BY <2>1, <3>1, <3>3, <3>4
  <2> QED BY <2>2, <2>3
<1>4. BookOfPlayers' =
        [s \in SteamIDs |->
           {stamp \in BookOfPlayers[s] : ~Book!ExpiredAt(stamp, now)}]
  BY <1>3 DEF BookOfPlayers
<1> QED BY <1>4 DEF Book!Expire, RemoveExpired, envVars

(* Every step of serverState is a step of the book, or does not show in it.*)
LEMMA BookStep ==
  ASSUME IInv, [Next]_vars
  PROVE  [Book!Next]_<<BookOfPlayers, now>>
<1> USE DEF listVars, tickVars, uiVars, loopVars, envVars
<1>0. TypeOK /\ UniqueSIDs /\ ListOK /\ RowsInv /\ now \in Nat /\ lists \in Nat
  BY ConstantsAssumption DEF IInv, TypeOK, ListOK
<1>1. CASE UNCHANGED <<players, now>>
  BY <1>1 DEF BookOfPlayers, Slots
<1>2. ASSUME NEW g \in Goroutines, Write(g)
      PROVE  [Book!Next]_<<BookOfPlayers, now>>
  <2>1. batch[g] \in Seq(Row) /\ batch[g] # <<>> /\ existing[g] \in BOOLEAN
    BY <1>0, <1>2 DEF Write, TypeOK
  <2>2. Head(batch[g]) \in Row /\ Past(Head(batch[g]))
    <3>1. 1 \in DOMAIN batch[g] /\ Head(batch[g]) = batch[g][1]
      BY <2>1
    <3> QED BY <1>0, <2>1, <3>1 DEF RowsInv
  <2>3. Head(batch[g]).sid \in SteamIDs
    BY <2>2 DEF Row
  <2> QED BY <1>0, <1>2, <2>1, <2>2, <2>3, SetPlayerIsPut DEF Write, Book!Next
<1>3. ASSUME NEW sid \in SteamIDs, OnStatusID(sid)
      PROVE  [Book!Next]_<<BookOfPlayers, now>>
  <2>1. PlayerOrNew(sid) \in Row /\ PlayerOrNew(sid).sid = sid /\ Past(PlayerOrNew(sid))
    BY <1>0, PlayerOrNewOK DEF NewPlayer, Past, RowsInv, Never
  <2> QED BY <1>0, <1>3, <2>1, SetPlayerIsPut DEF OnStatusID, Book!Next
<1>4. CASE RemoveExpired
  BY <1>0, <1>4, RemoveExpiredIsExpire DEF Book!Next
<1>5. CASE Tick
  <2>1. UNCHANGED BookOfPlayers
    BY <1>5 DEF Tick, othersVars, BookOfPlayers, Slots
  <2> QED BY <1>5, <2>1 DEF Tick, Book!Tick, Book!Next
<1> QED
  BY <1>1, <1>2, <1>3, <1>4, <1>5
  DEF Next, vars, OnStart, Select, OnDumpTick, DumpTickDone, Stop, UpdateBD,
      BDSnapshot, BDBuild, BDBuilt, Lock, Unlock, UpdateDump, FetchOk,
      FetchUnparsed, FetchFail, Fetched, UpdateStatus, DumpBuild, DumpBuilt,
      UpdateUIState, UISnapshot, UICopy, UISend, Environment, BDUpdated,
      Cancel, othersVars, Goroutines

(* serverState implements PlayerBook.                                      *)
THEOREM Refinement == Spec => ImplementsPlayerBook
<1>1. Init => Book!Init
  BY DEF Init, Book!Init, BookOfPlayers, Slots
<1>2. IInv /\ [Next]_vars => [Book!Next]_<<BookOfPlayers, now>>
  BY BookStep
<1> QED BY <1>1, <1>2, Invariance, PTL
        DEF Spec, ImplementsPlayerBook, Book!Spec, Book!bookVars

=============================================================================
