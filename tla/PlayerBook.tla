----------------------------- MODULE PlayerBook -----------------------------
(***************************************************************************)
(* What a serverState promises the rest of tf-tui about its player list,   *)
(* with no slices, locks or goroutines in sight: a book holding, for every *)
(* SteamID, at most one row.  One row is written at a time and no other    *)
(* row notices; a row leaves the book only in an expiry sweep, and the     *)
(* sweep takes every row that has expired at that moment and no other.     *)
(* ServerState.tla implements it.                                          *)
(***************************************************************************)
EXTENDS Naturals

CONSTANTS SteamIDs,       \* the players
          PlayerTimeout,  \* playerTimeout, in ticks of the clock
          MaxTime,        \* bound on the clock
          NumUpdates      \* bound on the bot detector updates

VARIABLES book,  \* SteamID -> the set of rows kept for it
          now    \* the clock

bookVars == <<book, now>>

(* The zero time.Time: G15UpdatedOn of a player that was never dumped. *)
Never == 0

Stamp == [g15 : 0..MaxTime, bd : 0..NumUpdates]

(* time.Since saturates on the zero time, so a row that was never dumped   *)
(* has always expired.                                                     *)
ExpiredAt(stamp, time) ==
  \/ stamp.g15 = Never
  \/ time - stamp.g15 > PlayerTimeout

Init ==
  /\ book = [s \in SteamIDs |-> {}]
  /\ now = 1

Put(s) ==
  \E stamp \in Stamp :
    /\ stamp.g15 <= now
    /\ book' = [book EXCEPT ![s] = {stamp}]
    /\ UNCHANGED now

Expire ==
  /\ book' = [s \in SteamIDs |-> {stamp \in book[s] : ~ExpiredAt(stamp, now)}]
  /\ UNCHANGED now

Tick ==
  /\ now < MaxTime
  /\ now' = now + 1
  /\ UNCHANGED book

Next == (\E s \in SteamIDs : Put(s)) \/ Expire \/ Tick

Spec == Init /\ [][Next]_bookVars

=============================================================================
