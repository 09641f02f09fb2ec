------------------------------ MODULE BotLists ------------------------------
(***************************************************************************)
(* internal/bd: Fetcher.Update, which main starts in a goroutine.          *)
(*                                                                         *)
(* A goroutine per configured list downloads it and sends it to updates,   *)
(* which is unbuffered; one more closes updates when the WaitGroup is down *)
(* to zero; Update takes what comes until then, and replaces the lists     *)
(* that Search looks through, a list at a time.                            *)
(***************************************************************************)
EXTENDS Naturals, SequencesExt

CONSTANTS UserLists,  \* config.BDLists
          ZeroList,   \* the zero BDSchema, which has no players
          Entries     \* per list, the SteamIDs in it, or "none" for what is no SteamID

ASSUME BotListsAssumption ==
  /\ IsFiniteSet(UserLists) /\ ZeroList \notin UserLists
  /\ DOMAIN Entries = UserLists

VARIABLES
  download,  \* per list, where its goroutine is
  waiting,   \* the goroutines that have not called Done
  updates,   \* the channel: "open" or "closed"
  updater,   \* where Update is
  collected, \* its variable lists
  botLists   \* Fetcher.lists

botVars == <<download, waiting, updates, updater, collected, botLists>>

(* The request fails or times out, its answer is not a list, or it is one. *)
Download(l) ==
  /\ download[l] = "fetch"
  /\ \E end \in {"send", "failed"} : download' = [download EXCEPT ![l] = end]
  /\ UNCHANGED <<waiting, updates, updater, collected, botLists>>

(* The send, together with the receive of Update's range; a send on a      *)
(* closed channel panics.                                                  *)
SendUpdate(l) ==
  /\ download[l] = "send"
  /\ updater = "range" \/ updates = "closed"
  /\ download' = [download EXCEPT ![l] = IF updates = "open" THEN "sent" ELSE "panic"]
  /\ collected' = IF updates = "open" THEN Append(collected, l) ELSE collected
  /\ UNCHANGED <<waiting, updates, updater, botLists>>

(* Mutated forms of MayBeDone: Done is called before the send, or only     *)
(* after it.                                                               *)
MayBeDoneEarly(l) == download[l] \in {"send", "sent", "failed"}
MayBeDoneLate(l)  == download[l] = "sent"

MayBeDone(l) == download[l] \in {"sent", "failed"}

DoneWaiting(l) ==
  /\ l \in waiting /\ MayBeDone(l)
  /\ waiting' = waiting \ {l}
  /\ UNCHANGED <<download, updates, updater, collected, botLists>>

CloseUpdates ==
  /\ updates = "open" /\ waiting = {}
  /\ updates' = "closed"
  /\ UNCHANGED <<download, waiting, updater, collected, botLists>>

(* The range is over: the lists are replaced, all at once for whoever      *)
(* takes the lock.                                                         *)
Publish ==
  /\ updater = "range" /\ updates = "closed"
  /\ updater' = "returned"
  /\ botLists' = collected
  /\ UNCHANGED <<download, waiting, updates, collected>>

(* make([]tfapi.BDSchema, len(m.configured)): a zero list for each, to     *)
(* which the others are appended.                                          *)
BotInit ==
  /\ download = [l \in UserLists |-> "fetch"]
  /\ waiting = UserLists
  /\ updates = "open"
  /\ updater = "range"
  /\ collected = [i \in 1 .. Cardinality(UserLists) |-> ZeroList]
  /\ botLists = <<>>

BotNext ==
  (\E l \in UserLists : Download(l) \/ SendUpdate(l) \/ DoneWaiting(l)) \/ CloseUpdates \/ Publish

BotSpec == BotInit /\ [][BotNext]_botVars

(* The players of a list: entries that are no SteamID are skipped.         *)
NamedIn(l) == IF l = ZeroList THEN {} ELSE ToSet(Entries[l]) \ {"none"}

(* Fetcher.Search: the names of the lists that match.  The first entry     *)
(* that is the player ends the search of a list.                           *)
Search(sid) ==
  LET matched[n \in 0 .. Len(botLists)] ==
        IF n = 0 THEN <<>>
        ELSE IF sid \in NamedIn(botLists[n]) THEN Append(matched[n - 1], botLists[n])
        ELSE matched[n - 1]
  IN matched[Len(botLists)]

-----------------------------------------------------------------------------
(* Properties.                                                             *)

(* The places of a list.                                                   *)
PlacesOf(lists, l) == {i \in DOMAIN lists : lists[i] = l}
Once(lists, l)     == \E i \in DOMAIN lists : PlacesOf(lists, l) = {i}

(* bd.Fetcher.Update: the channel is never closed before the last of the   *)
(* lists, and when Update has returned each list that was downloaded is    *)
(* there, once, and no other is.                                           *)
EveryListOnce ==
  /\ \A l \in UserLists : download[l] # "panic"
  /\ updater = "returned" =>
       \A l \in UserLists : IF download[l] = "sent" THEN Once(botLists, l)
                            ELSE PlacesOf(botLists, l) = {}

(* And a player is found in the lists that were downloaded and name him,   *)
(* once in each however often they do, and in no other.                    *)
DownloadsKept ==
  /\ EveryListOnce
  /\ updater = "returned" =>
       \A l \in UserLists : \A sid \in UNION {NamedIn(m) : m \in UserLists} :
         IF download[l] = "sent" /\ sid \in NamedIn(l) THEN Once(Search(sid), l)
         ELSE PlacesOf(Search(sid), l) = {}

=============================================================================
