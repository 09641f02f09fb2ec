------------------------------ MODULE MetaCache -----------------------------
(***************************************************************************)
(* internal/meta and internal/cache: Fetcher.MetaProfiles, which takes     *)
(* profiles from files, asks the API for the others and writes those to    *)
(* files.                                                                  *)
(*                                                                         *)
(* Callers share the fetcher and the directory, and nothing locks either.  *)
(* Set truncates the file and then writes it; the process may end in       *)
(* between.  (At this commit the manager's call is commented out.)  Of a   *)
(* file the model keeps whether there is one, whether a profile can be     *)
(* read from it, and whether it is older than maxCacheAge.                 *)
(***************************************************************************)
CONSTANTS Callers,      \* goroutines that call MetaProfiles
          ProfileSIDs,  \* players
          Known         \* those of them that the API has a profile of

ASSUME MetaCacheAssumption == Known \subseteq ProfileSIDs

VARIABLES
  cacheFile,  \* per player, the file: "none", "empty", "fresh" or "expired"
  call        \* per caller: where it is, and what it has

metaVars == <<cacheFile, call>>

Idle == [at |-> "idle", steamIDs |-> {}, todo |-> {}, profiles |-> {}, missing |-> {}, toSet |-> {}]

At(c, where) == call[c].at = where

MetaProfiles(c, steamIDs) ==
  /\ call[c].at \in {"idle", "returned", "error"}
  /\ call' = [call EXCEPT ![c] = [Idle EXCEPT !.at = "get", !.steamIDs = steamIDs, !.todo = steamIDs]]
  /\ UNCHANGED cacheFile

-----------------------------------------------------------------------------
(* cachedMetaProfiles.                                                     *)

(* Mutated form of Hits: a file that is there is as good as a profile.     *)
HitsFile(sid) == cacheFile[sid] # "none"

(* Filesystem.Get, and decoding what it returns.  A file that is too old   *)
(* is a miss; it is to be removed, but by a path without the directory.    *)
Hits(sid) == cacheFile[sid] = "fresh"

Get(c, sid) ==
  /\ At(c, "get") /\ sid \in call[c].todo
  /\ call' = [call EXCEPT ![c].todo = @ \ {sid},
                          ![c].profiles = IF cacheFile[sid] = "fresh" THEN @ \cup {sid} ELSE @,
                          ![c].missing = IF Hits(sid) THEN @ ELSE @ \cup {sid}]
  /\ UNCHANGED cacheFile

-----------------------------------------------------------------------------
(* fetchMetaProfiles.                                                      *)

(* An answer: its status, whether its Content-Type says JSON, and whether  *)
(* its body can be decoded.                                                *)
Answers == [ok : BOOLEAN, json : BOOLEAN, decodes : BOOLEAN]

(* ParseMetaProfileResponse: what is not JSON is no error, and gives a     *)
(* response whose JSON200 is nil.                                          *)
ParseMetaProfileResponse(a) ==
  CASE a.json /\ ~a.decodes -> "error"
    [] a.json /\ a.decodes  -> "JSON200"
    [] ~a.json              -> "nil"

Outcome(a) == IF a.ok THEN ParseMetaProfileResponse(a) ELSE "error"

(* Client.MetaProfile has asked for all that are missing in one request.   *)
Asked(c) == At(c, "get") /\ call[c].todo = {} /\ call[c].missing # {}

Fetch(c) ==
  /\ Asked(c) /\ \E a \in Answers : Outcome(a) = "JSON200"
  /\ call' = [call EXCEPT ![c].at = "set", ![c].toSet = call[c].missing \cap Known]
  /\ UNCHANGED cacheFile

(* The request cannot be made or sent, its answer is an error, or Set      *)
(* fails: what came from files is returned.                                *)
Fails(c) ==
  /\ \/ Asked(c)
     \/ call[c].at \in {"set", "write"} /\ call[c].toSet # {}
  /\ call' = [call EXCEPT ![c].at = "error", ![c].profiles = @ \ call[c].missing]
  /\ UNCHANGED cacheFile

(* Of an answer that is not JSON fetchMetaProfiles dereferences the nil,   *)
(* which is a panic; the program is started again.                         *)
Dereferences(c) ==
  /\ Asked(c) /\ \E a \in Answers : Outcome(a) = "nil"
  /\ call' = [d \in Callers |-> Idle]
  /\ UNCHANGED cacheFile

(* Filesystem.Set: os.Create and Write.                                    *)
Create(c, sid) ==
  /\ At(c, "set") /\ sid \in call[c].toSet
  /\ cacheFile' = [cacheFile EXCEPT ![sid] = "empty"]
  /\ call' = [call EXCEPT ![c].at = "write", ![c].todo = {sid}]

Write(c, sid) ==
  /\ At(c, "write") /\ sid \in call[c].todo
  /\ cacheFile' = [cacheFile EXCEPT ![sid] = "fresh"]
  /\ call' = [call EXCEPT ![c].at = "set", ![c].todo = {}, ![c].toSet = @ \ {sid},
                          ![c].profiles = @ \cup {sid}]

Return(c) ==
  /\ \/ At(c, "get") /\ call[c].todo \cup call[c].missing = {}
     \/ At(c, "set") /\ call[c].toSet = {}
  /\ call' = [call EXCEPT ![c].at = "returned"]
  /\ UNCHANGED cacheFile

-----------------------------------------------------------------------------

(* The process ends at any other point and is started again.               *)
EndsAndStarts ==
  /\ call' = [c \in Callers |-> Idle]
  /\ UNCHANGED cacheFile

(* A week passes.                                                          *)
Expire(sid) ==
  /\ cacheFile[sid] = "fresh"
  /\ cacheFile' = [cacheFile EXCEPT ![sid] = "expired"]
  /\ UNCHANGED call

MetaInit ==
  /\ cacheFile = [sid \in ProfileSIDs |-> "none"]
  /\ call = [c \in Callers |-> Idle]

MetaNext ==
  \/ \E c \in Callers :
       \/ \E sids \in SUBSET ProfileSIDs \ {{}} : MetaProfiles(c, sids)
       \/ \E sid \in ProfileSIDs : Get(c, sid) \/ Create(c, sid) \/ Write(c, sid)
       \/ Fetch(c) \/ Fails(c) \/ Dereferences(c) \/ Return(c)
  \/ \E sid \in ProfileSIDs : Expire(sid)
  \/ EndsAndStarts

MetaSpec == MetaInit /\ [][MetaNext]_metaVars

-----------------------------------------------------------------------------
(* Properties.                                                             *)

(* Without an error a caller gets the profile of every player that the API *)
(* knows ("if any are missing or expired, they will be fetched from the    *)
(* api"): whatever others write meanwhile, and whatever a process that     *)
(* ended has left in the files.                                            *)
AnswerIsComplete ==
  \A c \in Callers : At(c, "returned") => call[c].profiles = call[c].steamIDs \cap Known

=============================================================================
