------------------------------ MODULE LossyFeed -----------------------------
(***************************************************************************)
(* What a handler registered with events.Router may count on: of the lines *)
(* each log source reads it hears some, every one of them at most once and *)
(* in the order they were read.  Which ones it misses is not promised, nor *)
(* is any order between the lines of two sources.                          *)
(***************************************************************************)
EXTENDS Naturals, Sequences

CONSTANTS Sources, Handlers

VARIABLES sent,  \* sent[src]: how many lines src has read
          got    \* got[ch][src]: the numbers of those ch has heard

feedVars == <<sent, got>>

FeedInit ==
  /\ sent = [src \in Sources |-> 0]
  /\ got = [ch \in Handlers |-> [src \in Sources |-> <<>>]]

ReadLine(src) ==
  /\ sent' = [sent EXCEPT ![src] = @ + 1]
  /\ UNCHANGED got

Hear(ch, src) ==
  /\ \E n \in 1..sent[src] :
       /\ \A k \in DOMAIN got[ch][src] : got[ch][src][k] < n
       /\ got' = [got EXCEPT ![ch][src] = Append(@, n)]
  /\ UNCHANGED sent

FeedNext ==
  \E src \in Sources : ReadLine(src) \/ \E ch \in Handlers : Hear(ch, src)

FeedSpec == FeedInit /\ [][FeedNext]_feedVars

=============================================================================
