---------------------------- MODULE NetworkProofs ---------------------------
(***************************************************************************)
(* Proofs about what comes from the network.  Rcon and DumpText: the       *)
(* answer of a game server and what is made of it, for packets, answers,   *)
(* players and lines of any size and number; Upnp: the mapping in the      *)
(* router; BotLists: any number of downloads.                              *)
(***************************************************************************)
EXTENDS Rcon, Upnp, DumpText, BotLists, Loops, SequenceTheorems, FiniteSetTheorems, TLAPS

-----------------------------------------------------------------------------
(* Rcon: the pieces of an answer.                                          *)

Packets == [ours : BOOLEAN, size : Nat]

(* What a packet adds to the answer.                                       *)
Share(packet) == IF packet.ours THEN packet.size ELSE 0

(* How far the answer is before each packet of the inbox: from what was    *)
(* read to what was sent.  A packet of ours that is not full ends it.      *)
Offsets(off) ==
  /\ off \in [1 .. Len(inbox) + 1 -> Nat]
  /\ off[1] = response
  /\ off[Len(inbox) + 1] = emitted
  /\ \A k \in 1 .. Len(inbox) :
       /\ off[k + 1] = off[k] + Share(inbox[k])
       /\ inbox[k].ours /\ Ends(inbox[k]) => off[k + 1] = answer

RconInv ==
  /\ large \in BOOLEAN
  /\ answer \in Nat /\ emitted \in Nat /\ response \in Nat
  /\ emitted <= answer
  /\ inbox \in Seq(Packets)
  /\ large /\ exec \in {"dial", "reading"} => \E off : Offsets(off)
  /\ LargeIsWhole

(* A piece that is not full is the last one.                               *)
LEMMA PieceOK ==
  ASSUME RconInv
  PROVE  /\ Piece \in Nat
         /\ emitted + Piece <= answer
         /\ Piece < PacketSize => emitted + Piece = answer
BY RconAssumption DEF RconInv, Piece

(* Another packet in the inbox.                                            *)
LEMMA PacketArrives ==
  ASSUME RconInv, NEW packet \in Packets, NEW off, Offsets(off),
         inbox' = Append(inbox, packet),
         emitted' = emitted + Share(packet),
         packet.ours /\ Ends(packet) => emitted' = answer,
         UNCHANGED <<answer, response>>
  PROVE  \E o : Offsets(o)'
<1>1. inbox \in Seq(Packets) /\ Len(inbox) \in Nat /\ emitted \in Nat /\ Share(packet) \in Nat
  BY LenProperties DEF RconInv, Share, Packets
<1>2. /\ Len(inbox') = Len(inbox) + 1
      /\ \A k \in 1 .. Len(inbox) : inbox'[k] = inbox[k]
      /\ inbox'[Len(inbox) + 1] = packet
  BY <1>1, AppendProperties
<1>3. PICK n \in Nat : n = Len(inbox)
  BY <1>1
<1>0. PICK sum : sum = emitted'
  OBVIOUS
<1> DEFINE o == [k \in 1 .. n + 2 |-> IF k = n + 2 THEN sum ELSE off[k]]
<1>4. /\ o \in [1 .. Len(inbox') + 1 -> Nat]
      /\ o[n + 2] = emitted'
      /\ \A k \in 1 .. n + 1 : o[k] = off[k]
  BY <1>0, <1>1, <1>2, <1>3 DEF Offsets
<1>5. o[1] = response' /\ o[Len(inbox') + 1] = emitted'
  BY <1>2, <1>3, <1>4 DEF Offsets
<1>6. ASSUME NEW k \in 1 .. Len(inbox')
      PROVE  /\ o[k + 1] = o[k] + Share(inbox'[k])
             /\ inbox'[k].ours /\ Ends(inbox'[k]) => o[k + 1] = answer'
  <2>1. CASE k = n + 1
    <3>1. o[k] = emitted /\ o[k + 1] = emitted' /\ inbox'[k] = packet
      BY <1>2, <1>3, <1>4, <2>1 DEF Offsets
    <3> QED BY <3>1
  <2>2. CASE k \in 1 .. n
    <3>1. o[k] = off[k] /\ o[k + 1] = off[k + 1] /\ inbox'[k] = inbox[k]
      BY <1>2, <1>3, <1>4, <2>2
    <3> QED BY <1>3, <2>2, <3>1 DEF Offsets
  <2> QED BY <1>2, <1>3, <2>1, <2>2
<1> HIDE DEF o
<1>7. Offsets(o)'
  BY <1>4, <1>5, <1>6 DEF Offsets
<1> QED BY <1>7

(* The first packet is read: its share is in the response.                 *)
LEMMA PacketRead ==
  ASSUME RconInv, NEW off, Offsets(off), inbox # <<>>,
         inbox' = Tail(inbox),
         response' = response + Share(Head(inbox)),
         UNCHANGED <<answer, emitted>>
  PROVE  /\ \E o : Offsets(o)'
         /\ Head(inbox).ours /\ Ends(Head(inbox)) => response' = answer
<1>1. inbox \in Seq(Packets) /\ Len(inbox) \in Nat
  BY LenProperties DEF RconInv
<1>2. /\ Len(inbox) # 0
      /\ Head(inbox) = inbox[1]
      /\ Len(inbox') = Len(inbox) - 1
      /\ \A k \in 1 .. Len(inbox) - 1 : inbox'[k] = inbox[k + 1]
  BY <1>1, EmptySeq, HeadTailProperties
<1>3. PICK n \in Nat : n = Len(inbox)
  BY <1>1
<1> DEFINE o == [k \in 1 .. n |-> off[k + 1]]
<1>4. o \in [1 .. Len(inbox') + 1 -> Nat] /\ \A k \in 1 .. n : o[k] = off[k + 1]
  BY <1>1, <1>2, <1>3 DEF Offsets
<1>5. /\ off[2] = response'
      /\ Head(inbox).ours /\ Ends(Head(inbox)) => off[2] = answer
  BY <1>2, <1>3 DEF Offsets
<1>6. o[1] = response' /\ o[Len(inbox') + 1] = emitted'
  BY <1>2, <1>3, <1>4, <1>5 DEF Offsets
<1>7. ASSUME NEW k \in 1 .. Len(inbox')
      PROVE  /\ o[k + 1] = o[k] + Share(inbox'[k])
             /\ inbox'[k].ours /\ Ends(inbox'[k]) => o[k + 1] = answer'
  <2>1. /\ o[k] = off[k + 1] /\ o[k + 1] = off[(k + 1) + 1] /\ inbox'[k] = inbox[k + 1]
        /\ k + 1 \in 1 .. Len(inbox)
    BY <1>2, <1>3, <1>4
  <2> QED BY <2>1 DEF Offsets
<1> HIDE DEF o
<1>8. Offsets(o)'
  BY <1>4, <1>6, <1>7 DEF Offsets
<1> QED BY <1>5, <1>8

(* A long answer is returned whole or not at all, for packets and answers  *)
(* of any size, and whatever else is on the connection: a piece that is    *)
(* not full is the last of the answer, and no piece is lost before it.     *)
THEOREM LargeIsWholeHolds == RconSpec => []LargeIsWhole
<1>1. RconInit => RconInv
  <2> SUFFICES ASSUME RconInit PROVE RconInv
    OBVIOUS
  <2>1. inbox = <<>> /\ inbox \in Seq(Packets) /\ Len(inbox) = 0
    BY EmptySeq DEF RconInit
  <2>2. Offsets([k \in 1 .. 1 |-> 0])
    BY <2>1 DEF RconInit, Offsets
  <2>3. answer \in Nat
    BY RconAssumption DEF RconInit
  <2> QED BY <2>1, <2>2, <2>3 DEF RconInit, RconInv, LargeIsWhole
<1>2. RconInv /\ [RconNext]_rconVars => RconInv'
  <2> SUFFICES ASSUME RconInv, [RconNext]_rconVars PROVE RconInv'
    OBVIOUS
  <2>1. ASSUME NEW ok \in BOOLEAN, Dial(ok) PROVE RconInv'
    BY <2>1 DEF Dial, RconInv, LargeIsWhole, Offsets
  <2>2. CASE ServerSends
    <3>0. PICK packet : packet = [ours |-> TRUE, size |-> Piece]
      OBVIOUS
    <3>1. /\ packet \in Packets /\ packet.ours /\ packet.size = Piece
          /\ Share(packet) = Piece
      BY <3>0, PieceOK DEF Packets, Share
    <3>2. /\ inbox' = Append(inbox, packet) /\ emitted' = emitted + Share(packet)
          /\ exec = "reading" /\ UNCHANGED <<exec, large, answer, response>>
      BY <2>2, <3>0, <3>1 DEF ServerSends
    <3>3. packet.ours /\ Ends(packet) => emitted' = answer
      BY <3>1, <3>2, PieceOK DEF Ends
    <3>4. inbox' \in Seq(Packets)
      BY <3>1, <3>2, AppendProperties DEF RconInv
    <3>5. emitted' \in Nat /\ emitted' <= answer
      BY <3>1, <3>2, PieceOK DEF RconInv
    <3>6. large => \E off : Offsets(off)'
      BY <3>1, <3>2, <3>3, PacketArrives DEF RconInv
    <3> QED BY <3>2, <3>4, <3>5, <3>6 DEF RconInv, LargeIsWhole
  <2>3. CASE ForeignPacket
    <3>1. PICK size \in {0, PacketSize} : inbox' = Append(inbox, [ours |-> FALSE, size |-> size])
      BY <2>3 DEF ForeignPacket
    <3>0. PICK packet : packet = [ours |-> FALSE, size |-> size]
      OBVIOUS
    <3>2. /\ packet \in Packets /\ ~packet.ours
          /\ Share(packet) = 0
      BY <3>0, RconAssumption DEF Packets, Share
    <3>3. /\ inbox' = Append(inbox, packet) /\ emitted' = emitted + Share(packet)
          /\ ~packet.ours
          /\ exec = "reading" /\ UNCHANGED <<exec, large, answer, response, emitted>>
      BY <2>3, <3>0, <3>1, <3>2 DEF ForeignPacket, RconInv
    <3>4. inbox' \in Seq(Packets)
      BY <3>2, <3>3, AppendProperties DEF RconInv
    <3>5. large => \E off : Offsets(off)'
      BY <3>2, <3>3, PacketArrives DEF RconInv
    <3> QED BY <3>3, <3>4, <3>5 DEF RconInv, LargeIsWhole
  <2>4. CASE ReadSmall
    <3>1. inbox \in Seq(Packets) /\ inbox # <<>>
      BY <2>4 DEF ReadSmall, RconInv
    <3>2. inbox' \in Seq(Packets) /\ Head(inbox) \in Packets
      BY <2>4, <3>1, HeadTailProperties DEF ReadSmall
    <3>3. response' \in Nat
      BY <2>4, <3>2, RconAssumption DEF ReadSmall, Packets, Alien
    <3> QED BY <2>4, <3>2, <3>3 DEF ReadSmall, RconInv, LargeIsWhole
  <2>5. CASE ReadLarge
    <3>1. inbox \in Seq(Packets) /\ inbox # <<>> /\ exec = "reading" /\ large
      BY <2>5 DEF ReadLarge, RconInv
    <3>2. /\ inbox' = Tail(inbox) /\ inbox' \in Seq(Packets) /\ Head(inbox) \in Packets
          /\ UNCHANGED <<large, answer, emitted>>
      BY <2>5, <3>1, HeadTailProperties DEF ReadLarge
    <3>3. response' = response + Share(Head(inbox)) /\ response' \in Nat
      BY <2>5, <3>2 DEF ReadLarge, Share, Packets, RconInv
    <3>4. PICK off : Offsets(off)
      BY <3>1 DEF RconInv
    <3>5. /\ \E o : Offsets(o)'
          /\ Head(inbox).ours /\ Ends(Head(inbox)) => response' = answer
      BY <3>1, <3>2, <3>3, <3>4, PacketRead
    <3>6. exec' = "returned" => Head(inbox).ours /\ Ends(Head(inbox))
      BY <2>5, <3>1 DEF ReadLarge
    <3> QED BY <3>2, <3>3, <3>5, <3>6 DEF RconInv, LargeIsWhole
  <2>6. CASE ReadFails
    BY <2>6 DEF ReadFails, RconInv, LargeIsWhole
  <2>7. CASE UNCHANGED rconVars
    BY <2>7 DEF rconVars, RconInv, LargeIsWhole, Offsets
  <2> QED BY <2>1, <2>2, <2>3, <2>4, <2>5, <2>6, <2>7 DEF RconNext
<1>3. RconInv => LargeIsWhole
  BY DEF RconInv
<1> QED BY <1>1, <1>2, <1>3, PTL DEF RconSpec

-----------------------------------------------------------------------------
(* Upnp: the lease.                                                        *)

(* Every quarter of an hour takes one from the lease and is followed by    *)
(* one call, which renews it or has failed.                                *)
LeaseInv ==
  /\ lease \in Nat /\ failed \in Nat
  /\ made /\ ~due => lease + failed >= LeaseQuarters
  /\ made /\ due => lease + failed + 1 >= LeaseQuarters

(* The mapping, once made, outlives two failures of updateMapping in a     *)
(* row, in a network with any number of services.                          *)
THEOREM MappingOutlivesHolds == UpnpSpec => []MappingOutlives
<1>1. UpnpInit => LeaseInv
  BY DEF UpnpInit, LeaseInv
<1>2. LeaseInv /\ [UpnpNext]_upnpVars => LeaseInv'
  <2> SUFFICES ASSUME LeaseInv, [UpnpNext]_upnpVars PROVE LeaseInv'
    OBVIOUS
  <2>1. CASE QuarterPasses
    <3>1. ~due /\ due' /\ (made' => made)
      BY <2>1 DEF QuarterPasses
    <3>2. lease' = (IF lease > 0 THEN lease - 1 ELSE 0) /\ failed' = failed
      BY <2>1 DEF QuarterPasses
    <3>3. lease \in Nat /\ failed \in Nat /\ (made => lease + failed >= LeaseQuarters)
      BY <3>1 DEF LeaseInv
    <3>4. lease' \in Nat /\ failed' \in Nat /\ lease' + 1 >= lease
      BY <3>2, <3>3
    <3>5. made => lease' + failed' + 1 >= LeaseQuarters
      BY <3>2, <3>3, <3>4 DEF LeaseQuarters
    <3> QED BY <3>1, <3>4, <3>5 DEF LeaseInv, LeaseQuarters
  <2>2. ASSUME NEW found, NEW ok \in BOOLEAN, UpdateMapping(found, ok)
        PROVE  LeaseInv'
    <3>1. PICK mapped : mapped = (FindsClient(found) /\ ok)
      OBVIOUS
    <3>2. due /\ ~due' /\ (made' <=> made \/ mapped)
      BY <2>2, <3>1 DEF UpdateMapping
    <3>3. lease \in Nat /\ failed \in Nat /\ (made => lease + failed + 1 >= LeaseQuarters)
      BY <3>2 DEF LeaseInv
    <3>4. CASE mapped
      <4>1. lease' = LeaseQuarters /\ failed' = 0
        BY <2>2, <3>1, <3>4 DEF UpdateMapping
      <4> QED BY <3>2, <4>1 DEF LeaseInv, LeaseQuarters
    <3>5. CASE ~mapped
      <4>1. lease' = lease /\ failed' = (IF failed < LeaseQuarters THEN failed + 1 ELSE failed)
        BY <2>2, <3>1, <3>5 DEF UpdateMapping
      <4>2. made' => made
        BY <3>2, <3>5
      <4>3. /\ lease' \in Nat /\ failed' \in Nat
            /\ made => lease' + failed' >= LeaseQuarters
        BY <3>3, <4>1 DEF LeaseQuarters
      <4> QED BY <3>2, <4>2, <4>3 DEF LeaseInv
    <3> QED BY <3>4, <3>5
  <2>3. CASE UNCHANGED upnpVars
    BY <2>3 DEF upnpVars, LeaseInv
  <2> QED BY <2>1, <2>2, <2>3 DEF UpnpNext
<1>3. LeaseInv => MappingOutlives
  BY DEF LeaseInv, MappingOutlives, LeaseQuarters
<1> QED BY <1>1, <1>2, <1>3, PTL DEF UpnpSpec

-----------------------------------------------------------------------------
(* DumpText: dumps made of a status and of g15_dumpplayer.                 *)

(* A list in which user IDs increase.                                      *)
Increases(d) == \A i, j \in 1 .. Len(d) : i < j => d[i] < d[j]

(* The players of a server can be sorted: the place of each is the number  *)
(* of those who have no higher ID.                                         *)
LEMMA CanBeSorted ==
  ASSUME NEW S \in SUBSET Nat, IsFiniteSet(S)
  PROVE  \E d \in [1 .. Cardinality(S) -> S] :
           \A i, j \in DOMAIN d : i < j => d[i] < d[j]
<1> DEFINE UpTo(u) == {v \in S : v <= u}
           n == Cardinality(S)
           place == [u \in S |-> Cardinality(UpTo(u))]
           sorted == [i \in 1 .. n |-> CHOOSE u \in S : place[u] = i]
<1>1. n \in Nat
  BY FS_CardinalityType
<1>2. ASSUME NEW u \in S
      PROVE  IsFiniteSet(UpTo(u)) /\ place[u] \in 1 .. n
  <2>1. IsFiniteSet(UpTo(u)) /\ Cardinality(UpTo(u)) <= n
    BY FS_Subset
  <2>2. Cardinality(UpTo(u)) \in Nat /\ Cardinality(UpTo(u)) # 0
    <3>1. u \in UpTo(u)
      OBVIOUS
    <3> QED BY <2>1, <3>1, FS_CardinalityType, FS_EmptySet
  <2> HIDE DEF UpTo, n
  <2> QED BY <1>1, <2>1, <2>2
<1>3. ASSUME NEW u \in S, NEW v \in S, u < v
      PROVE  place[u] < place[v]
  <2>1. UpTo(u) \subseteq UpTo(v) /\ v \in UpTo(v) /\ v \notin UpTo(u)
    <3>1. u \in Nat /\ v \in Nat /\ \A w \in S : w \in Nat
      OBVIOUS
    <3>2. ~(v <= u) /\ \A w \in S : w <= u => w <= v
      BY <1>3, <3>1
    <3>3. v \in UpTo(v)
      BY <3>1
    <3> QED BY <3>2, <3>3
  <2> HIDE DEF UpTo
  <2>2. /\ Cardinality(UpTo(u)) <= Cardinality(UpTo(v))
        /\ Cardinality(UpTo(u)) # Cardinality(UpTo(v))
    BY <1>2, <2>1, FS_Subset
  <2>3. Cardinality(UpTo(u)) \in Nat /\ Cardinality(UpTo(v)) \in Nat
    BY <1>2, FS_CardinalityType
  <2> QED BY <2>2, <2>3
<1>4. \A i \in 1 .. n : \E u \in S : place[u] = i
  <2>1. place \in [S -> 1 .. n]
    BY <1>2
  <2>2. \A u, v \in S : place[u] = place[v] => u = v
    <3> SUFFICES ASSUME NEW u \in S, NEW v \in S, place[u] = place[v], u # v
                 PROVE  FALSE
      OBVIOUS
    <3>1. u < v \/ v < u
      OBVIOUS
    <3>2. place[u] \in Nat /\ place[v] \in Nat
      BY <1>2
    <3> HIDE DEF place
    <3> QED BY <1>3, <3>1, <3>2
  <2> HIDE DEF place
  <2>3. place \in Injection(S, 1 .. n)
    BY <2>1, <2>2 DEF Injection, IsInjective
  <2>4. IsFiniteSet(1 .. n) /\ Cardinality(1 .. n) = n
    BY <1>1, FS_Interval
  <2>5. place \in Surjection(S, 1 .. n)
    BY <2>3, <2>4, FS_Injection
  <2> QED BY <2>5 DEF Surjection
<1>5. \A i \in 1 .. n : sorted[i] \in S /\ place[sorted[i]] = i
  BY <1>4
<1>6. ASSUME NEW i \in 1 .. n, NEW j \in 1 .. n, i < j
      PROVE  sorted[i] < sorted[j]
  <2>1. sorted[i] \in Nat /\ sorted[j] \in Nat
    BY <1>5
  <2> HIDE DEF place, sorted, n
  <2>2. ~(sorted[j] < sorted[i])
    <3>1. i \in Nat /\ j \in Nat /\ ~(j < i)
      BY <1>1, <1>6
    <3>2. sorted[i] \in S /\ sorted[j] \in S /\ place[sorted[i]] = i /\ place[sorted[j]] = j
      BY <1>5
    <3> QED BY <1>3, <3>1, <3>2
  <2>3. sorted[j] # sorted[i]
    BY <1>1, <1>5, <1>6
  <2> QED BY <2>1, <2>2, <2>3
<1>7. sorted \in [1 .. n -> S]
  BY <1>5
<1>8. DOMAIN sorted = 1 .. n
  OBVIOUS
<1> HIDE DEF sorted
<1> QED BY <1>6, <1>7, <1>8

(* In a list that increases the place of an ID is the number of lower ones *)
(* and one more.                                                           *)
LEMMA PlaceInList ==
  ASSUME NEW d \in Seq(Nat), Increases(d), NEW k \in 1 .. Len(d)
  PROVE  Cardinality({v \in ToSet(d) : v < d[k]}) = k - 1
<1> DEFINE lower == {v \in ToSet(d) : v < d[k]}
           f == [i \in 1 .. k - 1 |-> d[i]]
<1>1. Len(d) \in Nat /\ DOMAIN d = 1 .. Len(d) /\ \A i \in 1 .. Len(d) : d[i] \in Nat
  BY LenProperties, ElementOfSeq
<1>2. ToSet(d) = {d[i] : i \in 1 .. Len(d)}
  BY <1>1 DEF ToSet
<1>3. ASSUME NEW i \in 1 .. Len(d)
      PROVE  d[i] < d[k] <=> i < k
  BY <1>1, <1>3 DEF Increases
<1>4. f \in [1 .. k - 1 -> lower]
  BY <1>1, <1>2, <1>3
<1>5. \A i, j \in 1 .. k - 1 : f[i] = f[j] => i = j
  <2> SUFFICES ASSUME NEW i \in 1 .. k - 1, NEW j \in 1 .. k - 1, i < j
               PROVE  f[i] # f[j]
    BY <1>1
  <2>1. d[i] < d[j] /\ d[i] \in Nat /\ d[j] \in Nat
    BY <1>1 DEF Increases
  <2> QED BY <2>1
<1>6. \A v \in lower : \E i \in 1 .. k - 1 : f[i] = v
  <2> SUFFICES ASSUME NEW v \in lower PROVE \E i \in 1 .. k - 1 : f[i] = v
    OBVIOUS
  <2>1. PICK i \in 1 .. Len(d) : d[i] = v
    BY <1>2
  <2>2. i \in 1 .. k - 1
    BY <1>1, <1>3, <2>1
  <2> QED BY <2>1, <2>2
<1> HIDE DEF lower, f
<1>7. f \in Bijection(1 .. k - 1, lower)
  BY <1>4, <1>5, <1>6 DEF Bijection, Injection, Surjection, IsInjective
<1>8. IsFiniteSet(1 .. k - 1) /\ Cardinality(1 .. k - 1) = k - 1
  <2>1. 1 \in Int /\ k - 1 \in Nat
    BY <1>1
  <2>2. /\ IsFiniteSet(1 .. k - 1)
        /\ Cardinality(1 .. k - 1) = IF 1 > k - 1 THEN 0 ELSE (k - 1) - 1 + 1
    BY <2>1, FS_Interval
  <2> QED BY <2>1, <2>2
<1>9. Cardinality(lower) = k - 1
  BY <1>7, <1>8, FS_Bijection DEF ExistsBijection
<1> QED BY <1>9 DEF lower

(* Status: who is on the server has a user ID that was given out, as has   *)
(* who is in the last dump; who is on the server and not in the last dump  *)
(* came after all who are, unless that dump is empty.                      *)
StatusInv ==
  /\ joined \in Nat
  /\ DOMAIN slots \subseteq Nat /\ slots \in [DOMAIN slots -> 0 .. joined]
  /\ dump \in Seq(0 .. joined) /\ Increases(dump)
  /\ \A s \in DOMAIN slots, k \in 1 .. Len(dump) :
       slots[s] = 0 \/ slots[s] \in ToSet(dump) \/ dump[k] < slots[s]

(* What OnStatus makes of the slots: their players, each once and in order.*)
LEMMA SortedOK ==
  ASSUME StatusInv
  PROVE  /\ SortedByUserID \in Seq(0 .. joined) /\ Increases(SortedByUserID)
         /\ ToSet(SortedByUserID) = Listed
<1> DEFINE d == SortedByUserID
           n == Cardinality(Listed)
<1>1. Listed \subseteq 0 .. joined /\ 0 .. joined \subseteq Nat /\ joined \in Nat
  BY DEF Listed, StatusInv
<1>2. IsFiniteSet(Listed)
  <2>1. IsFiniteSet(0 .. joined)
    BY <1>1, FS_Interval
  <2> QED BY <1>1, <2>1, FS_Subset
<1>3. n \in Nat
  BY <1>2, FS_CardinalityType
<1>4. /\ d \in [1 .. n -> Listed]
      /\ \A i, j \in DOMAIN d : i < j => d[i] < d[j]
  BY <1>1, <1>2, CanBeSorted DEF SortedByUserID
<1> HIDE DEF d
<1>5. d \in Seq(0 .. joined) /\ Len(d) = n
  <2> HIDE DEF n
  <2>1. d \in [1 .. n -> 0 .. joined]
    BY <1>1, <1>4
  <2>2. d \in Seq(0 .. joined)
    BY <1>3, <2>1, SeqDef
  <2> QED BY <1>3, <2>1, <2>2, LenProperties
<1>6. Increases(d)
  BY <1>4, <1>5 DEF Increases
<1>7. ToSet(d) = Listed
  <2>1. \A i, j \in 1 .. n : d[i] = d[j] => i = j
    <3> SUFFICES ASSUME NEW i \in 1 .. n, NEW j \in 1 .. n, i < j
                 PROVE  d[i] # d[j]
      BY <1>3
    <3>1. d[i] \in Nat /\ d[j] \in Nat /\ d[i] < d[j]
      BY <1>1, <1>4
    <3> QED BY <3>1
  <2> HIDE DEF n
  <2>2. d \in Injection(1 .. n, Listed)
    BY <1>4, <2>1 DEF Injection, IsInjective
  <2>3. IsFiniteSet(1 .. n) /\ Cardinality(1 .. n) = n
    BY <1>3, FS_Interval
  <2>4. d \in Surjection(1 .. n, Listed)
    BY <1>2, <2>2, <2>3, FS_Injection DEF n
  <2> QED BY <1>4, <2>4 DEF Surjection, ToSet
<1> QED BY <1>5, <1>6, <1>7 DEF d

LEMMA StatusStep ==
  ASSUME StatusInv, [StatusNext \/ G15Next]_dumpVars
  PROVE  StatusInv'
<1>1. CASE JoinServer
  <2>1. PICK s \in DOMAIN slots : /\ slots' = [slots EXCEPT ![s] = joined']
                                  /\ joined' = joined + 1 /\ dump' = dump
    BY <1>1 DEF JoinServer
  <2>2. joined \in Nat /\ joined' \in Nat /\ 0 .. joined \subseteq 0 .. joined'
    BY <2>1 DEF StatusInv
  <2>3. DOMAIN slots' = DOMAIN slots /\ slots' \in [DOMAIN slots' -> 0 .. joined']
    BY <2>1, <2>2 DEF StatusInv
  <2>4. dump' \in Seq(0 .. joined')
    BY <2>1, <2>2 DEF StatusInv
  <2>5. \A k \in 1 .. Len(dump) : dump[k] \in 0 .. joined
    BY ElementOfSeq DEF StatusInv
  <2>6. ASSUME NEW t \in DOMAIN slots, NEW k \in 1 .. Len(dump)
        PROVE  slots'[t] = 0 \/ slots'[t] \in ToSet(dump) \/ dump[k] < slots'[t]
    <3>1. CASE t = s
      BY <2>1, <2>2, <2>5, <3>1
    <3>2. CASE t # s
      BY <2>1, <3>2 DEF StatusInv
    <3> QED BY <3>1, <3>2
  <2> QED BY <2>1, <2>2, <2>3, <2>4, <2>6 DEF StatusInv, Increases
<1>2. CASE LeaveServer
  <2>1. PICK s \in DOMAIN slots : /\ slots' = [slots EXCEPT ![s] = 0]
                                  /\ joined' = joined /\ dump' = dump
    BY <1>2 DEF LeaveServer
  <2>2. DOMAIN slots' = DOMAIN slots /\ slots' \in [DOMAIN slots' -> 0 .. joined']
    BY <2>1 DEF StatusInv
  <2>3. \A t \in DOMAIN slots : slots'[t] = 0 \/ slots'[t] = slots[t]
    BY <2>1 DEF StatusInv
  <2> QED BY <2>1, <2>2, <2>3 DEF StatusInv, Increases
<1>3. CASE OnStatus
  <2>1. UNCHANGED <<slots, joined>>
    BY <1>3 DEF OnStatus
  <2>2. CASE dump' = <<>>
    BY <2>1, <2>2 DEF StatusInv, Increases
  <2>3. CASE dump' = SortedByUserID
    <3>1. /\ dump' \in Seq(0 .. joined) /\ Increases(dump')
          /\ ToSet(dump') = Listed
      BY <2>3, SortedOK
    <3>2. \A s \in DOMAIN slots : slots[s] = 0 \/ slots[s] \in Listed
      BY DEF Listed
    <3> QED BY <2>1, <3>1, <3>2 DEF StatusInv, Increases
  <2> QED BY <1>3, <2>2, <2>3 DEF OnStatus
<1>4. CASE UNCHANGED <<slots, joined, dump>>
  BY <1>4 DEF StatusInv, Increases
<1> QED BY <1>1, <1>2, <1>3, <1>4 DEF StatusNext, G15Next, ScanLine, ScanFails, dumpVars

(* Two dumps in a row of which the second has all players of the first:    *)
(* the rest of it came after them, so that each keeps his place.           *)
LEMMA PlacesKept ==
  ASSUME NEW d \in Seq(Nat), Increases(d), NEW e \in Seq(Nat), Increases(e),
         ToSet(d) \subseteq ToSet(e),
         \A v \in ToSet(e), k \in 1 .. Len(d) : v \in ToSet(d) \/ d[k] < v,
         NEW u \in ToSet(d)
  PROVE  TeamsIn(e)[u] = TeamsIn(d)[u]
<1>1. /\ Len(d) \in Nat /\ DOMAIN d = 1 .. Len(d) /\ \A k \in 1 .. Len(d) : d[k] \in Nat
      /\ Len(e) \in Nat /\ DOMAIN e = 1 .. Len(e) /\ \A k \in 1 .. Len(e) : e[k] \in Nat
  BY LenProperties, ElementOfSeq
<1>2. /\ ToSet(d) = {d[k] : k \in 1 .. Len(d)}
      /\ ToSet(e) = {e[k] : k \in 1 .. Len(e)}
  BY <1>1 DEF ToSet
<1>3. PICK k \in 1 .. Len(d) : d[k] = u
  BY <1>2
<1>4. PICK l \in 1 .. Len(e) : e[l] = u
  BY <1>2
<1>5. k = l
  <2>1. {v \in ToSet(d) : v < u} = {v \in ToSet(e) : v < u}
    <3>1. ASSUME NEW v \in ToSet(e), v < u PROVE v \in ToSet(d)
      <4>1. v \in Nat /\ u \in Nat
        BY <1>1, <1>2
      <4> QED BY <1>3, <3>1, <4>1
    <3> QED BY <3>1
  <2>2. k - 1 = l - 1
    BY <1>3, <1>4, <2>1, PlaceInList
  <2> QED BY <1>1, <2>2
<1>6. ASSUME NEW i \in 0 .. Len(d) - 1, d[i + 1] = u PROVE i = k - 1
  <2>1. i + 1 \in 1 .. Len(d) /\ u \in Nat
    BY <1>1, <1>3
  <2>2. ~(i + 1 < k) /\ ~(k < i + 1)
    BY <1>3, <1>6, <2>1 DEF Increases
  <2> QED BY <1>1, <2>1, <2>2
<1>7. ASSUME NEW i \in 0 .. Len(e) - 1, e[i + 1] = u PROVE i = k - 1
  <2>1. i + 1 \in 1 .. Len(e) /\ u \in Nat
    BY <1>1, <1>4
  <2>2. ~(i + 1 < l) /\ ~(l < i + 1)
    BY <1>4, <1>7, <2>1 DEF Increases
  <2> QED BY <1>1, <1>5, <2>1, <2>2
<1>8. /\ k - 1 \in 0 .. Len(d) - 1 /\ d[(k - 1) + 1] = u
      /\ k - 1 \in 0 .. Len(e) - 1 /\ e[(k - 1) + 1] = u
  BY <1>1, <1>3, <1>4, <1>5
<1>9. (CHOOSE i \in 0 .. Len(d) - 1 : d[i + 1] = u) = k - 1
  BY <1>6, <1>8
<1>10. (CHOOSE i \in 0 .. Len(e) - 1 : e[i + 1] = u) = k - 1
  BY <1>7, <1>8
<1>11. u \in ToSet(e)
  OBVIOUS
<1>12. TeamsIn(d)[u] = TeamAt(CHOOSE j \in 0 .. Len(d) - 1 : d[j + 1] = u)
  BY DEF TeamsIn
<1>13. TeamsIn(e)[u] = TeamAt(CHOOSE j \in 0 .. Len(e) - 1 : e[j + 1] = u)
  BY <1>11 DEF TeamsIn
<1> QED BY <1>9, <1>10, <1>12, <1>13

(* The lines of the answer that are for a field of a player.               *)
LinesFor(f, i) == {k \in DOMAIN reply : reply[k].field = f /\ reply[k].index = i}

(* parsePlayerState: the data has the zero value, or what the last of the  *)
(* lines for the field says.                                               *)
FieldOK(f, i) ==
  \/ LinesFor(f, i) = {} /\ g15[f][i] = 0
  \/ \E k \in LinesFor(f, i) : /\ \A j \in LinesFor(f, i) : j <= k
                               /\ g15[f][i] = Value(reply[k])

G15Inv ==
  /\ reply \in Seq(G15Lines)
  /\ DOMAIN g15 = Fields /\ \A f \in Fields : g15[f] = [i \in Indices |-> g15[f][i]]
  /\ \A f \in Fields, i \in Indices : FieldOK(f, i)

(* A line that was read changes the field it is for, if there is one, and  *)
(* no other.                                                               *)
LEMMA ScanLineOK ==
  ASSUME G15Inv, ScanLine
  PROVE  G15Inv'
<1>1. PICK line \in G15Lines :
        /\ reply' = Append(reply, line)
        /\ \/ Skips(line) /\ UNCHANGED <<g15, scan>>
           \/ /\ ~Skips(line) /\ IndexOf(line) \in Indices
              /\ g15' = [g15 EXCEPT ![line.field][line.index] = Value(line)]
           \/ /\ ~Skips(line) /\ IndexOf(line) \notin Indices
              /\ UNCHANGED g15
  BY DEF ScanLine
<1> DEFINE n == Len(reply)
<1>2. /\ n \in Nat /\ DOMAIN reply = 1 .. n
      /\ reply' \in Seq(G15Lines) /\ DOMAIN reply' = 1 .. n + 1
      /\ \A k \in 1 .. n : reply'[k] = reply[k]
      /\ reply'[n + 1] = line
  BY <1>1, LenProperties, AppendProperties DEF G15Inv
<1>3. ASSUME NEW f \in Fields, NEW i \in Indices
      PROVE  LinesFor(f, i)' = IF line.field = f /\ line.index = i
                               THEN LinesFor(f, i) \cup {n + 1} ELSE LinesFor(f, i)
  <2>1. LinesFor(f, i)' = {k \in 1 .. n + 1 : reply'[k].field = f /\ reply'[k].index = i}
    BY <1>2 DEF LinesFor
  <2>2. LinesFor(f, i) = {k \in 1 .. n : reply[k].field = f /\ reply[k].index = i}
    BY <1>2 DEF LinesFor
  <2>3. 1 .. n + 1 = 1 .. n \cup {n + 1}
    BY <1>2
  <2> HIDE DEF n
  <2> QED BY <1>2, <2>1, <2>2, <2>3
<1>4. ASSUME NEW f \in Fields, NEW i \in Indices, LinesFor(f, i)' = LinesFor(f, i),
             g15'[f][i] = g15[f][i]
      PROVE  FieldOK(f, i)'
  <2>1. FieldOK(f, i)
    BY DEF G15Inv
  <2>2. \A k \in LinesFor(f, i) : reply'[k] = reply[k]
    BY <1>2 DEF LinesFor
  <2> QED BY <1>4, <2>1, <2>2 DEF FieldOK
<1>5. ASSUME UNCHANGED g15,
             \A f \in Fields, i \in Indices : ~(line.field = f /\ line.index = i)
      PROVE  G15Inv'
  <2>1. \A f \in Fields, i \in Indices : FieldOK(f, i)'
    BY <1>3, <1>4, <1>5
  <2> QED BY <1>2, <1>5, <2>1 DEF G15Inv
<1>6. "none" \notin Fields /\ \A i \in Indices : i # Huge /\ i \in Nat
  BY DumpAssumption DEF Fields, Indices, Huge
<1>7. CASE Skips(line) /\ UNCHANGED <<g15, scan>>
  <2>1. \A f \in Fields, i \in Indices : ~(line.field = f /\ line.index = i)
    BY <1>6, <1>7 DEF Skips, IndexOf
  <2> QED BY <1>5, <1>7, <2>1
<1>8. CASE /\ ~Skips(line) /\ IndexOf(line) \notin Indices
           /\ UNCHANGED g15
  BY <1>5, <1>6, <1>8 DEF IndexOf
<1>9. CASE /\ ~Skips(line) /\ IndexOf(line) \in Indices
           /\ g15' = [g15 EXCEPT ![line.field][line.index] = Value(line)]
  <2>1. line.field \in Fields /\ line.index \in Indices
    <3>1. Junk.field = "none" /\ Junk.index = 0
      BY Zenon DEF Junk
    <3>2. line.field \in Fields \cup {"none"}
      BY <3>1 DEF G15Lines
    <3> QED BY <1>9, <3>2 DEF Skips, IndexOf, Indices
  <2>2. PICK g \in Fields, x \in Indices : g = line.field /\ x = line.index
    BY <2>1
  <2>3. /\ DOMAIN g15' = Fields /\ \A f \in Fields : g15'[f] = [i \in Indices |-> g15'[f][i]]
        /\ g15'[g][x] = Value(line)
        /\ \A f \in Fields, i \in Indices : f # g \/ i # x => g15'[f][i] = g15[f][i]
    BY <1>9, <2>2 DEF G15Inv
  <2>4. ASSUME NEW f \in Fields, NEW i \in Indices
        PROVE  FieldOK(f, i)'
    <3>1. CASE f = g /\ i = x
      <4>1. LinesFor(g, x)' = LinesFor(g, x) \cup {n + 1}
        BY <1>3, <2>2
      <4>2. \A j \in LinesFor(g, x)' : j <= n + 1
        BY <1>2, <4>1 DEF LinesFor
      <4>3. g15'[g][x] = Value(reply'[n + 1])
        BY <1>2, <2>3
      <4> QED BY <3>1, <4>1, <4>2, <4>3 DEF FieldOK
    <3>2. CASE f # g \/ i # x
      BY <1>3, <1>4, <2>2, <2>3, <3>2
    <3> QED BY <3>1, <3>2
  <2> QED BY <1>2, <2>3, <2>4 DEF G15Inv
<1> QED BY <1>1, <1>7, <1>8, <1>9

(* Fetch returns what the answer says in either mode: for any number of    *)
(* places in a dump, players and lines, a field of a player is what the    *)
(* last line for it says, and nobody changes sides when somebody joins.    *)
THEOREM DumpsAreTrueHolds == DumpSpec => DumpsAreTrue
<1>1. DumpInit => StatusInv /\ G15Inv
  <2> SUFFICES ASSUME DumpInit PROVE StatusInv /\ G15Inv
    OBVIOUS
  <2>1. StatusInv
    BY DumpAssumption DEF DumpInit, StatusInv, Increases
  <2>2. G15Inv
    BY DEF DumpInit, G15Inv, FieldOK, LinesFor
  <2> QED BY <2>1, <2>2
<1>2. StatusInv /\ [StatusNext \/ G15Next]_dumpVars => StatusInv'
  BY StatusStep
<1>3. G15Inv /\ [StatusNext \/ G15Next]_dumpVars => G15Inv'
  <2>1. ASSUME G15Inv, UNCHANGED <<reply, g15>> PROVE G15Inv'
    BY <2>1 DEF G15Inv, FieldOK, LinesFor
  <2> QED BY <2>1, ScanLineOK DEF StatusNext, JoinServer, LeaveServer, OnStatus,
                                  G15Next, ScanFails, dumpVars
<1>4. G15Inv => LastLineCounts
  <2> SUFFICES ASSUME G15Inv, NEW f \in Fields, NEW i \in Indices
               PROVE  g15[f][i] = IF LinesFor(f, i) = {} THEN 0
                                  ELSE Value(reply[Max(LinesFor(f, i))])
    BY DEF LastLineCounts, LinesFor
  <2>1. CASE LinesFor(f, i) = {} /\ g15[f][i] = 0
    BY <2>1
  <2>2. ASSUME NEW k \in LinesFor(f, i), \A j \in LinesFor(f, i) : j <= k,
               g15[f][i] = Value(reply[k])
        PROVE  g15[f][i] = Value(reply[Max(LinesFor(f, i))]) /\ LinesFor(f, i) # {}
    <3>1. LinesFor(f, i) \subseteq Nat
      BY LenProperties DEF LinesFor, G15Inv
    <3>2. Max(LinesFor(f, i)) = k
      BY <2>2, <3>1 DEF Max
    <3> QED BY <2>2, <3>2
  <2> QED BY <2>1, <2>2 DEF G15Inv, FieldOK
<1>5. ASSUME StatusInv, StatusInv', [StatusNext \/ G15Next]_dumpVars,
             dump # <<>>, ToSet(dump) \subseteq ToSet(dump'), NEW u \in ToSet(dump)
      PROVE  TeamsIn(dump')[u] = TeamsIn(dump)[u]
  <2>1. CASE UNCHANGED dump
    BY <2>1
  <2>2. CASE OnStatus /\ dump' = <<>>
    <3>1. ToSet(dump') = {}
      BY <2>2 DEF ToSet
    <3> QED BY <1>5, <3>1
  <2>3. CASE OnStatus /\ dump' = SortedByUserID
    <3>1. joined \in Nat /\ 0 .. joined \subseteq Nat
      BY <1>5 DEF StatusInv
    <3>2. dump \in Seq(Nat) /\ Increases(dump)
      BY <1>5, <3>1 DEF StatusInv
    <3>3. dump' \in Seq(Nat) /\ Increases(dump') /\ ToSet(dump') = Listed
      BY <1>5, <2>3, <3>1, SortedOK
    <3>4. \A v \in ToSet(dump'), k \in 1 .. Len(dump) : v \in ToSet(dump) \/ dump[k] < v
      BY <1>5, <3>3 DEF StatusInv, Listed
    <3>5. PICK e : e = dump'
      OBVIOUS
    <3> QED BY <1>5, <3>2, <3>3, <3>4, <3>5, PlacesKept
  <2> QED BY <1>5, <2>1, <2>2, <2>3
        DEF StatusNext, JoinServer, LeaveServer, OnStatus, G15Next, ScanLine, ScanFails, dumpVars
<1>6. StatusInv /\ StatusInv' /\ [StatusNext \/ G15Next]_dumpVars
        => [dump # <<>> /\ ToSet(dump) \subseteq ToSet(dump')
             => \A u \in ToSet(dump) : TeamsIn(dump')[u] = TeamsIn(dump)[u]]_dumpVars
  BY <1>5
<1> QED BY <1>1, <1>2, <1>3, <1>4, <1>6, PTL DEF DumpSpec, DumpsAreTrue, JoinsKeepTeams

-----------------------------------------------------------------------------
(* BotLists: the downloads.                                                *)

(* The channel is closed only when nobody is left to send to it, since     *)
(* Done is called after the send; what was sent has been collected.        *)
BotInv ==
  /\ download \in [UserLists -> {"fetch", "send", "sent", "failed"}]
  /\ \A l \in UserLists : l \notin waiting => download[l] \in {"sent", "failed"}
  /\ updates \in {"open", "closed"} /\ (updates = "closed" => waiting = {})
  /\ updater = "returned" => updates = "closed" /\ botLists = collected
  /\ collected \in Seq(UserLists \cup {ZeroList})
  /\ \A l \in UserLists : IF download[l] = "sent" THEN Once(collected, l)
                          ELSE PlacesOf(collected, l) = {}

(* The send of a list: it is collected, as the last one.                   *)
LEMMA SendUpdateOK ==
  ASSUME BotInv, NEW l \in UserLists, SendUpdate(l)
  PROVE  BotInv'
<1> DEFINE n == Len(collected)
<1>1. updates = "open"
  BY DEF BotInv, SendUpdate
<1>2. updater = "range" /\ UNCHANGED <<waiting, updates, updater, botLists>>
  BY <1>1 DEF SendUpdate
<1>3. /\ download' = [download EXCEPT ![l] = "sent"]
      /\ collected' = Append(collected, l)
  BY <1>1 DEF SendUpdate
<1>4. /\ n \in Nat /\ DOMAIN collected = 1 .. n
      /\ collected' \in Seq(UserLists \cup {ZeroList}) /\ DOMAIN collected' = 1 .. n + 1
      /\ \A i \in 1 .. n : collected'[i] = collected[i]
      /\ collected'[n + 1] = l
  BY <1>3, LenProperties, AppendProperties DEF BotInv
<1>5. PlacesOf(collected, l) = {}
  BY DEF BotInv, SendUpdate
<1>6. 1 .. n + 1 = 1 .. n \cup {n + 1}
  BY <1>4
<1>7. ASSUME NEW m \in UserLists
      PROVE  PlacesOf(collected', m) = IF m = l THEN {n + 1} ELSE PlacesOf(collected, m)
  <2>1. PlacesOf(collected', m) = {i \in 1 .. n + 1 : collected'[i] = m}
    BY <1>4 DEF PlacesOf
  <2>2. PlacesOf(collected, m) = {i \in 1 .. n : collected[i] = m}
    BY <1>4 DEF PlacesOf
  <2> HIDE DEF n
  <2> QED BY <1>4, <1>5, <1>6, <2>1, <2>2
<1>8. download'[l] = "sent" /\ \A m \in UserLists : m # l => download'[m] = download[m]
  BY <1>3 DEF BotInv
<1>9. ASSUME NEW m \in UserLists
      PROVE  IF download'[m] = "sent" THEN Once(collected', m)
             ELSE PlacesOf(collected', m) = {}
  <2>1. CASE m = l
    BY <1>4, <1>7, <1>8, <2>1 DEF Once
  <2>2. CASE m # l
    BY <1>4, <1>7, <1>8, <2>2 DEF BotInv, Once
  <2> QED BY <2>1, <2>2
<1>10. download' \in [UserLists -> {"fetch", "send", "sent", "failed"}]
  BY <1>3 DEF BotInv
<1> QED BY <1>1, <1>2, <1>4, <1>8, <1>9, <1>10 DEF BotInv

(* Search: the lists that match among the first n.                         *)
LEMMA SearchStages ==
  ASSUME NEW sid, botLists \in Seq(UserLists \cup {ZeroList})
  PROVE  \E h : /\ h[0] = <<>>
                /\ \A n \in 1 .. Len(botLists) :
                     h[n] = IF sid \in NamedIn(botLists[n]) THEN Append(h[n - 1], botLists[n])
                            ELSE h[n - 1]
                /\ Search(sid) = h[Len(botLists)]
<1> DEFINE N == Len(botLists)
           T == Seq(UserLists \cup {ZeroList})
           Step(g) == [n \in 0 .. N |->
                         IF n = 0 THEN <<>>
                         ELSE IF sid \in NamedIn(botLists[n]) THEN Append(g[n - 1], botLists[n])
                         ELSE g[n - 1]]
           F == [q \in (1 .. N) \X T |->
                   IF sid \in NamedIn(botLists[q[1]]) THEN Append(q[2], botLists[q[1]]) ELSE q[2]]
<1>0. N \in Nat /\ \A n \in 1 .. N : botLists[n] \in UserLists \cup {ZeroList}
  OBVIOUS
<1>1. F \in [(1 .. N) \X T -> T]
  <2> SUFFICES ASSUME NEW n \in 1 .. N, NEW t \in T
               PROVE  (IF sid \in NamedIn(botLists[n]) THEN Append(t, botLists[n]) ELSE t) \in T
    OBVIOUS
  <2> QED BY <1>0
<1>2. <<>> \in T
  OBVIOUS
<1>3. \A n \in 1 .. N, t \in T :
        F[<<n, t>>] = IF sid \in NamedIn(botLists[n]) THEN Append(t, botLists[n]) ELSE t
  OBVIOUS
<1> HIDE DEF F, N, T
<1>4. PICK g \in [0 .. N -> T] : g[0] = <<>> /\ \A n \in 1 .. N : g[n] = F[<<n, g[n - 1]>>]
  <2>1. \E g : Runs(g, N, T, <<>>, F)
    BY <1>0, <1>1, <1>2, Recursion
  <2> QED BY <2>1 DEF Runs
<1>5. g = Step(g)
  <2> SUFFICES ASSUME NEW n \in 0 .. N
               PROVE  g[n] = IF n = 0 THEN <<>>
                             ELSE IF sid \in NamedIn(botLists[n]) THEN Append(g[n - 1], botLists[n])
                             ELSE g[n - 1]
    OBVIOUS
  <2>1. CASE n = 0
    BY <1>4, <2>1
  <2>2. CASE n # 0
    <3>1. n \in 1 .. N /\ n - 1 \in 0 .. N
      BY <1>0, <2>2
    <3>2. g[n - 1] \in T
      BY <3>1
    <3>3. g[n] = F[<<n, g[n - 1]>>]
      BY <1>4, <3>1
    <3> QED BY <1>3, <2>2, <3>1, <3>2, <3>3
  <2> QED BY <2>1, <2>2
<1>6. PICK h : h = CHOOSE d : d = Step(d)
  OBVIOUS
<1> HIDE DEF Step
<1>7. h = Step(h)
  BY <1>5, <1>6
<1>8. /\ h[0] = <<>>
      /\ \A n \in 1 .. N : h[n] = IF sid \in NamedIn(botLists[n]) THEN Append(h[n - 1], botLists[n])
                                  ELSE h[n - 1]
  <2>1. Step(h)[0] = <<>>
    BY <1>0 DEF Step
  <2>2. ASSUME NEW n \in 1 .. N
        PROVE  Step(h)[n] = IF sid \in NamedIn(botLists[n]) THEN Append(h[n - 1], botLists[n])
                            ELSE h[n - 1]
    <3>1. n \in 0 .. N /\ n # 0
      BY <1>0
    <3> QED BY <3>1 DEF Step
  <2> QED BY <1>7, <2>1, <2>2
<1>9. Search(sid) = h[N]
  BY <1>6 DEF Search, Step, N
<1> QED BY <1>8, <1>9 DEF N

(* A list is found among the first n if it is there and names the player.  *)
FoundOnce(t, l, sid, n) ==
  IF sid \in NamedIn(l) /\ \E i \in 1 .. n : botLists[i] = l THEN Once(t, l)
  ELSE PlacesOf(t, l) = {}

Finds(t, sid, n) ==
  /\ t \in Seq(UserLists \cup {ZeroList})
  /\ \A l \in UserLists : FoundOnce(t, l, sid, n)

(* A list is appended to those found so far.                               *)
LEMMA PlacesAppended ==
  ASSUME NEW S, NEW t \in Seq(S), NEW x \in S, NEW l
  PROVE  PlacesOf(Append(t, x), l) = PlacesOf(t, l) \cup (IF x = l THEN {Len(t) + 1} ELSE {})
<1>1. PICK r : r = Append(t, x)
  OBVIOUS
<1>2. PICK n \in Nat : n = Len(t)
  OBVIOUS
<1>3. /\ DOMAIN r = 1 .. n + 1 /\ DOMAIN t = 1 .. n
      /\ r[n + 1] = x /\ \A i \in 1 .. n : r[i] = t[i]
  BY <1>1, <1>2, AppendProperties, LenProperties
<1>4. 1 .. n + 1 = 1 .. n \cup {n + 1}
  BY <1>2
<1>5. PlacesOf(r, l) = PlacesOf(t, l) \cup (IF x = l THEN {n + 1} ELSE {})
  BY <1>3, <1>4 DEF PlacesOf
<1> QED BY <1>1, <1>2, <1>5

(* Among lists of which none is there twice.                               *)
LEMMA SearchOK ==
  ASSUME NEW sid, botLists \in Seq(UserLists \cup {ZeroList}),
         \A l \in UserLists, i, j \in DOMAIN botLists :
           botLists[i] = l /\ botLists[j] = l => i = j
  PROVE  Finds(Search(sid), sid, Len(botLists))
<1>0. Len(botLists) \in Nat /\ DOMAIN botLists = 1 .. Len(botLists)
  OBVIOUS
<1>1. PICK h : /\ h[0] = <<>>
               /\ \A n \in 1 .. Len(botLists) :
                    h[n] = IF sid \in NamedIn(botLists[n]) THEN Append(h[n - 1], botLists[n])
                           ELSE h[n - 1]
               /\ Search(sid) = h[Len(botLists)]
  BY SearchStages
<1> DEFINE Bad == {n \in 0 .. Len(botLists) : ~Finds(h[n], sid, n)}
<1> SUFFICES ASSUME Len(botLists) \in Bad PROVE FALSE
  BY <1>0, <1>1
<1>2. PICK n \in Bad : \A m \in Bad : n <= m
  <2>1. Bad \in SUBSET Nat /\ Bad # {}
    OBVIOUS
  <2> HIDE DEF Bad
  <2> QED BY <2>1, LeastNatural
<1>3. CASE n = 0
  <2>1. <<>> \in Seq(UserLists \cup {ZeroList}) /\ DOMAIN <<>> = {}
    OBVIOUS
  <2>2. \A l \in UserLists : PlacesOf(<<>>, l) = {} /\ ~\E i \in 1 .. 0 : botLists[i] = l
    BY <2>1 DEF PlacesOf
  <2>3. Finds(<<>>, sid, 0)
    BY <2>1, <2>2 DEF Finds, FoundOnce
  <2> QED BY <1>1, <1>3, <2>3
<1>4. CASE n # 0
  <2>1. n \in 1 .. Len(botLists) /\ n - 1 \in 0 .. Len(botLists) /\ n \in Nat
    BY <1>0, <1>4
  <2>2. Finds(h[n - 1], sid, n - 1)
    <3>1. n - 1 \notin Bad
      BY <1>2, <2>1
    <3> QED BY <2>1, <3>1
  <2>3. PICK t : t = h[n - 1]
    OBVIOUS
  <2>4. PICK x \in UserLists \cup {ZeroList} : x = botLists[n]
    BY <1>0, <2>1
  <2>5. /\ t \in Seq(UserLists \cup {ZeroList})
        /\ \A l \in UserLists : FoundOnce(t, l, sid, n - 1)
        /\ h[n] = IF sid \in NamedIn(x) THEN Append(t, x) ELSE t
    BY <1>1, <2>1, <2>2, <2>3, <2>4 DEF Finds
  <2>6. 1 .. n = 1 .. (n - 1) \cup {n}
    BY <2>1
  <2>7. ASSUME NEW l \in UserLists, x # l
        PROVE  FoundOnce(t, l, sid, n)
    BY <2>4, <2>5, <2>6, <2>7 DEF FoundOnce
  <2>8. CASE sid \notin NamedIn(x)
    <3>1. ASSUME NEW l \in UserLists
          PROVE  FoundOnce(t, l, sid, n)
      <4>1. CASE x = l
        BY <2>5, <2>8, <4>1 DEF FoundOnce
      <4> QED BY <2>7, <4>1
    <3> QED BY <2>5, <2>8, <3>1 DEF Finds
  <2>9. CASE sid \in NamedIn(x)
    <3>1. x \in UserLists
      BY <2>4, <2>9 DEF NamedIn
    (* It has not been found before, as it was not there.                  *)
    <3>2. PlacesOf(t, x) = {}
      <4>1. ~\E i \in 1 .. (n - 1) : botLists[i] = x
        BY <1>0, <2>1, <2>4, <3>1
      <4> QED BY <2>5, <3>1, <4>1 DEF FoundOnce
    <3>3. PICK r : r = Append(t, x)
      OBVIOUS
    <3>4. r \in Seq(UserLists \cup {ZeroList})
      BY <2>5, <3>3
    <3>5. \A l : PlacesOf(r, l) = PlacesOf(t, l) \cup (IF x = l THEN {Len(t) + 1} ELSE {})
      BY <2>5, <3>3, PlacesAppended
    <3>6. Once(r, x)
      <4>1. PlacesOf(r, x) = {Len(t) + 1}
        BY <3>2, <3>5
      <4>2. Len(t) + 1 \in DOMAIN r
        BY <2>5, <3>3
      <4> QED BY <4>1, <4>2 DEF Once
    <3>7. ASSUME NEW l \in UserLists
          PROVE  FoundOnce(r, l, sid, n)
      <4>1. CASE x = l
        <5>1. n \in 1 .. n /\ botLists[n] = l
          BY <2>1, <2>4, <4>1
        <5> QED BY <2>9, <3>6, <4>1, <5>1 DEF FoundOnce
      <4>2. CASE x # l
        <5>1. PlacesOf(r, l) = PlacesOf(t, l)
          BY <3>5, <4>2
        <5>2. DOMAIN t \subseteq DOMAIN r
          BY <2>5, <3>3
        <5>3. Once(t, l) => Once(r, l)
          BY <5>1, <5>2 DEF Once
        <5> QED BY <2>7, <4>2, <5>1, <5>3 DEF FoundOnce
      <4> QED BY <4>1, <4>2
    <3> QED BY <2>5, <2>9, <3>3, <3>4, <3>7 DEF Finds
  <2> QED BY <2>8, <2>9
<1> QED BY <1>3, <1>4

(* What is published is searched as it is.                                 *)
LEMMA PublishedOK == BotInv => DownloadsKept
<1> SUFFICES ASSUME BotInv PROVE DownloadsKept
  OBVIOUS
<1>1. EveryListOnce
  BY DEF BotInv, EveryListOnce
<1>2. ASSUME updater = "returned", NEW l \in UserLists, NEW sid
      PROVE  IF download[l] = "sent" /\ sid \in NamedIn(l) THEN Once(Search(sid), l)
             ELSE PlacesOf(Search(sid), l) = {}
  <2>1. botLists \in Seq(UserLists \cup {ZeroList})
    BY <1>2 DEF BotInv
  <2>2. ASSUME NEW m \in UserLists
        PROVE  IF download[m] = "sent" THEN Once(botLists, m) ELSE PlacesOf(botLists, m) = {}
    BY <1>2 DEF BotInv
  <2>3. ASSUME NEW m \in UserLists, NEW i \in DOMAIN botLists, NEW j \in DOMAIN botLists,
               botLists[i] = m, botLists[j] = m
        PROVE  i = j
    BY <2>2, <2>3 DEF Once, PlacesOf
  <2>4. FoundOnce(Search(sid), l, sid, Len(botLists))
    BY <2>1, <2>3, SearchOK DEF Finds
  <2>5. (\E i \in 1 .. Len(botLists) : botLists[i] = l) <=> download[l] = "sent"
    BY <2>1, <2>2, LenProperties DEF Once, PlacesOf
  <2> QED BY <2>4, <2>5 DEF FoundOnce
<1> QED BY <1>1, <1>2 DEF DownloadsKept

(* When bd.Fetcher.Update has returned, Search finds a player in the lists *)
(* that were downloaded and name him, once in each, and in no other; and   *)
(* no send met a closed channel: for any lists, whichever downloads fail   *)
(* and in whatever order they end.                                         *)
THEOREM DownloadsKeptHolds == BotSpec => []DownloadsKept
<1>1. BotInit => BotInv
  <2> SUFFICES ASSUME BotInit PROVE BotInv
    OBVIOUS
  <2>1. Cardinality(UserLists) \in Nat
    BY BotListsAssumption, FS_CardinalityType
  <2>2. collected \in Seq(UserLists \cup {ZeroList})
    BY <2>1, SeqDef DEF BotInit
  <2>3. \A l \in UserLists : PlacesOf(collected, l) = {}
    BY BotListsAssumption DEF BotInit, PlacesOf
  <2> QED BY <2>2, <2>3 DEF BotInit, BotInv
<1>2. BotInv /\ [BotNext]_botVars => BotInv'
  <2> SUFFICES ASSUME BotInv, [BotNext]_botVars PROVE BotInv'
    OBVIOUS
  <2>1. ASSUME NEW l \in UserLists, Download(l) PROVE BotInv'
    <3>1. PICK end \in {"send", "failed"} : download' = [download EXCEPT ![l] = end]
      BY <2>1 DEF Download
    <3>2. \A m \in UserLists : download'[m] = IF m = l THEN end ELSE download[m]
      BY <3>1 DEF BotInv
    <3>3. download[l] = "fetch" /\ UNCHANGED <<waiting, updates, updater, collected, botLists>>
      BY <2>1 DEF Download
    <3> QED BY <3>1, <3>2, <3>3 DEF BotInv
  <2>2. ASSUME NEW l \in UserLists, DoneWaiting(l) PROVE BotInv'
    BY <2>2 DEF DoneWaiting, MayBeDone, BotInv
  <2>3. CASE CloseUpdates
    BY <2>3 DEF CloseUpdates, BotInv
  <2>4. CASE Publish
    BY <2>4 DEF Publish, BotInv
  <2>5. CASE UNCHANGED botVars
    BY <2>5 DEF botVars, BotInv
  <2> QED BY <2>1, <2>2, <2>3, <2>4, <2>5, SendUpdateOK DEF BotNext
<1> QED BY <1>1, <1>2, PublishedOK, PTL DEF BotSpec

=============================================================================
