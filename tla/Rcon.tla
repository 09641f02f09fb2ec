-------------------------------- MODULE Rcon --------------------------------
(***************************************************************************)
(* internal/tf/rcon/rcon.go: Connection.Exec, one command over a           *)
(* connection of its own.                                                  *)
(*                                                                         *)
(* The game server is external.  It answers a command with the pieces of   *)
(* the answer, all of the size of a packet but the last; on the same       *)
(* connection there may be packets that answer something else, and the     *)
(* connection may die or fall silent at any time: then Read gives up after *)
(* the timeout.  Of a packet the model keeps whether it is ours, which     *)
(* piece it is, and its size.                                              *)
(***************************************************************************)
EXTENDS Naturals, Sequences

CONSTANTS PacketSize,  \* 4096
          MaxAnswer,   \* bound: the size of an answer
          MaxForeign   \* bound: packets that answer something else

ASSUME RconAssumption ==
  /\ PacketSize \in Nat \ {0}
  /\ MaxAnswer \in Nat
  /\ MaxForeign \in Nat

VARIABLES
  exec,      \* where Exec is, or how it returned
  large,     \* its parameter
  answer,    \* the size of the answer that the server has for the command
  emitted,   \* how much of it is on its way or read
  foreign,   \* how many packets that answer something else were sent
  inbox,     \* the packets that were sent and not read
  response   \* how much of the answer was put together; Alien if it is not ours

rconVars == <<exec, large, answer, emitted, foreign, inbox, response>>

Alien == MaxAnswer + 1

Piece == IF answer - emitted < PacketSize THEN answer - emitted ELSE PacketSize

(* The game server, which starts when it has the command.  An empty answer *)
(* is one empty packet.                                                    *)
ServerSends ==
  /\ exec = "reading"
  /\ emitted < answer \/ (answer = 0 /\ inbox = <<>> /\ response = 0)
  /\ emitted' = emitted + Piece
  /\ inbox' = Append(inbox, [ours |-> TRUE, size |-> Piece])
  /\ UNCHANGED <<exec, large, answer, foreign, response>>

ForeignPacket ==
  /\ exec = "reading"
  /\ foreign < MaxForeign
  /\ foreign' = foreign + 1
  /\ \E size \in {0, PacketSize} : inbox' = Append(inbox, [ours |-> FALSE, size |-> size])
  /\ UNCHANGED <<exec, large, answer, emitted, response>>

-----------------------------------------------------------------------------
(* Dial, and Write of the command: conn is closed by the defer.            *)
Dial(ok) ==
  /\ exec = "dial"
  /\ exec' = IF ok THEN "reading" ELSE "failed"
  /\ UNCHANGED <<large, answer, emitted, foreign, inbox, response>>

(* rcon: the first packet is the answer; a mismatch is only logged.        *)
ReadSmall ==
  /\ exec = "reading" /\ ~large
  /\ inbox # <<>>
  /\ response' = IF Head(inbox).ours THEN Head(inbox).size ELSE Alien
  /\ exec' = "returned"
  /\ inbox' = Tail(inbox)
  /\ UNCHANGED <<large, answer, emitted, foreign>>

(* rconLarge: a packet that is not full is the last.                       *)
Ends(packet) == packet.size < PacketSize

ReadLarge ==
  LET packet == Head(inbox) IN
  /\ exec = "reading" /\ large
  /\ inbox # <<>>
  /\ response' = IF packet.ours THEN response + packet.size ELSE response
  /\ exec' = IF packet.ours /\ Ends(packet) THEN "returned" ELSE exec
  /\ inbox' = Tail(inbox)
  /\ UNCHANGED <<large, answer, emitted, foreign>>

(* Mutated form of ReadFails: what there is must do.                       *)
ReadFailsKeeps ==
  /\ exec = "reading"
  /\ inbox = <<>>
  /\ exec' = IF response > 0 THEN "returned" ELSE "failed"
  /\ UNCHANGED <<large, answer, emitted, foreign, inbox, response>>

(* Read runs into the timeout, or the connection is lost: what was read is *)
(* dropped.                                                                *)
ReadFails ==
  /\ exec = "reading"
  /\ inbox = <<>>
  /\ exec' = "failed"
  /\ response' = 0
  /\ UNCHANGED <<large, answer, emitted, foreign, inbox>>

RconInit ==
  /\ exec = "dial"
  /\ large \in BOOLEAN
  /\ answer \in 0 .. MaxAnswer
  /\ emitted = 0 /\ foreign = 0
  /\ inbox = <<>>
  /\ response = 0

RconNext ==
  \/ \E ok \in BOOLEAN : Dial(ok)
  \/ ServerSends \/ ForeignPacket
  \/ ReadSmall \/ ReadLarge \/ ReadFails

RconSpec == RconInit /\ [][RconNext]_rconVars

-----------------------------------------------------------------------------
(* Properties.                                                             *)

(* A long answer is returned whole or not at all: never the beginning of a *)
(* player dump as if it were all of it, and nothing of another answer.     *)
LargeIsWhole == exec = "returned" /\ large => response = answer

=============================================================================
