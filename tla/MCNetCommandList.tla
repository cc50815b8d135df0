-------------------------- MODULE MCNetCommandList --------------------------
(* The lists of a frame (synchronized commands of several players) and of  *)
(* a connection's queue (commands and acks) for TLC.  The numbers of the   *)
(* types are those of NetCommandType.                                      *)
EXTENDS NetCommandList

ACKBOTH == 0
ACKSTAGE1 == 1
GAMECOMMAND == 4
RUNAHEAD == 7

WithID(t) == t \in {GAMECOMMAND, RUNAHEAD}

Numbered(t, players, ids) ==
  [type : {t}, player : players, id : ids, acked : {<<0, 0>>}]

(* One command ID is never used for two commands of a player. *)
FrameCommands == Numbered(GAMECOMMAND, {1, 2}, {1, 3, 4, 5}) \cup Numbered(RUNAHEAD, {1}, {2, 6})

(* What machine 1 queues for the packet router: its own orders and the acks *)
(* of the commands of players 2 and 3, who number their commands alike.     *)
Acks(t) == [type : {t}, player : {1}, id : {0}, acked : {7} \X {2, 3}]

QueueCommands == Numbered(GAMECOMMAND, {1}, {7, 8}) \cup Acks(ACKSTAGE1)
=============================================================================
