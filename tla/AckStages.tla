------------------------------ MODULE AckStages ------------------------------
(***************************************************************************)
(* The two stages of acknowledgement in ConnectionManager.  A client sends *)
(* a command to the packet router only and keeps it in m_pendingCommands;  *)
(* the router acknowledges it (stage 1), relays it, keeps it in            *)
(* m_relayedCommands with the players whose ack is missing, and sends a    *)
(* stage 2 ack when nobody's is.  The pending commands are what a client   *)
(* sends again when the packet router leaves the game.                     *)
(*                                                                         *)
(* A Connection is its send queue, which keeps a command until it is       *)
(* acknowledged.  Everything queued may arrive at any later time, any      *)
(* number of times or never; so may acks, which are sent once.  Commands   *)
(* stand for everything that needs an ack and has a frame; frames decide   *)
(* what is out of date and when a machine notices that Leaver has left.    *)
(***************************************************************************)
EXTENDS Integers, FiniteSets

CONSTANTS Players,         \* slot numbers of the human players
          Leaver,          \* the player who leaves
          Commands, Origin, Frame,  \* the commands, who gives them, and for which frame
          LeaveFrame,      \* the frame of Leaver's PLAYERLEAVE command
          FirstFrame,      \* bound: the frames the run begins ...
          LastFrame,       \* ... and ends with
          FRAMES_TO_KEEP

MutantFirstOf(plan) == IF Leaver \in plan THEN CHOOSE r \in plan : \A s \in plan : r <= s ELSE -1
FirstOf(plan) == CHOOSE r \in plan : \A s \in plan : r <= s

ASSUME PlayersAssumption == Players \subseteq Nat /\ IsFiniteSet(Players) /\ Leaver \in Players
\* The fallback plan is not empty when Leaver is out of it.
ASSUME PlanAssumption == \A plan \in {Players, Players \ {Leaver}} :
                            \E r \in plan : \A s \in plan : r <= s
ASSUME CommandsAssumption == Origin \in [Commands -> Players] /\ Frame \in [Commands -> Nat]
ASSUME FramesAssumption == {FirstFrame, LastFrame, LeaveFrame, FRAMES_TO_KEEP} \subseteq Nat
\* The last thing Leaver gives is its departure (Network.cpp:545-557).  So a late command of
\* Leaver is out of date wherever it is dropped because Leaver's connection is gone.
ASSUME LeaveAssumption == \A c \in Commands : Origin[c] = Leaver => Frame[c] <= LeaveFrame

VARIABLES frame,    \* TheGameLogic->getFrame() of every machine
          got,      \* the commands in the frame data of every machine
          pending,  \* m_pendingCommands
          relayed,  \* m_relayedCommands: who has still to acknowledge each command
          queue,    \* the send queues of the machine's connections
          net,      \* every packet that may still arrive
          acks      \* every ack that may still arrive

vars == <<frame, got, pending, relayed, queue, net, acks>>

\* Leaver's departure as p sees it, once p has run its frame.
HasLeft(p) == frame[p] > LeaveFrame
Quit(p) == p = Leaver /\ HasLeft(p)

\* The connections of p that exist and are not quitting.
Open(p) == CASE Quit(p)    -> {}
             [] HasLeft(p) -> Players \ {p, Leaver}
             [] OTHER      -> Players \ {p}

\* m_packetRouterSlot: the fallback plan is the list of slots.
Router(p) == FirstOf(IF HasLeft(p) THEN Players \ {Leaver} ELSE Players)

Packet(to, c, relay) == [to |-> to, cmd |-> c, relay |-> relay]
Direct(c, mask) == {Packet(i, c, {i}) : i \in mask}

\* sendNetCommandMsg: a command that is in a queue is not added again.
Queued(p, i, c) == \E e \in queue[p] : e.to = i /\ e.cmd = c
Send(p, packets) == LET new == {e \in packets : ~Queued(p, e.to, e.cmd)}
                    IN  /\ queue' = [queue EXCEPT ![p] = @ \cup new]
                        /\ net' = net \cup new

\* sendLocalCommand: directly to everyone if p is the packet router.
MutantLocalPackets(p, router, c, relay, open) ==
    IF router = p THEN Direct(c, relay \cap open)
                  ELSE {Packet(router, c, relay \ {router})}
LocalPackets(p, router, c, relay, open) ==
    IF router = p THEN Direct(c, relay \cap open)
                  ELSE {Packet(router, c, relay \ {p})}

-----------------------------------------------------------------------------
Init == /\ frame = [p \in Players |-> FirstFrame]
        /\ got = [p \in Players |-> {}]
        /\ pending = [p \in Players |-> {}]
        /\ relayed = [p \in Players |-> [c \in Commands |-> {}]]
        /\ queue = [p \in Players |-> {}]
        /\ net = {}
        /\ acks = {}

\* A command is given for a frame to come.
sendLocalCommand(p, c) ==
    /\ Origin[c] = p
    /\ c \notin got[p]
    /\ frame[p] < Frame[c]
    /\ ~Quit(p)
    /\ got' = [got EXCEPT ![p] = @ \cup {c}]
    /\ Send(p, LocalPackets(p, Router(p), c, Players \ {p}, Open(p)))
    /\ pending' = [pending EXCEPT ![p] = IF Router(p) = p THEN @ ELSE @ \cup {c}]
    /\ UNCHANGED <<frame, relayed, acks>>

MutantAcksBoth(p, m) ==
    LET to == IF Router(p) # p THEN Router(p) ELSE Origin[m.cmd]
    IN  IF to \in Open(p)
        THEN {[kind |-> "both", to |-> to, cmd |-> m.cmd, from |-> p, relay |-> {to}]}
        ELSE {}
\* ackCommand: to the packet router, or to the giver of the command if that is p itself.
ackCommand(p, m) ==
    LET kind == IF m.relay \cap Open(p) = {} THEN "both" ELSE "stage1"
        to   == IF Router(p) # p THEN Router(p) ELSE Origin[m.cmd]
    IN  IF to \in Open(p)
        THEN {[kind |-> kind, to |-> to, cmd |-> m.cmd, from |-> p, relay |-> {to}]}
        ELSE {}

OutOfDate(p, c) == Frame[c] < frame[p]

MutantAdded(p, m) == IF m.relay = {p} THEN got[p] \cup {m.cmd} ELSE got[p]
Added(p, m) == IF p \in m.relay THEN got[p] \cup {m.cmd} ELSE got[p]

\* doRelay for one command: ackCommand, then processNetCommand, which drops what is out
\* of date, then sendRemoteCommand.
doRelay(p, m) ==
    /\ m \in net /\ m.to = p
    /\ acks' = acks \cup ackCommand(p, m)
    /\ IF OutOfDate(p, m.cmd)
       THEN UNCHANGED <<got, relayed, queue, net>>
       ELSE LET actualRelay == m.relay \cap Open(p)
            IN  /\ got' = [got EXCEPT ![p] = Added(p, m)]
                /\ Send(p, Direct(m.cmd, actualRelay))
                /\ relayed' = [relayed EXCEPT ![p][m.cmd] = IF @ = {} THEN actualRelay ELSE @]
    /\ UNCHANGED <<frame, pending>>

\* The stage 2 ack has no player set: it comes from slot 0.
AckStage2(p, c) ==
    LET to == IF Router(p) # p THEN Router(p) ELSE Origin[c]
    IN  IF to \in Open(p)
        THEN {[kind |-> "stage2", to |-> to, cmd |-> c, from |-> 0, relay |-> {Origin[c]}]}
        ELSE {}

\* processAckStage1, and whether processAckStage2 finds the command among the relayed ones.
Unacknowledged(p, a) == {e \in queue[p] : ~(e.to = a.from /\ e.cmd = a.cmd)}
MutantFindsRelayed(p, a) == a.kind = "stage2" /\ relayed[p][a.cmd] # {}
FindsRelayed(p, a) == a.kind # "stage1" /\ relayed[p][a.cmd] # {}

\* processAck for both stages; sendRemoteCommand passes on an ack for somebody else.
processAck(p, a) ==
    LET waiting   == relayed[p][a.cmd] \ {a.from}
        forwarded == {[a EXCEPT !.to = i, !.relay = {i}] : i \in a.relay \cap Open(p)}
    IN  /\ a \in acks /\ a.to = p
        /\ queue' = IF a.kind = "stage2" THEN queue
                    ELSE [queue EXCEPT ![p] = Unacknowledged(p, a)]
        /\ pending' = IF a.kind = "stage1" THEN pending
                      ELSE [pending EXCEPT ![p] = @ \ {a.cmd}]
        /\ relayed' = IF FindsRelayed(p, a) THEN [relayed EXCEPT ![p][a.cmd] = waiting] ELSE relayed
        /\ acks' = acks \cup forwarded
                        \cup (IF FindsRelayed(p, a) /\ waiting = {} THEN AckStage2(p, a.cmd) ELSE {})
        /\ UNCHANGED <<frame, got, net>>

-----------------------------------------------------------------------------
\* Everything for the frame has arrived, and p has given what it gives for the next one.
FrameIsReady(p) == \A c \in Commands : \/ Frame[c] = frame[p]
                                       \/ Frame[c] = frame[p] + 1 /\ Origin[c] = p
                                       => c \in got[p]

RunFrame(p) == /\ frame[p] <= LastFrame /\ ~Quit(p)
               /\ frame[p] # LeaveFrame
               /\ FrameIsReady(p)
               /\ frame' = [frame EXCEPT ![p] = @ + 1]
               /\ UNCHANGED <<got, pending, relayed, queue, net, acks>>

\* clearCommandsExceptFrom: for each connection it stops after the first thing it removes.
\* That is a command of another player, or something without a frame, which sorts before it:
\* an ack passed on, a stage 2 ack that says it is from slot 0.  Acks are lost at any time.
Cleared(p, kept) == /\ kept \subseteq queue[p]
                    /\ \A e \in queue[p] \ kept : Origin[e.cmd] # p
                    /\ \A i \in Players : Cardinality({e \in queue[p] \ kept : e.to = i}) <= 1

\* processPlayerLeave at Leaver itself.
LeaveGame == /\ ~Quit(Leaver)
             /\ frame[Leaver] = LeaveFrame
             /\ FrameIsReady(Leaver)
             /\ frame' = [frame EXCEPT ![Leaver] = @ + 1]
             /\ \E kept \in SUBSET queue[Leaver] :
                   /\ Cleared(Leaver, kept)
                   /\ queue' = [queue EXCEPT ![Leaver] = kept]
             /\ UNCHANGED <<got, pending, relayed, net, acks>>

\* resendPendingCommands, to the packet router there is without Leaver.
MutantResent(p) ==
    UNION {LocalPackets(p, Router(p), c, Players \ {p}, Players \ {p, Leaver}) : c \in pending[p]}
Resent(p) == LET router == FirstOf(Players \ {Leaver})
             IN  UNION {LocalPackets(p, router, c, Players \ {p}, Players \ {p, Leaver}) : c \in pending[p]}

\* processPlayerLeave at the others: disconnectPlayer gives the game a new packet router if
\* Leaver was it; then resendPendingCommands.
processPlayerLeave(p) ==
    /\ p # Leaver
    /\ frame[p] = LeaveFrame
    /\ FrameIsReady(p)
    /\ frame' = [frame EXCEPT ![p] = @ + 1]
    /\ IF Router(p) = Leaver THEN Send(p, Resent(p)) ELSE UNCHANGED <<queue, net>>
    /\ UNCHANGED <<got, pending, relayed, acks>>

\* sendSingleFrameToPlayer: p's commands of a frame, but those of i itself.  The difference
\* is unsigned: before frame FRAMES_TO_KEEP nothing is sent.
FrameData(p, i, f) == IF frame[p] - FRAMES_TO_KEEP \notin 0..f THEN {}
                      ELSE {c \in got[p] : Frame[c] = f /\ Origin[c] # i}

\* sendFrameDataToPlayer: when the game is stalled, who is ahead sends what it has kept.
MutantFramesMissed(p, i) == (frame[i] + 1)..(frame[p] - 1)
FramesMissed(p, i) == frame[i]..(frame[p] - 1)
sendFrameDataToPlayer(p, i) ==
    /\ frame[p] > frame[i]
    /\ i \in Open(p)
    /\ Send(p, UNION {Direct(c, {i}) : c \in UNION {FrameData(p, i, f) : f \in FramesMissed(p, i)}})
    /\ UNCHANGED <<frame, got, pending, relayed, acks>>

Next == \/ \E p \in Players, c \in Commands : sendLocalCommand(p, c)
        \/ \E m \in net : doRelay(m.to, m)
        \/ \E a \in acks : processAck(a.to, a)
        \/ \E p \in Players : RunFrame(p) \/ processPlayerLeave(p)
        \/ LeaveGame
        \/ \E p, i \in Players : sendFrameDataToPlayer(p, i)

Spec == Init /\ [][Next]_vars

Fairness == /\ \A c \in Commands : WF_vars(sendLocalCommand(Origin[c], c))
            /\ \A p \in Players : WF_vars(RunFrame(p) \/ processPlayerLeave(p))
            /\ \A p \in Players : \A i \in Players \ {p} :
                  /\ WF_vars(sendFrameDataToPlayer(p, i))
                  /\ \A c \in Commands : Origin[c] # i =>
                        WF_vars(\E m \in queue[p] : m.to = i /\ m.cmd = c /\ doRelay(i, m))

FairSpec == Spec /\ Fairness

-----------------------------------------------------------------------------
TypeOK == /\ frame \in [Players -> Nat]
          /\ got \in [Players -> SUBSET Commands]
          /\ pending \in [Players -> SUBSET Commands]
          /\ relayed \in [Players -> [Commands -> SUBSET Players]]
          /\ net \subseteq [to : Players, cmd : Commands, relay : SUBSET Players]
          /\ queue \in [Players -> SUBSET net]
          /\ acks \subseteq [kind : {"stage1", "stage2", "both"}, to : Players, cmd : Commands,
                             from : Nat, relay : SUBSET Players]

\* Leaver was the packet router, and somebody has run the frame it left at.
RouterChanged == FirstOf(Players) = Leaver /\ \E p \in Players : HasLeft(p)

\* The router is or was sent c as frame data, not to be relayed.
FrameDataForRouter(c) == Packet(FirstOf(Players), c, {FirstOf(Players)}) \in net

\* Whoever lacks a command that its giver no longer keeps as pending is being sent it, by
\* somebody who goes on until it is acknowledged.  Leaver needs nothing past its last
\* frame.  Not so once the router has left or has been sent the command as frame data: then
\* it acknowledges both stages at once and relays nothing.
SomeoneStillSends == ~RouterChanged =>
    \A c \in Commands : c \in got[Origin[c]] \ pending[Origin[c]] /\ ~FrameDataForRouter(c) =>
        \A p \in Players \ {Origin[c]} : \/ c \in got[p]
                                         \/ p = Leaver /\ Frame[c] > LeaveFrame
                                         \/ \E q \in Players : Queued(q, p, c)

\* Until the router changes, a player whose ack a relayed command waits for is being sent
\* it: otherwise the stage 2 ack would never come.
RelayedIsQueued == ~RouterChanged => \A p \in Players, c \in Commands : ~Quit(p) =>
    \A i \in relayed[p][c] : Queued(p, i, c)

\* Whoever relays a command and does not wait for a player's ack knows that this player has
\* the command, whatever acks were lost, doubled or passed on.
EveryoneElseHasIt == \A p \in Players, c \in Commands : relayed[p][c] # {} =>
    \A i \in Players \ relayed[p][c] : c \in got[i] \/ i = Leaver

\* resendPendingCommands: after Leaver's departure a pending command is on its way to the
\* router its giver has now, or that router is sending it to whoever lacks it; except that
\* a router that has run the frame drops it as out of date.
PendingIsUnderway == \A o \in Players \ {Leaver} : HasLeft(o) => \A c \in pending[o] :
    \A p \in Players \ {o, Leaver} : \/ c \in got[p]
                                     \/ Queued(o, Router(o), c)
                                     \/ Queued(Router(o), p, c)
                                     \/ Frame[c] < frame[Router(o)]

\* No command is lost for good when Leaver goes: as soon as its giver has forgotten it or has
\* seen Leaver go, the packet router there is without Leaver has it or is being sent it, or
\* somebody who stays has run its frame and will send it as frame data.  So the router can go
\* on, and after it the others, although a command may be forgotten too early.
NothingIsGone == LET router == FirstOf(Players \ {Leaver}) IN
    \A c \in Commands : LET o == Origin[c] IN
        o # Leaver /\ c \in got[o] /\ (HasLeft(o) \/ c \notin pending[o]) =>
            \/ c \in got[router]
            \/ Queued(o, router, c)
            \/ \E q \in Players \ {Leaver} : Frame[c] < frame[q]

\* NetCommandMsg.h: when a stage 2 ack is returned, all the players in the relay mask have
\* received the command.
ForgottenWhenReceived ==
    \A c \in Commands : LET o == Origin[c] IN
        o # Leaver /\ c \in got[o] \ pending[o] /\ Router(o) # o =>
            \A p \in Players \ {Leaver} : c \in got[p]

\* The game goes on when the router leaves with commands it had acknowledged and not yet
\* passed on: whoever has them sends them as frame data to those who are behind.  This needs
\* somebody to be ahead: two who each lack what the other gave for the same frame both stop
\* there, and what helps then, the router queries of DisconnectManager, is not modelled.
OneGives == \A c, d \in Commands : Origin[c] = Origin[d]
EveryoneGoesOn == OneGives => <>(\A p \in Players \ {Leaver} : frame[p] > LastFrame)
=============================================================================
