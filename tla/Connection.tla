----------------------------- MODULE Connection -----------------------------
(***************************************************************************)
(* The class Connection: the queue of commands one machine keeps for       *)
(* another, here on both ends of the line between two machines.            *)
(*                                                                         *)
(* A command stays in the queue and is sent again every m_retryTime until  *)
(* the other machine's acknowledgement arrives; an acknowledgement is      *)
(* queued like a command but leaves the queue as soon as it is packed.     *)
(* Packets go over UDP: they are lost, doubled and reordered.  A quitting  *)
(* connection takes nothing new, and is deleted when its queue is empty or *)
(* when it has been quitting for MaxQuitFlushTime.                         *)
(*                                                                         *)
(* The queue is sorted by type: the acks, by the ID they acknowledge, come *)
(* before the commands, by their ID.  So it is kept as two sets; an ack    *)
(* that is queued twice counts once.  Time is left out: a sent command is  *)
(* "waiting" until its retry time has passed.                              *)
(* Definitions named Mutant... are wrong forms of the definition after     *)
(* them.                                                                   *)
(***************************************************************************)
EXTENDS Integers, FiniteSets

CONSTANTS
  Left, Right,    \* the two machines
  IDSpace,        \* 65536: command IDs are UnsignedShort
  FirstID,        \* 64000: the value GenerateNextCommandID starts after
  MaxCommands,    \* bound: how many commands each machine sends
  PacketSize,     \* how many commands fit in a packet
  Quitters,       \* the machines whose connection may be told to quit
  Doubles         \* does the network double packets?

ASSUME MachinesAssumption == /\ Left # Right /\ Quitters \subseteq {Left, Right}
                             /\ Doubles \in BOOLEAN
ASSUME NumbersAssumption  == /\ IDSpace \in Nat \ {0} /\ FirstID \in 0 .. IDSpace - 1
                             /\ MaxCommands \in [{Left, Right} -> Nat]
                             /\ PacketSize \in Nat \ {0}
(* No ID is given twice: a machine sends no more commands than there are    *)
(* IDs.  The code sets no such limit; a longer game needs that no packet or *)
(* queue still holds an ID when it is given again, which is not modelled.   *)
ASSUME LifetimeAssumption == \A p \in {Left, Right} : MaxCommands[p] <= IDSpace

Machines == {Left, Right}
Other(p) == IF p = Left THEN Right ELSE Left
IDs      == 0 .. IDSpace - 1

(* A packet: the IDs its acks acknowledge and the IDs of its commands. *)
Packet == [dst : Machines, acks : SUBSET IDs, commands : SUBSET IDs]

VARIABLES
  commandID,  \* the counter of GenerateNextCommandID
  commands,   \* the commands in the queue
  waiting,    \* those of them sent less than m_retryTime ago
  acks,       \* the acks in the queue
  quitting,   \* m_isQuitting
  connected,  \* m_connections[...] # NULL
  wire,       \* packets that may arrive
  sent,       \* history: commands taken by sendNetCommandMsg
  received,   \* history: commands that arrived
  acked,      \* history: commands whose ack arrived while connected
  flushed     \* history: has the queue been thrown away?

queue   == <<commands, waiting, acks, quitting, connected>>
history == <<sent, received, acked, flushed>>
vars    == <<commandID, queue, wire, history>>

-----------------------------------------------------------------------------
Init ==
  /\ commandID = [p \in Machines |-> FirstID]
  /\ commands  = [p \in Machines |-> {}]
  /\ waiting   = [p \in Machines |-> {}]
  /\ acks      = [p \in Machines |-> {}]
  /\ quitting  = [p \in Machines |-> FALSE]
  /\ connected = [p \in Machines |-> TRUE]
  /\ wire      = {}
  /\ sent      = [p \in Machines |-> {}]
  /\ received  = [p \in Machines |-> {}]
  /\ acked     = [p \in Machines |-> {}]
  /\ flushed   = [p \in Machines |-> FALSE]

MutantNoWrap(i)          == i + 1
GenerateNextCommandID(i) == (i + 1) % IDSpace

(* A command is numbered and queued; a quitting connection ignores it. *)
SendNetCommandMsg(p) ==
  LET id == GenerateNextCommandID(commandID[p])
  IN  /\ connected[p] /\ ~quitting[p]
      /\ Cardinality(sent[p]) < MaxCommands[p]
      /\ commandID' = [commandID EXCEPT ![p] = id]
      /\ commands'  = [commands EXCEPT ![p] = @ \cup {id}]
      /\ sent'      = [sent EXCEPT ![p] = @ \cup {id}]
      /\ UNCHANGED <<waiting, acks, quitting, connected, wire, received, acked, flushed>>

-----------------------------------------------------------------------------
(* doSend *)

Due(p) == commands[p] \ waiting[p]

(* The places of what is to be sent, in the order of the queue. *)
AckPlace(p, a)     == Cardinality({b \in acks[p] : b < a})
CommandPlace(p, c) == Cardinality(acks[p]) + Cardinality({d \in Due(p) : d < c})

(* A packet takes the next PacketSize entries.  The entry after them is the *)
(* one that did not fit: it is passed over until the next doSend.           *)
PacketOf(place)   == place \div (PacketSize + 1)
Fits(place)       == place % (PacketSize + 1) # PacketSize
LastPacket(p)     == PacketOf(Cardinality(acks[p]) + Cardinality(Due(p)) - 1)

AcksIn(p, n)     == {a \in acks[p] : PacketOf(AckPlace(p, a)) = n /\ Fits(AckPlace(p, a))}
CommandsIn(p, n) == {c \in Due(p) : PacketOf(CommandPlace(p, c)) = n /\ Fits(CommandPlace(p, c))}

MutantCommandsOnly(ackQueue, commandQueue) == commandQueue = {}
IsQueueEmpty(ackQueue, commandQueue) == ackQueue = {} /\ commandQueue = {}

(* The packets go to the transport up to number "last"; when that one finds *)
(* no room there it is lost and the rest of the queue is not looked at.     *)
(* What was packed is marked as sent, an ack is forgotten.  Then            *)
(* ConnectionManager::update deletes a quitting connection that is empty.   *)
Sending(p, refused) ==
  \E last \in -1 .. LastPacket(p) :
    LET packed(In(_, _)) == UNION {In(p, n) : n \in 0 .. last}
    IN  /\ connected[p]
        /\ IF refused THEN last >= 0 ELSE last = LastPacket(p)
        /\ acks'    = [acks EXCEPT ![p] = @ \ packed(AcksIn)]
        /\ waiting' = [waiting EXCEPT ![p] = @ \cup packed(CommandsIn)]
        /\ wire'    = wire \cup {[dst |-> Other(p), acks |-> AcksIn(p, n),
                                  commands |-> CommandsIn(p, n)] :
                                   n \in 0 .. (IF refused THEN last - 1 ELSE last)}
        /\ connected' = [connected EXCEPT ![p] =
                           ~(quitting[p] /\ IsQueueEmpty(acks'[p], commands[p]))]
        /\ UNCHANGED <<commandID, commands, quitting, history>>

DoSend(p) == Sending(p, FALSE) \/ Sending(p, TRUE)

RetryTimePasses(p, c) ==
  /\ c \in waiting[p]
  /\ waiting' = [waiting EXCEPT ![p] = @ \ {c}]
  /\ UNCHANGED <<commandID, commands, acks, quitting, connected, wire, history>>

-----------------------------------------------------------------------------
(* The receiving side *)

Least(S) == {a \in S : \A b \in S : a <= b}

(* processAck takes off the first entry of the queue with the ID and the    *)
(* local player.  The ID of an ack is 0: it is in front of a command 0.     *)
MutantCumulative(p, ids) ==
  [acks |-> acks[p], commands |-> {c \in commands[p] : \A a \in ids : a < c}]
MutantWaitingOnly(p, ids) ==
  [acks |-> acks[p], commands |-> commands[p] \ (ids \cap waiting[p])]

AfterAcks(p, ids) ==
  IF 0 \in ids /\ acks[p] # {}
  THEN [acks |-> acks[p] \ Least(acks[p]), commands |-> commands[p] \ (ids \ {0})]
  ELSE [acks |-> acks[p], commands |-> commands[p] \ ids]

(* Each command is acknowledged, however often it comes, unless the         *)
(* connection to its sender is quitting.                                    *)
MutantAcksOnce(p, m) == m.commands \ received[p]
AckCommands(p, m)    == IF quitting[p] THEN {} ELSE m.commands

(* doRelay takes a packet apart: first come the acks, then the commands.    *)
Receive(p, m) ==
  LET left == AfterAcks(p, m.acks)
  IN  /\ m.dst = p
      /\ received' = [received EXCEPT ![p] = @ \cup m.commands]
      /\ IF connected[p]
         THEN /\ commands' = [commands EXCEPT ![p] = left.commands]
              /\ waiting'  = [waiting EXCEPT ![p] = @ \cap left.commands]
              /\ acks'     = [acks EXCEPT ![p] = left.acks \cup AckCommands(p, m)]
              /\ acked'    = [acked EXCEPT ![p] = @ \cup m.acks]
         ELSE UNCHANGED <<commands, waiting, acks, acked>>
      /\ wire' = wire \ {m} \/ (Doubles /\ wire' = wire)
      /\ UNCHANGED <<commandID, quitting, connected, sent, flushed>>

(* The network (and a full m_inBuffer) loses packets. *)
Lose == /\ \E m \in wire : wire' = wire \ {m}
        /\ UNCHANGED <<commandID, queue, history>>

-----------------------------------------------------------------------------
(* A player left, on this machine or on the other: setQuitting. *)
Quit(p) ==
  /\ p \in Quitters /\ connected[p] /\ ~quitting[p]
  /\ quitting' = [quitting EXCEPT ![p] = TRUE]
  /\ UNCHANGED <<commandID, commands, waiting, acks, connected, wire, history>>

(* doSend after MaxQuitFlushTime of quitting, and the deletion by update. *)
Flush(p) ==
  /\ connected[p] /\ quitting[p]
  /\ commands'  = [commands EXCEPT ![p] = {}]
  /\ waiting'   = [waiting EXCEPT ![p] = {}]
  /\ acks'      = [acks EXCEPT ![p] = {}]
  /\ connected' = [connected EXCEPT ![p] = FALSE]
  /\ flushed'   = [flushed EXCEPT ![p] = TRUE]
  /\ UNCHANGED <<commandID, quitting, wire, sent, received, acked>>

Step(p) == \/ SendNetCommandMsg(p) \/ DoSend(p)
           \/ (\E c \in IDs : RetryTimePasses(p, c))
           \/ (\E m \in wire : Receive(p, m)) \/ Quit(p) \/ Flush(p)

Next == (\E p \in Machines : Step(p)) \/ Lose

Spec == Init /\ [][Next]_vars

(* The IDs machine p gives to its commands. *)
Numbers(p) == {(FirstID + i) % IDSpace : i \in 1 .. MaxCommands[p]}

(* update calls doSend again and again, and the transport, emptied after    *)
(* each time, does not refuse for ever while the same entry is to be sent;  *)
(* time passes; what is sent again and again gets through some time.        *)
Puts(p, S(_), c) == c \in S(p) /\ Sending(p, FALSE)
Gets(p, S(_), c) == \E m \in wire : c \in S(m) /\ Receive(p, m)

Fairness ==
  /\ \A p \in Quitters : WF_vars(Sending(p, FALSE))
  /\ \A p \in Machines : \A c \in Numbers(p) :
       /\ SF_vars(Puts(p, Due, c)) /\ WF_vars(RetryTimePasses(p, c))
       /\ SF_vars(Gets(Other(p), LAMBDA m : m.commands, c))
       /\ SF_vars(Puts(Other(p), LAMBDA q : acks[q], c))
       /\ SF_vars(Gets(p, LAMBDA m : m.acks, c))

FairSpec == Spec /\ Fairness

-----------------------------------------------------------------------------
(* Every variable has its type, and what waits is in the queue. *)
TypeOK ==
  /\ commandID \in [Machines -> IDs]
  /\ commands \in [Machines -> SUBSET IDs]
  /\ waiting \in [Machines -> SUBSET IDs]
  /\ acks \in [Machines -> SUBSET IDs]
  /\ quitting \in [Machines -> BOOLEAN]
  /\ connected \in [Machines -> BOOLEAN]
  /\ wire \subseteq Packet
  /\ sent \in [Machines -> SUBSET IDs]
  /\ received \in [Machines -> SUBSET IDs]
  /\ acked \in [Machines -> SUBSET IDs]
  /\ flushed \in [Machines -> BOOLEAN]
  /\ \A p \in Machines : waiting[p] \subseteq commands[p]

(* No command is lost: until the queue is thrown away, what was handed over *)
(* is in the queue or has arrived, whatever is lost, packed, passed over or *)
(* refused by the transport.                                                *)
NothingLost ==
  \A p \in Machines :
    ~flushed[p] => sent[p] \subseteq commands[p] \cup received[Other(p)]

(* A connection is deleted only with an empty queue. *)
DeletedEmpty ==
  \A p \in Machines : ~connected[p] => commands[p] = {} /\ acks[p] = {}

(* "The person we are sending to has ack'd one of the messages we sent him. *)
(* Take that message off the list of commands to send" (processAck): an     *)
(* acknowledged command is not in the queue any more.                       *)
AckedIsOff == \A p \in Machines : commands[p] \cap acked[p] = {}

Promise == INSTANCE AtLeastOnce WITH outstanding <- commands, gaveUp <- flushed

(* Both ends together deliver every command at least once. *)
DeliversAtLeastOnce == Promise!Spec

(* Unless one of the two quits, what is handed over arrives, and then       *)
(* leaves the queue: canILeave, which waits for empty queues, becomes true. *)
EverythingArrives ==
  \A p \in Machines, c \in IDs :
    (c \in sent[p]) ~> \/ c \in received[Other(p)] /\ c \notin commands[p]
                       \/ flushed[p] \/ quitting[Other(p)]

(* A machine that quits does not need the 30 seconds of MaxQuitFlushTime    *)
(* as long as the other one goes on answering.                              *)
QuittingEnds ==
  \A p \in Machines : quitting[p] ~> (~connected[p] \/ quitting[Other(p)])
=============================================================================
