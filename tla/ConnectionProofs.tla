-------------------------- MODULE ConnectionProofs --------------------------
(***************************************************************************)
(* Proofs about Connection, for any number of commands, any space of IDs,  *)
(* any packet size, and with or without doubled packets and quitting.      *)
(*                                                                         *)
(* The argument: an ack in a queue or in a packet is for a command that    *)
(* has been received (AcksInv), so a command leaves the queue only when it *)
(* has arrived or when the queue is thrown away (NothingLost).  The IDs of *)
(* a machine's commands are counted on from FirstID (NumbersInv), and none *)
(* is given twice.                                                         *)
(***************************************************************************)
EXTENDS Connection, Modulo, TLAPS, FiniteSetTheorems

-----------------------------------------------------------------------------
(* The first n IDs of a machine. *)
FirstIDs(n) == {(FirstID + i) % IDSpace : i \in 1 .. n}

(* The commands of machine p are numbered in order. *)
NumbersInv ==
  \A p \in Machines :
    /\ IsFiniteSet(sent[p])
    /\ Cardinality(sent[p]) <= MaxCommands[p]
    /\ sent[p] = FirstIDs(Cardinality(sent[p]))
    /\ commandID[p] = (FirstID + Cardinality(sent[p])) % IDSpace

(* What is queued, on its way, received or acknowledged was sent before. *)
SentInv ==
  /\ \A p \in Machines : /\ commands[p] \subseteq sent[p]
                         /\ received[p] \subseteq sent[Other(p)]
                         /\ acked[p] \subseteq received[Other(p)]
  /\ \A m \in wire : m.commands \subseteq sent[Other(m.dst)]

(* Only what has been received is acknowledged. *)
AcksInv ==
  /\ \A p \in Machines : acks[p] \subseteq received[p]
  /\ \A m \in wire : m.acks \subseteq received[Other(m.dst)]

IInv == TypeOK /\ NumbersInv /\ SentInv /\ AcksInv /\ NothingLost /\ DeletedEmpty

LEMMA Ends ==
  ASSUME NEW p \in Machines
  PROVE  Other(p) \in Machines /\ Other(Other(p)) = p /\ Other(p) # p
BY MachinesAssumption DEF Machines, Other

-----------------------------------------------------------------------------
(* Numbering *)

(* The next ID is new as long as IDs have not come round. *)
LEMMA NewID ==
  ASSUME NEW n \in Nat, n < IDSpace
  PROVE  /\ (FirstID + n + 1) % IDSpace \in IDs \ FirstIDs(n)
         /\ FirstIDs(n + 1) = FirstIDs(n) \cup {(FirstID + n + 1) % IDSpace}
<1>1. IDSpace \in Nat \ {0} /\ FirstID \in Nat
  BY NumbersAssumption
<1>2. (FirstID + n + 1) % IDSpace \in IDs
  BY <1>1, Division DEF IDs
<1>3. ASSUME NEW i \in 1 .. n PROVE (FirstID + i) % IDSpace # (FirstID + n + 1) % IDSpace
  <2> SUFFICES ASSUME (FirstID + i) % IDSpace = (FirstID + n + 1) % IDSpace PROVE FALSE
    OBVIOUS
  <2>1. /\ FirstID + i \in Int /\ FirstID + n + 1 \in Int
        /\ (FirstID + i) - (FirstID + n + 1) < IDSpace
        /\ (FirstID + n + 1) - (FirstID + i) < IDSpace
    BY <1>1
  <2>2. FirstID + i = FirstID + n + 1
    BY <1>1, <2>1, SameRemainder
  <2> QED BY <1>1, <2>2
<1>4. 1 .. n + 1 = (1 .. n) \cup {n + 1} /\ FirstID + (n + 1) = FirstID + n + 1
  BY <1>1
<1>5. FirstIDs(n + 1) = FirstIDs(n) \cup {(FirstID + n + 1) % IDSpace}
  BY <1>4 DEF FirstIDs
<1> QED BY <1>2, <1>3, <1>5 DEF FirstIDs

(* The ID a new command gets. *)
LEMMA NextID ==
  ASSUME TypeOK, NumbersInv, NEW p \in Machines, Cardinality(sent[p]) < MaxCommands[p]
  PROVE  LET n  == Cardinality(sent[p])
             id == GenerateNextCommandID(commandID[p])
         IN  /\ n \in Nat /\ n < IDSpace
             /\ id = (FirstID + n + 1) % IDSpace
             /\ id \in IDs \ sent[p]
             /\ sent[p] \cup {id} = FirstIDs(n + 1)
<1> DEFINE n  == Cardinality(sent[p])
           id == GenerateNextCommandID(commandID[p])
<1>1. n \in Nat
  BY FS_CardinalityType DEF NumbersInv
<1>2. MaxCommands[p] \in Nat /\ MaxCommands[p] <= IDSpace /\ IDSpace \in Nat \ {0} /\ FirstID \in Nat
  BY NumbersAssumption, LifetimeAssumption DEF Machines
<1>3. n < IDSpace
  BY <1>1, <1>2
<1>4. id = (FirstID + n + 1) % IDSpace
  <2>1. FirstID + n \in Int
    BY <1>1, <1>2
  <2>2. (((FirstID + n) % IDSpace) + 1) % IDSpace = (FirstID + n + 1) % IDSpace
    BY <1>2, <2>1, NextRemainder
  <2> QED BY <2>2 DEF NumbersInv, GenerateNextCommandID
<1>5. sent[p] = FirstIDs(n)
  BY DEF NumbersInv
<1> HIDE DEF n, id
<1>6. id \in IDs \ sent[p] /\ sent[p] \cup {id} = FirstIDs(n + 1)
  BY <1>1, <1>3, <1>4, <1>5, NewID
<1> QED BY <1>1, <1>3, <1>4, <1>6 DEF n, id

LEMMA SendKeepsNumbers ==
  ASSUME TypeOK, NumbersInv, NEW p \in Machines, SendNetCommandMsg(p)
  PROVE  NumbersInv'
<1> DEFINE n  == Cardinality(sent[p])
           id == GenerateNextCommandID(commandID[p])
<1>1. /\ n < MaxCommands[p]
      /\ commandID' = [commandID EXCEPT ![p] = id]
      /\ sent' = [sent EXCEPT ![p] = @ \cup {id}]
  BY DEF SendNetCommandMsg
<1>2. /\ n \in Nat /\ id = (FirstID + n + 1) % IDSpace
      /\ id \notin sent[p] /\ sent[p] \cup {id} = FirstIDs(n + 1)
  BY <1>1, NextID
<1>3. IsFiniteSet(sent[p])
  BY DEF NumbersInv
<1> HIDE DEF id
<1>4. IsFiniteSet(sent[p] \cup {id}) /\ Cardinality(sent[p] \cup {id}) = n + 1
  BY <1>2, <1>3, FS_AddElement
<1>5. MaxCommands[p] \in Nat /\ FirstID \in Nat
  BY NumbersAssumption DEF Machines
<1>6. sent'[p] = sent[p] \cup {id} /\ commandID'[p] = id
  BY <1>1 DEF TypeOK
<1>7. ASSUME NEW q \in Machines, q # p PROVE sent'[q] = sent[q] /\ commandID'[q] = commandID[q]
  BY <1>1, <1>7 DEF TypeOK
<1> DEFINE k == n + 1
<1>8. k \in Nat /\ k <= MaxCommands[p] /\ id = (FirstID + k) % IDSpace
  <2>1. FirstID + k = FirstID + n + 1
    BY <1>2, <1>5
  <2> QED BY <1>1, <1>2, <1>5, <2>1
<1>9. /\ IsFiniteSet(sent'[p]) /\ Cardinality(sent'[p]) = k /\ sent'[p] = FirstIDs(k)
  BY <1>2, <1>4, <1>6
<1> HIDE DEF k
<1>10. ASSUME NEW q \in Machines
       PROVE  /\ IsFiniteSet(sent'[q])
              /\ Cardinality(sent'[q]) <= MaxCommands[q]
              /\ sent'[q] = FirstIDs(Cardinality(sent'[q]))
              /\ commandID'[q] = (FirstID + Cardinality(sent'[q])) % IDSpace
  <2>1. CASE q = p
    BY <1>6, <1>8, <1>9, <2>1
  <2>2. CASE q # p
    BY <1>7, <2>2 DEF NumbersInv
  <2> QED BY <2>1, <2>2
<1> QED BY <1>10 DEF NumbersInv, FirstIDs

-----------------------------------------------------------------------------
(* Initially *)

LEMMA Initially == ASSUME Init PROVE IInv
<1>1. IDSpace \in Nat \ {0} /\ FirstID \in 0 .. IDSpace - 1
  BY NumbersAssumption
<1>2. TypeOK
  BY <1>1 DEF Init, TypeOK, IDs
<1>3. NumbersInv
  <2> SUFFICES ASSUME NEW p \in Machines
               PROVE  /\ IsFiniteSet({}) /\ Cardinality({}) <= MaxCommands[p]
                      /\ {} = FirstIDs(Cardinality({}))
                      /\ FirstID = (FirstID + Cardinality({})) % IDSpace
    BY DEF Init, NumbersInv
  <2>1. IsFiniteSet({}) /\ Cardinality({}) = 0
    BY FS_EmptySet
  <2>2. MaxCommands[p] \in Nat
    BY NumbersAssumption DEF Machines
  <2>3. {} = FirstIDs(0)
    BY DEF FirstIDs
  <2>4. FirstID + 0 = FirstID /\ FirstID % IDSpace = FirstID
    BY <1>1, SmallRemainder
  <2> QED BY <2>1, <2>2, <2>3, <2>4
<1>4. SentInv /\ AcksInv /\ NothingLost /\ DeletedEmpty
  BY Ends DEF Init, SentInv, AcksInv, NothingLost, DeletedEmpty
<1> QED BY <1>2, <1>3, <1>4 DEF IInv

-----------------------------------------------------------------------------
(* Each action keeps the invariant. *)

LEMMA SendKeeps ==
  ASSUME IInv, NEW p \in Machines, SendNetCommandMsg(p) PROVE IInv'
<1> DEFINE id == GenerateNextCommandID(commandID[p])
<1>1. /\ connected[p] /\ Cardinality(sent[p]) < MaxCommands[p]
      /\ commandID' = [commandID EXCEPT ![p] = id]
      /\ commands'  = [commands EXCEPT ![p] = @ \cup {id}]
      /\ sent'      = [sent EXCEPT ![p] = @ \cup {id}]
      /\ UNCHANGED <<waiting, acks, quitting, connected, wire, received, acked, flushed>>
  BY DEF SendNetCommandMsg
<1>2. id \in IDs
  BY <1>1, NextID DEF IInv
<1> HIDE DEF id
<1>3. TypeOK'
  BY <1>1, <1>2 DEF IInv, TypeOK
<1>4. NumbersInv'
  BY SendKeepsNumbers DEF IInv
<1>5. \A q \in Machines : sent[q] \subseteq sent'[q]
  BY <1>1 DEF IInv, TypeOK
<1>6. SentInv'
  <2>1. \A q \in Machines : commands'[q] \subseteq sent'[q]
    BY <1>1 DEF IInv, TypeOK, SentInv
  <2>2. \A q \in Machines : received[q] \subseteq sent'[Other(q)]
    BY <1>5, Ends DEF IInv, SentInv
  <2>3. \A m \in wire : m.commands \subseteq sent'[Other(m.dst)]
    BY <1>5, Ends DEF IInv, SentInv, TypeOK, Packet
  <2> QED BY <1>1, <2>1, <2>2, <2>3 DEF IInv, SentInv
<1>7. AcksInv'
  BY <1>1 DEF IInv, AcksInv
<1>8. NothingLost'
  BY <1>1 DEF IInv, TypeOK, NothingLost
<1>9. DeletedEmpty'
  BY <1>1 DEF IInv, TypeOK, DeletedEmpty
<1> QED BY <1>3, <1>4, <1>6, <1>7, <1>8, <1>9 DEF IInv

(* What a packet takes is in the queue, and no command leaves the queue. *)
LEMMA SendingEffect ==
  ASSUME TypeOK, NEW p \in Machines, NEW refused \in BOOLEAN, Sending(p, refused)
  PROVE  \E As \in SUBSET acks[p], Cs \in SUBSET commands[p] :
           /\ connected[p]
           /\ acks'    = [acks EXCEPT ![p] = @ \ As]
           /\ waiting' = [waiting EXCEPT ![p] = @ \cup Cs]
           /\ \A m \in wire' \ wire : /\ m \in Packet /\ m.dst = Other(p)
                                      /\ m.acks \subseteq acks[p]
                                      /\ m.commands \subseteq commands[p]
           /\ connected' = [connected EXCEPT ![p] =
                              ~(quitting[p] /\ IsQueueEmpty(acks'[p], commands[p]))]
           /\ UNCHANGED <<commandID, commands, quitting, history>>
<1>1. PICK last \in -1 .. LastPacket(p) :
        /\ connected[p]
        /\ acks'    = [acks EXCEPT ![p] = @ \ UNION {AcksIn(p, n) : n \in 0 .. last}]
        /\ waiting' = [waiting EXCEPT ![p] = @ \cup UNION {CommandsIn(p, n) : n \in 0 .. last}]
        /\ wire'    = wire \cup {[dst |-> Other(p), acks |-> AcksIn(p, n),
                                  commands |-> CommandsIn(p, n)] :
                                   n \in 0 .. (IF refused THEN last - 1 ELSE last)}
        /\ connected' = [connected EXCEPT ![p] =
                           ~(quitting[p] /\ IsQueueEmpty(acks'[p], commands[p]))]
        /\ UNCHANGED <<commandID, commands, quitting, history>>
  BY DEF Sending
<1> DEFINE As == UNION {AcksIn(p, n) : n \in 0 .. last}
           Cs == UNION {CommandsIn(p, n) : n \in 0 .. last}
<1>2. \A n \in Int : AcksIn(p, n) \subseteq acks[p] /\ CommandsIn(p, n) \subseteq commands[p]
  BY DEF AcksIn, CommandsIn, Due
<1>3. As \subseteq acks[p] /\ Cs \subseteq commands[p]
  BY <1>2
<1>4. acks[p] \subseteq IDs /\ commands[p] \subseteq IDs /\ Other(p) \in Machines
  BY Ends DEF TypeOK
<1>5. ASSUME NEW m \in wire' \ wire
      PROVE  /\ m \in Packet /\ m.dst = Other(p)
             /\ m.acks \subseteq acks[p] /\ m.commands \subseteq commands[p]
  <2>1. PICK n \in Int : m = [dst |-> Other(p), acks |-> AcksIn(p, n), commands |-> CommandsIn(p, n)]
    BY <1>1
  <2>2. AcksIn(p, n) \subseteq acks[p] /\ CommandsIn(p, n) \subseteq commands[p]
    BY <1>2
  <2> QED BY <1>4, <2>1, <2>2 DEF Packet
<1> HIDE DEF As, Cs
<1>6. As \in SUBSET acks[p] /\ Cs \in SUBSET commands[p]
  BY <1>3
<1>7. acks' = [acks EXCEPT ![p] = @ \ As] /\ waiting' = [waiting EXCEPT ![p] = @ \cup Cs]
  BY <1>1 DEF As, Cs
<1> QED BY <1>1, <1>5, <1>6, <1>7

LEMMA SendingKeeps ==
  ASSUME IInv, NEW p \in Machines, NEW refused \in BOOLEAN, Sending(p, refused) PROVE IInv'
<1>1. PICK As \in SUBSET acks[p], Cs \in SUBSET commands[p] :
        /\ connected[p]
        /\ acks'    = [acks EXCEPT ![p] = @ \ As]
        /\ waiting' = [waiting EXCEPT ![p] = @ \cup Cs]
        /\ \A m \in wire' \ wire : /\ m \in Packet /\ m.dst = Other(p)
                                   /\ m.acks \subseteq acks[p]
                                   /\ m.commands \subseteq commands[p]
        /\ connected' = [connected EXCEPT ![p] =
                           ~(quitting[p] /\ IsQueueEmpty(acks'[p], commands[p]))]
        /\ UNCHANGED <<commandID, commands, quitting, history>>
  BY SendingEffect DEF IInv
<1>2. UNCHANGED <<sent, received, acked, flushed>>
  BY <1>1 DEF history
<1>3. TypeOK'
  BY <1>1, <1>2 DEF IInv, TypeOK
<1>4. NumbersInv' /\ NothingLost'
  BY <1>1, <1>2 DEF IInv, NumbersInv, NothingLost, FirstIDs
<1>5. ASSUME NEW m \in wire'
      PROVE  m.commands \subseteq sent[Other(m.dst)] /\ m.acks \subseteq received[Other(m.dst)]
  <2>1. CASE m \in wire
    BY <2>1 DEF IInv, SentInv, AcksInv
  <2>2. CASE m \notin wire
    BY <1>1, <2>2, Ends DEF IInv, SentInv, AcksInv
  <2> QED BY <2>1, <2>2
<1>6. SentInv' /\ AcksInv'
  BY <1>1, <1>2, <1>5 DEF IInv, SentInv, AcksInv, TypeOK
<1>7. DeletedEmpty'
  BY <1>1, <1>2 DEF IInv, TypeOK, DeletedEmpty, IsQueueEmpty
<1> QED BY <1>3, <1>4, <1>6, <1>7 DEF IInv

LEMMA RetryKeeps ==
  ASSUME IInv, NEW p \in Machines, NEW c \in IDs, RetryTimePasses(p, c) PROVE IInv'
<1>1. /\ waiting' = [waiting EXCEPT ![p] = @ \ {c}]
      /\ UNCHANGED <<commandID, commands, acks, quitting, connected, wire, sent, received, acked, flushed>>
  BY DEF RetryTimePasses, history
<1>2. TypeOK'
  BY <1>1 DEF IInv, TypeOK
<1> QED BY <1>1, <1>2 DEF IInv, NumbersInv, FirstIDs, SentInv, AcksInv, NothingLost, DeletedEmpty

(* What processAck leaves was in the queue, and a command it takes off was *)
(* acknowledged.                                                           *)
LEMMA AcksTakeOff ==
  ASSUME NEW p \in Machines, NEW ids
  PROVE  /\ AfterAcks(p, ids).acks \subseteq acks[p]
         /\ AfterAcks(p, ids).commands \subseteq commands[p]
         /\ commands[p] \ ids \subseteq AfterAcks(p, ids).commands
BY DEF AfterAcks

(* What a packet changes, whether the connection is there or not. *)
LEMMA ReceiveEffect ==
  ASSUME TypeOK, NEW p \in Machines, NEW m \in wire, Receive(p, m)
  PROVE  /\ m.dst = p /\ wire' \subseteq wire
         /\ received' = [received EXCEPT ![p] = @ \cup m.commands]
         /\ UNCHANGED <<commandID, quitting, connected, sent, flushed>>
         /\ \E Cs \in SUBSET commands[p], As \in SUBSET (acks[p] \cup m.commands), Ds \in SUBSET m.acks :
              /\ commands' = [commands EXCEPT ![p] = Cs]
              /\ waiting'  = [waiting EXCEPT ![p] = @ \cap Cs]
              /\ acks'     = [acks EXCEPT ![p] = As]
              /\ acked'    = [acked EXCEPT ![p] = @ \cup Ds]
              /\ commands[p] \ m.acks \subseteq Cs
              /\ ~connected[p] => As = acks[p]
<1>1. /\ m.dst = p /\ wire' \subseteq wire
      /\ received' = [received EXCEPT ![p] = @ \cup m.commands]
      /\ UNCHANGED <<commandID, quitting, connected, sent, flushed>>
  BY DEF Receive
<1> DEFINE left == AfterAcks(p, m.acks)
<1>2. CASE connected[p]
  <2>1. /\ commands' = [commands EXCEPT ![p] = left.commands]
        /\ waiting'  = [waiting EXCEPT ![p] = @ \cap left.commands]
        /\ acks'     = [acks EXCEPT ![p] = left.acks \cup AckCommands(p, m)]
        /\ acked'    = [acked EXCEPT ![p] = @ \cup m.acks]
    BY <1>2 DEF Receive
  <2>2. /\ left.acks \subseteq acks[p] /\ left.commands \subseteq commands[p]
        /\ commands[p] \ m.acks \subseteq left.commands
    BY AcksTakeOff
  <2>3. AckCommands(p, m) \subseteq m.commands
    BY DEF AckCommands
  <2> HIDE DEF left
  <2>4. /\ left.commands \in SUBSET commands[p]
        /\ left.acks \cup AckCommands(p, m) \in SUBSET (acks[p] \cup m.commands)
        /\ m.acks \in SUBSET m.acks
    BY <2>2, <2>3
  <2> QED BY <1>1, <1>2, <2>1, <2>2, <2>4
<1>3. CASE ~connected[p]
  <2>1. UNCHANGED <<commands, waiting, acks, acked>>
    BY <1>3 DEF Receive
  <2>2. /\ commands' = [commands EXCEPT ![p] = commands[p]]
        /\ waiting'  = [waiting EXCEPT ![p] = @ \cap commands[p]]
        /\ acks'     = [acks EXCEPT ![p] = acks[p]]
        /\ acked'    = [acked EXCEPT ![p] = @ \cup {}]
        /\ commands[p] \ m.acks \subseteq commands[p]
    BY <2>1 DEF TypeOK
  <2> SUFFICES \E Cs \in SUBSET commands[p], As \in SUBSET (acks[p] \cup m.commands), Ds \in SUBSET m.acks :
              /\ commands' = [commands EXCEPT ![p] = Cs]
              /\ waiting'  = [waiting EXCEPT ![p] = @ \cap Cs]
              /\ acks'     = [acks EXCEPT ![p] = As]
              /\ acked'    = [acked EXCEPT ![p] = @ \cup Ds]
              /\ commands[p] \ m.acks \subseteq Cs
              /\ ~connected[p] => As = acks[p]
    BY <1>1
  <2> WITNESS commands[p] \in SUBSET commands[p], acks[p] \in SUBSET (acks[p] \cup m.commands),
              {} \in SUBSET m.acks
  <2> QED BY <2>2
<1> QED BY <1>1, <1>2, <1>3

LEMMA ReceiveKeeps ==
  ASSUME IInv, NEW p \in Machines, NEW m \in wire, Receive(p, m) PROVE IInv'
<1>1. /\ m.dst = p /\ wire' \subseteq wire
      /\ received' = [received EXCEPT ![p] = @ \cup m.commands]
      /\ UNCHANGED <<commandID, quitting, connected, sent, flushed>>
  BY ReceiveEffect DEF IInv
<1>2. PICK Cs \in SUBSET commands[p], As \in SUBSET (acks[p] \cup m.commands), Ds \in SUBSET m.acks :
        /\ commands' = [commands EXCEPT ![p] = Cs]
        /\ waiting'  = [waiting EXCEPT ![p] = @ \cap Cs]
        /\ acks'     = [acks EXCEPT ![p] = As]
        /\ acked'    = [acked EXCEPT ![p] = @ \cup Ds]
        /\ commands[p] \ m.acks \subseteq Cs
        /\ ~connected[p] => As = acks[p]
  BY ReceiveEffect DEF IInv
<1>3. /\ m.acks \subseteq IDs /\ m.commands \subseteq IDs
      /\ m.commands \subseteq sent[Other(p)] /\ m.acks \subseteq received[Other(p)]
  BY <1>1 DEF IInv, TypeOK, Packet, SentInv, AcksInv
<1>4. \A q \in Machines : received[q] \subseteq received'[q]
  BY <1>1 DEF IInv, TypeOK
<1>5. TypeOK'
  BY <1>1, <1>2, <1>3 DEF IInv, TypeOK
<1>6. NumbersInv'
  BY <1>1 DEF IInv, NumbersInv, FirstIDs
<1>7. SentInv'
  <2>1. \A q \in Machines : commands'[q] \subseteq sent[q]
    BY <1>2 DEF IInv, TypeOK, SentInv
  <2>2. \A q \in Machines : received'[q] \subseteq sent[Other(q)]
    BY <1>1, <1>3 DEF IInv, TypeOK, SentInv
  <2>3. \A q \in Machines : acked'[q] \subseteq received'[Other(q)]
    BY <1>2, <1>3, <1>4, Ends DEF IInv, TypeOK, SentInv
  <2> QED BY <1>1, <2>1, <2>2, <2>3 DEF IInv, SentInv
<1>8. AcksInv'
  <2>1. \A q \in Machines : acks'[q] \subseteq received'[q]
    BY <1>1, <1>2 DEF IInv, TypeOK, AcksInv
  <2>2. \A n \in wire : n.acks \subseteq received'[Other(n.dst)]
    BY <1>4, Ends DEF IInv, AcksInv, TypeOK, Packet
  <2> QED BY <1>1, <2>1, <2>2 DEF AcksInv
<1>9. NothingLost'
  <2> SUFFICES ASSUME NEW q \in Machines, ~flushed[q]
               PROVE  sent[q] \subseteq commands'[q] \cup received'[Other(q)]
    BY <1>1 DEF NothingLost
  <2>1. sent[q] \subseteq commands[q] \cup received'[Other(q)]
    BY <1>4, Ends DEF IInv, NothingLost
  <2>2. commands[q] \subseteq commands'[q] \cup received'[Other(q)]
    BY <1>2, <1>3, <1>4, Ends DEF IInv, TypeOK
  <2> QED BY <2>1, <2>2
<1>10. DeletedEmpty'
  BY <1>1, <1>2 DEF IInv, TypeOK, DeletedEmpty
<1> QED BY <1>5, <1>6, <1>7, <1>8, <1>9, <1>10 DEF IInv

LEMMA LoseKeeps == ASSUME IInv, Lose PROVE IInv'
<1>1. /\ wire' \subseteq wire
      /\ UNCHANGED <<commandID, commands, waiting, acks, quitting, connected, sent, received, acked, flushed>>
  BY DEF Lose, queue, history
<1> QED BY <1>1 DEF IInv, TypeOK, NumbersInv, FirstIDs, SentInv, AcksInv, NothingLost, DeletedEmpty

LEMMA QuitKeeps == ASSUME IInv, NEW p \in Machines, Quit(p) PROVE IInv'
<1>1. /\ quitting' = [quitting EXCEPT ![p] = TRUE]
      /\ UNCHANGED <<commandID, commands, waiting, acks, connected, wire, sent, received, acked, flushed>>
  BY DEF Quit, history
<1>2. TypeOK'
  BY <1>1 DEF IInv, TypeOK
<1> QED BY <1>1, <1>2 DEF IInv, NumbersInv, FirstIDs, SentInv, AcksInv, NothingLost, DeletedEmpty

LEMMA FlushKeeps == ASSUME IInv, NEW p \in Machines, Flush(p) PROVE IInv'
<1>1. /\ commands'  = [commands EXCEPT ![p] = {}]
      /\ waiting'   = [waiting EXCEPT ![p] = {}]
      /\ acks'      = [acks EXCEPT ![p] = {}]
      /\ connected' = [connected EXCEPT ![p] = FALSE]
      /\ flushed'   = [flushed EXCEPT ![p] = TRUE]
      /\ UNCHANGED <<commandID, quitting, wire, sent, received, acked>>
  BY DEF Flush
<1>2. TypeOK'
  BY <1>1 DEF IInv, TypeOK
<1>3. NumbersInv'
  BY <1>1 DEF IInv, NumbersInv, FirstIDs
<1>4. SentInv' /\ AcksInv'
  BY <1>1 DEF IInv, TypeOK, SentInv, AcksInv
<1>5. NothingLost' /\ DeletedEmpty'
  BY <1>1 DEF IInv, TypeOK, NothingLost, DeletedEmpty
<1> QED BY <1>2, <1>3, <1>4, <1>5 DEF IInv

-----------------------------------------------------------------------------
(* Theorems *)

(* The inductive invariant. *)
THEOREM Invariant == Spec => []IInv
<1>1. Init => IInv
  BY Initially
<1>2. IInv /\ [Next]_vars => IInv'
  <2> SUFFICES ASSUME IInv, [Next]_vars PROVE IInv'
    OBVIOUS
  <2>1. ASSUME NEW p \in Machines, Step(p) PROVE IInv'
    <3>1. CASE SendNetCommandMsg(p)
      BY <3>1, SendKeeps
    <3>2. CASE DoSend(p)
      BY <3>2, SendingKeeps DEF DoSend
    <3>3. CASE \E c \in IDs : RetryTimePasses(p, c)
      BY <3>3, RetryKeeps
    <3>4. CASE \E m \in wire : Receive(p, m)
      BY <3>4, ReceiveKeeps
    <3>5. CASE Quit(p)
      BY <3>5, QuitKeeps
    <3>6. CASE Flush(p)
      BY <3>6, FlushKeeps
    <3> QED BY <2>1, <3>1, <3>2, <3>3, <3>4, <3>5, <3>6 DEF Step
  <2>2. CASE Lose
    BY <2>2, LoseKeeps
  <2>3. CASE UNCHANGED vars
    BY <2>3 DEF vars, queue, history, IInv, TypeOK, NumbersInv, FirstIDs, SentInv, AcksInv,
                NothingLost, DeletedEmpty
  <2> QED BY <2>1, <2>2, <2>3 DEF Next
<1> QED BY <1>1, <1>2, PTL DEF Spec

(* Every variable keeps its type, whatever comes from the network. *)
THEOREM TypeCorrect == Spec => []TypeOK
<1>1. IInv => TypeOK
  BY DEF IInv
<1> QED BY <1>1, Invariant, PTL

(* Until a queue is thrown away, every command handed over is in it or has *)
(* arrived.                                                                *)
THEOREM NothingIsLost == Spec => []NothingLost
<1>1. IInv => NothingLost
  BY DEF IInv
<1> QED BY <1>1, Invariant, PTL

(* A connection is deleted only when its queue is empty. *)
THEOREM DeletedWhenEmpty == Spec => []DeletedEmpty
<1>1. IInv => DeletedEmpty
  BY DEF IInv
<1> QED BY <1>1, Invariant, PTL

-----------------------------------------------------------------------------
(* Refinement *)

LEMMA SendsPromised ==
  ASSUME IInv, NEW p \in Machines, SendNetCommandMsg(p) PROVE Promise!Send(p)
<1> DEFINE id == GenerateNextCommandID(commandID[p])
<1>1. /\ Cardinality(sent[p]) < MaxCommands[p]
      /\ commands' = [commands EXCEPT ![p] = @ \cup {id}]
      /\ sent'     = [sent EXCEPT ![p] = @ \cup {id}]
      /\ UNCHANGED <<received, flushed>>
  BY DEF SendNetCommandMsg
<1>2. id \in IDs \ sent[p]
  BY <1>1, NextID DEF IInv
<1> QED BY <1>1, <1>2 DEF Promise!Send

LEMMA ReceivesPromised ==
  ASSUME IInv, NEW p \in Machines, NEW m \in wire, Receive(p, m) PROVE Promise!Receive(p)
<1>1. /\ m.dst = p
      /\ received' = [received EXCEPT ![p] = @ \cup m.commands]
      /\ UNCHANGED <<sent, flushed>>
  BY ReceiveEffect DEF IInv
<1>2. PICK Cs \in SUBSET commands[p] :
        commands' = [commands EXCEPT ![p] = Cs] /\ commands[p] \ m.acks \subseteq Cs
  BY ReceiveEffect DEF IInv
<1>3. m.commands \subseteq sent[Other(p)] /\ m.acks \subseteq received[Other(p)]
  BY <1>1 DEF IInv, SentInv, AcksInv
<1> DEFINE done == commands[p] \ Cs
<1>4. done \in SUBSET received[Other(p)] /\ commands[p] \ done = Cs
  BY <1>2, <1>3
<1>5. commands' = [commands EXCEPT ![p] = @ \ done]
  BY <1>2, <1>4
<1> HIDE DEF done
<1> QED BY <1>1, <1>3, <1>4, <1>5 DEF Promise!Receive

(* The two ends implement AtLeastOnce. *)
THEOREM Refinement == Spec => DeliversAtLeastOnce
<1>1. Init => Promise!Init
  BY DEF Init, Promise!Init
<1>2. IInv /\ [Next]_vars => [Promise!Next]_Promise!vars
  <2> SUFFICES ASSUME IInv, [Next]_vars PROVE Promise!Next \/ UNCHANGED Promise!vars
    OBVIOUS
  <2>1. ASSUME NEW p \in Machines, Step(p) PROVE Promise!Next \/ UNCHANGED Promise!vars
    <3>1. CASE SendNetCommandMsg(p)
      BY <3>1, SendsPromised DEF Promise!Next
    <3>2. CASE DoSend(p)
      BY <3>2 DEF DoSend, Sending, history, Promise!vars
    <3>3. CASE \E c \in IDs : RetryTimePasses(p, c)
      BY <3>3 DEF RetryTimePasses, history, Promise!vars
    <3>4. CASE \E m \in wire : Receive(p, m)
      BY <3>4, ReceivesPromised DEF Promise!Next
    <3>5. CASE Quit(p)
      BY <3>5 DEF Quit, history, Promise!vars
    <3>6. CASE Flush(p)
      BY <3>6 DEF Flush, Promise!GiveUp, Promise!Next
    <3> QED BY <2>1, <3>1, <3>2, <3>3, <3>4, <3>5, <3>6 DEF Step
  <2>2. CASE Lose
    BY <2>2 DEF Lose, queue, history, Promise!vars
  <2>3. CASE UNCHANGED vars
    BY <2>3 DEF vars, queue, history, Promise!vars
  <2> QED BY <2>1, <2>2, <2>3 DEF Next
<1> QED BY <1>1, <1>2, Invariant, PTL DEF Spec, DeliversAtLeastOnce, Promise!Spec

-----------------------------------------------------------------------------
(* As long as no command gets the ID 0, that is, before the 16-bit counter *)
(* has come round, an acknowledged command is off the queue.               *)
NoCommandZero == \A p \in Machines : 0 \notin Numbers(p)

LEMMA SentNumbers == ASSUME NumbersInv, NEW p \in Machines PROVE sent[p] \subseteq Numbers(p)
<1> DEFINE n == Cardinality(sent[p])
<1>1. n \in Nat /\ n <= MaxCommands[p] /\ MaxCommands[p] \in Nat
  BY FS_CardinalityType, NumbersAssumption DEF NumbersInv, Machines
<1>2. 1 .. n \subseteq 1 .. MaxCommands[p]
  BY <1>1
<1> HIDE DEF n
<1>3. FirstIDs(n) \subseteq Numbers(p)
  BY <1>2 DEF FirstIDs, Numbers
<1> QED BY <1>3 DEF n, NumbersInv

LEMMA AckedStaysOff ==
  ASSUME NoCommandZero, IInv, AckedIsOff, [Next]_vars PROVE AckedIsOff'
<1>1. ASSUME NEW p \in Machines, Step(p) PROVE AckedIsOff'
  <2>1. CASE SendNetCommandMsg(p)
    <3> DEFINE id == GenerateNextCommandID(commandID[p])
    <3>1. /\ Cardinality(sent[p]) < MaxCommands[p]
          /\ commands' = [commands EXCEPT ![p] = @ \cup {id}]
          /\ UNCHANGED acked
      BY <2>1 DEF SendNetCommandMsg
    <3>2. id \notin sent[p]
      BY <3>1, NextID DEF IInv
    <3>3. acked[p] \subseteq sent[p]
      BY Ends DEF IInv, SentInv
    <3> QED BY <3>1, <3>2, <3>3 DEF AckedIsOff, IInv, TypeOK
  <2>2. CASE DoSend(p)
    BY <2>2 DEF DoSend, Sending, history, AckedIsOff
  <2>3. CASE \E c \in IDs : RetryTimePasses(p, c)
    BY <2>3 DEF RetryTimePasses, history, AckedIsOff
  <2>4. ASSUME NEW m \in wire, Receive(p, m) PROVE AckedIsOff'
    <3>1. CASE ~connected[p]
      BY <2>4, <3>1 DEF Receive, AckedIsOff
    <3>2. CASE connected[p]
      <4>1. /\ m.dst = p
            /\ commands' = [commands EXCEPT ![p] = AfterAcks(p, m.acks).commands]
            /\ acked'    = [acked EXCEPT ![p] = @ \cup m.acks]
        BY <2>4, <3>2 DEF Receive
      <4>2. m.acks \subseteq sent[p]
        BY <4>1, Ends DEF IInv, AcksInv, SentInv
      <4>3. 0 \notin m.acks
        BY <4>2, SentNumbers DEF IInv, NoCommandZero
      <4>4. AfterAcks(p, m.acks).commands = commands[p] \ m.acks
        BY <4>3 DEF AfterAcks
      <4> QED BY <4>1, <4>4 DEF AckedIsOff, IInv, TypeOK
    <3> QED BY <3>1, <3>2
  <2>5. CASE Quit(p)
    BY <2>5 DEF Quit, history, AckedIsOff
  <2>6. CASE Flush(p)
    BY <2>6 DEF Flush, AckedIsOff, IInv, TypeOK
  <2> QED BY <1>1, <2>1, <2>2, <2>3, <2>4, <2>5, <2>6 DEF Step
<1>2. CASE Lose
  BY <1>2 DEF Lose, queue, history, AckedIsOff
<1>3. CASE UNCHANGED vars
  BY <1>3 DEF vars, queue, history, AckedIsOff
<1> QED BY <1>1, <1>2, <1>3 DEF Next

(* Without a command 0 an acknowledged command never comes back. *)
THEOREM AckedLeaves == ASSUME NoCommandZero PROVE Spec => []AckedIsOff
<1>1. Init => AckedIsOff
  BY DEF Init, AckedIsOff
<1>2. IInv /\ AckedIsOff /\ [Next]_vars => AckedIsOff'
  BY AckedStaysOff
<1> QED BY <1>1, <1>2, Invariant, PTL DEF Spec
=============================================================================
