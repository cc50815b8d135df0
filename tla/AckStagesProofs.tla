--------------------------- MODULE AckStagesProofs ---------------------------
(***************************************************************************)
(* Proofs about AckStages, for any number of players and commands, whoever *)
(* leaves.                                                                 *)
(*                                                                         *)
(* The argument: whoever acknowledges a command has it (AckInv), so that a *)
(* queue loses a command only when it has served.  Only a packet router is *)
(* sent a command it has to relay (PacketInv); when it first takes the     *)
(* command in it queues it for everyone, and only then can the giver       *)
(* forget it (RouterInv).  What is pending when Leaver is gone is queued   *)
(* for the router there is then, and stays so until that router, which     *)
(* does not leave, has queued it for everyone (LaterRouterInv).  Whatever  *)
(* makes a giver forget a command, an ack from a router that need not      *)
(* relay it included, tells that the router there is without Leaver has it *)
(* or that somebody who stays has run its frame (HeldInv).                 *)
(***************************************************************************)
EXTENDS AckStages, TLAPS

First == FirstOf(Players)
Second == FirstOf(Players \ {Leaver})

(* Who has a command got it from its giver, who gave it for a frame to     *)
(* come; only the giver keeps it as pending.                               *)
GivenInv ==
  /\ \A p \in Players : \A c \in got[p] : FirstFrame < Frame[c] /\ c \in got[Origin[c]]
  /\ \A m \in net : m.cmd \in got[Origin[m.cmd]]
  /\ \A p \in Players : \A c \in pending[p] : Origin[c] = p /\ c \in got[p]

(* A frame is run with all its commands. *)
RanInv == \A p \in Players : /\ FirstFrame <= frame[p]
                             /\ \A c \in Commands :
                                  FirstFrame <= Frame[c] /\ Frame[c] < frame[p] => c \in got[p]

(* Nobody is sent a command to relay but the packet router. *)
ToRelay(m) == /\ m.relay = Players \ {Origin[m.cmd]}
              /\ m.to = First \/ (m.to = Second /\ RouterChanged)
PacketInv == \A m \in net : /\ m.to \in m.relay /\ m.to # Origin[m.cmd]
                            /\ m.relay = {m.to} \/ ToRelay(m)

(* An ack says that its sender has the command. *)
Sound(a) ==
  /\ a.kind = "stage2" => a.from = 0 /\ (RouterChanged \/ a.cmd \in got[First])
  /\ a.kind # "stage2" => a.relay = {a.to} /\ a.from \in Players /\ a.cmd \in got[a.from]
  /\ a.kind = "stage1" => RouterChanged \/ a.to = Origin[a.cmd]
  /\ a.kind = "both" => RouterChanged \/ a.to = First \/ a.from = First
AckInv == \A a \in acks : Sound(a)

(* Only the router relays, what it has itself, and not to itself. *)
RelayInv == \A p \in Players, c \in Commands : relayed[p][c] # {} =>
  /\ p = First \/ (p = Second /\ RouterChanged)
  /\ p # Origin[c] /\ c \in got[p] /\ p \notin relayed[p][c]

(* As long as the router is the first one: it has a command before the     *)
(* giver forgets it, and then it is sending it to whoever lacks it.        *)
RouterHasIt == ~RouterChanged => \A c \in Commands : c \in got[Origin[c]] /\ Origin[c] # First =>
  /\ Queued(Origin[c], First, c) \/ c \in got[First]
  /\ c \notin pending[Origin[c]] => c \in got[First]
RouterSends == ~RouterChanged => \A c \in Commands : c \in got[First] /\ ~FrameDataForRouter(c) =>
  \A p \in Players \ {Origin[c], First} : \/ c \in got[p]
                                          \/ p = Leaver /\ Frame[c] > LeaveFrame
                                          \/ Queued(First, p, c)
RouterInv == RouterHasIt /\ RouterSends

(* The router there is without Leaver sends a command it has to relay to   *)
(* whoever lacks it, or has run its frame.                                 *)
PassedOn(p, c) == \/ c \in got[p]
                  \/ Queued(Second, p, c)
                  \/ Frame[c] < frame[Second]
AckedPassedOn == \A a \in acks : a.kind = "stage1" /\ a.from = Second =>
  \A p \in Players \ {Origin[a.cmd], Leaver} : PassedOn(p, a.cmd)
PendingPassedOn == \A o \in Players \ {Leaver} : HasLeft(o) \/ First # Leaver => \A c \in pending[o] :
  \A p \in Players \ {o, Leaver} : Queued(o, Second, c) \/ PassedOn(p, c)
LaterRouterInv == AckedPassedOn /\ PendingPassedOn

IInv == /\ TypeOK /\ GivenInv /\ RanInv /\ PacketInv /\ AckInv /\ RelayInv
        /\ EveryoneElseHasIt /\ RelayedIsQueued /\ RouterInv /\ LaterRouterInv

-----------------------------------------------------------------------------
(* The fallback plan: who is router first, and who when Leaver is gone. *)
LEMMA Plan ==
  /\ First \in Players /\ \A s \in Players : First <= s
  /\ Second \in Players /\ Second # Leaver /\ \A s \in Players \ {Leaver} : Second <= s
  /\ First # Leaver => Second = First
<1>1. First \in Players /\ \A s \in Players : First <= s
  BY PlanAssumption DEF First, FirstOf
<1>2. Second \in Players \ {Leaver} /\ \A s \in Players \ {Leaver} : Second <= s
  BY PlanAssumption DEF Second, FirstOf
<1>3. ASSUME First # Leaver PROVE Second = First
  <2>1. First <= Second /\ Second <= First /\ First \in Nat /\ Second \in Nat
    BY <1>1, <1>2, <1>3, PlayersAssumption
  <2> QED BY <2>1
<1> QED BY <1>1, <1>2, <1>3

(* Who is the router for whom. *)
LEMMA RouterIs ==
  ASSUME NEW p \in Players
  PROVE  /\ Router(p) = IF HasLeft(p) THEN Second ELSE First
         /\ Router(p) \in Players
         /\ ~RouterChanged => Router(p) = First
         /\ HasLeft(p) /\ First = Leaver => RouterChanged
<1>1. Router(p) = IF HasLeft(p) THEN Second ELSE First
  BY DEF Router, First, Second
<1> QED BY <1>1, Plan DEF RouterChanged, First

(* Sending only adds, and what is sent is queued. *)
LEMMA Sending ==
  ASSUME TypeOK, NEW p \in Players, NEW packets, Send(p, packets)
  PROVE  /\ \A q, i \in Players, c \in Commands : Queued(q, i, c) => Queued(q, i, c)'
         /\ \A e \in packets : Queued(p, e.to, e.cmd)'
         /\ net \subseteq net' /\ \A e \in net' : e \in net \/ e \in packets
         /\ \A q \in Players : queue[q] \subseteq queue'[q] /\ (q # p => queue'[q] = queue[q])
         /\ \A e \in queue'[p] : e \in queue[p] \/ (e \in packets /\ e \in net')
<1> DEFINE new == {e \in packets : ~Queued(p, e.to, e.cmd)}
<1>1. queue' = [queue EXCEPT ![p] = @ \cup new] /\ net' = net \cup new
  BY DEF Send
<1>2. /\ \A q \in Players : queue[q] \subseteq queue'[q] /\ (q # p => queue'[q] = queue[q])
      /\ queue'[p] = queue[p] \cup new
  BY <1>1 DEF TypeOK
<1>3. \A q, i \in Players, c \in Commands : Queued(q, i, c) => Queued(q, i, c)'
  BY <1>2 DEF Queued
<1>4. ASSUME NEW e \in packets PROVE Queued(p, e.to, e.cmd)'
  <2>1. CASE Queued(p, e.to, e.cmd)
    BY <2>1, <1>2 DEF Queued
  <2>2. CASE ~Queued(p, e.to, e.cmd)
    <3>1. e \in queue'[p]
      BY <2>2, <1>2
    <3> QED BY <3>1 DEF Queued
  <2> QED BY <2>1, <2>2
<1> QED BY <1>1, <1>2, <1>3, <1>4

(* What is sent directly goes to each player of a mask, for itself only. *)
LEMMA Directs ==
  ASSUME NEW c, NEW mask
  PROVE  /\ \A e \in Direct(c, mask) : e.cmd = c /\ e.to \in mask /\ e.relay = {e.to}
         /\ \A i \in mask : \E e \in Direct(c, mask) : e.to = i /\ e.cmd = c
<1>1. ASSUME NEW e \in Direct(c, mask) PROVE e.cmd = c /\ e.to \in mask /\ e.relay = {e.to}
  <2>1. PICK i \in mask : e = Packet(i, c, {i})
    BY DEF Direct
  <2> QED BY <2>1 DEF Packet
<1>2. ASSUME NEW i \in mask PROVE \E e \in Direct(c, mask) : e.to = i /\ e.cmd = c
  <2>1. Packet(i, c, {i}) \in Direct(c, mask)
    BY DEF Direct
  <2>2. Packet(i, c, {i}).to = i /\ Packet(i, c, {i}).cmd = c
    BY DEF Packet
  <2> QED BY <2>1, <2>2
<1> QED BY <1>1, <1>2

(* What a giver sends: to each player, or to the router to be relayed. *)
LEMMA Locals ==
  ASSUME NEW p, NEW r, NEW c, NEW open, NEW mask, mask = Players \ {p},
         NEW e \in LocalPackets(p, r, c, mask, open), r \in Players
  PROVE  /\ e.cmd = c /\ e.to # p /\ e.to \in e.relay
         /\ e.relay = {e.to} \/ (e.relay = Players \ {p} /\ e.to = r)
<1>1. CASE r = p
  <2>1. PICK i \in (Players \ {p}) \cap open : e = Packet(i, c, {i})
    BY <1>1 DEF LocalPackets, Direct
  <2> QED BY <2>1 DEF Packet
<1>2. CASE r # p
  BY <1>2 DEF LocalPackets, Packet
<1> QED BY <1>1, <1>2

(* What is resent is resent to the second router or by it. *)
LEMMA Resends ==
  ASSUME NEW p, NEW e \in Resent(p)
  PROVE  \E c \in pending[p] : e \in LocalPackets(p, Second, c, Players \ {p}, Players \ {p, Leaver})
BY DEF Resent, Second

(* What a giver sends is made of packets. *)
LEMMA LocalTypes ==
  ASSUME NEW p, NEW r \in Players, NEW c \in Commands, NEW open, NEW mask, mask = Players \ {p}
  PROVE  LocalPackets(p, r, c, mask, open)
           \subseteq [to : Players, cmd : Commands, relay : SUBSET Players]
BY DEF LocalPackets, Direct, Packet

(* Frame data goes to one player, who is not its giver. *)
DataFor(p, i) == UNION {Direct(c, {i}) : c \in UNION {FrameData(p, i, f) : f \in FramesMissed(p, i)}}

(* What somebody who is behind is sent. *)
LEMMA Data ==
  ASSUME TypeOK, NEW p \in Players, NEW i \in Players, NEW e \in DataFor(p, i)
  PROVE  /\ e.to = i /\ e.relay = {i} /\ e.cmd \in got[p] /\ Origin[e.cmd] # i
<1>1. PICK c \in UNION {FrameData(p, i, f) : f \in FramesMissed(p, i)} : e \in Direct(c, {i})
  BY DEF DataFor
<1>2. PICK f : c \in FrameData(p, i, f)
  BY <1>1
<1>3. c \in got[p] /\ Origin[c] # i
  BY <1>2 DEF FrameData
<1>4. e = Packet(i, c, {i})
  BY <1>1 DEF Direct
<1> QED BY <1>3, <1>4 DEF Packet

(* Frame data are made of packets. *)
LEMMA DataTypes ==
  ASSUME TypeOK, NEW p \in Players, NEW i \in Players
  PROVE  DataFor(p, i) \subseteq [to : Players, cmd : Commands, relay : SUBSET Players]
<1>1. \A f : FrameData(p, i, f) \subseteq Commands
  BY DEF FrameData, TypeOK
<1>2. UNION {FrameData(p, i, f) : f \in FramesMissed(p, i)} \subseteq Commands
  BY <1>1
<1>3. \A c \in Commands : Direct(c, {i}) \subseteq [to : Players, cmd : Commands, relay : SUBSET Players]
  BY DEF Direct, Packet
<1> QED BY <1>2, <1>3 DEF DataFor

(* What ackCommand sends. *)
LEMMA Acks ==
  ASSUME NEW p \in Players, NEW m, m.cmd \in Commands, NEW a \in ackCommand(p, m)
  PROVE  /\ a.kind = (IF m.relay \cap Open(p) = {} THEN "both" ELSE "stage1")
         /\ a.cmd = m.cmd /\ a.from = p /\ a.to \in Players /\ a.relay = {a.to}
         /\ a.to = IF Router(p) # p THEN Router(p) ELSE Origin[m.cmd]
         /\ a \in [kind : {"stage1", "stage2", "both"}, to : Players, cmd : Commands,
                   from : Nat, relay : SUBSET Players]
<1>1. (IF Router(p) # p THEN Router(p) ELSE Origin[m.cmd]) \in Players /\ p \in Nat
  BY RouterIs, CommandsAssumption, PlayersAssumption
<1> QED BY <1>1 DEF ackCommand

(* What AckStage2 sends. *)
LEMMA StageTwo ==
  ASSUME NEW p \in Players, NEW c \in Commands, NEW a \in AckStage2(p, c)
  PROVE  /\ a.kind = "stage2" /\ a.cmd = c /\ a.from = 0
         /\ a \in [kind : {"stage1", "stage2", "both"}, to : Players, cmd : Commands,
                   from : Nat, relay : SUBSET Players]
<1>1. (IF Router(p) # p THEN Router(p) ELSE Origin[c]) \in Players /\ Origin[c] \in Players
  BY RouterIs, CommandsAssumption
<1> QED BY <1>1 DEF AckStage2

PassedOnAcks(p, a) == {[a EXCEPT !.to = i, !.relay = {i}] : i \in a.relay \cap Open(p)}

(* An ack that is passed on differs in its receiver only. *)
LEMMA PassedAck ==
  ASSUME TypeOK, NEW p \in Players, NEW a \in acks,
         NEW b \in PassedOnAcks(p, a)
  PROVE  /\ b.kind = a.kind /\ b.cmd = a.cmd /\ b.from = a.from /\ b.relay = {b.to}
         /\ b.to \in a.relay /\ b.to \in Open(p)
         /\ b \in [kind : {"stage1", "stage2", "both"}, to : Players, cmd : Commands,
                   from : Nat, relay : SUBSET Players]
<1>1. PICK i \in a.relay \cap Open(p) : b = [a EXCEPT !.to = i, !.relay = {i}]
  BY DEF PassedOnAcks
<1>2. a \in [kind : {"stage1", "stage2", "both"}, to : Players, cmd : Commands,
             from : Nat, relay : SUBSET Players]
  BY DEF TypeOK
<1>3. i \in Players
  BY <1>1, <1>2
<1> QED BY <1>1, <1>2, <1>3

-----------------------------------------------------------------------------
(* Type correctness, and what never shrinks. *)

(* The types hold to begin with. *)
LEMMA InitType == Init => TypeOK
BY FramesAssumption DEF Init, TypeOK

(* Sent packets are packets, and a queue has only what has been sent. *)
LEMMA SendingTypes ==
  ASSUME TypeOK, NEW p \in Players, NEW packets, Send(p, packets),
         packets \subseteq [to : Players, cmd : Commands, relay : SUBSET Players]
  PROVE  /\ net' \subseteq [to : Players, cmd : Commands, relay : SUBSET Players]
         /\ queue' \in [Players -> SUBSET net']
BY DEF TypeOK, Send

(* Every step keeps the types. *)
LEMMA TypeStep == TypeOK /\ [Next]_vars => TypeOK'
<1> SUFFICES ASSUME TypeOK, [Next]_vars PROVE TypeOK'
  OBVIOUS
<1> USE DEF TypeOK
<1>1. ASSUME NEW p \in Players, NEW c \in Commands, sendLocalCommand(p, c) PROVE TypeOK'
  <2>1. LocalPackets(p, Router(p), c, Players \ {p}, Open(p))
          \subseteq [to : Players, cmd : Commands, relay : SUBSET Players]
    BY RouterIs, LocalTypes
  <2>2. /\ net' \subseteq [to : Players, cmd : Commands, relay : SUBSET Players]
        /\ queue' \in [Players -> SUBSET net']
    BY <1>1, <2>1, SendingTypes DEF sendLocalCommand
  <2> QED BY <1>1, <2>2 DEF sendLocalCommand
<1>2. ASSUME NEW m \in net, doRelay(m.to, m) PROVE TypeOK'
  <2> DEFINE p == m.to
  <2>1. p \in Players /\ m.cmd \in Commands /\ m.relay \in SUBSET Players
    OBVIOUS
  <2>2. acks' \subseteq [kind : {"stage1", "stage2", "both"}, to : Players, cmd : Commands,
                         from : Nat, relay : SUBSET Players]
    BY <1>2, <2>1, Acks DEF doRelay
  <2>3. CASE OutOfDate(p, m.cmd)
    BY <1>2, <2>2, <2>3 DEF doRelay
  <2>4. CASE ~OutOfDate(p, m.cmd)
    <3>1. Direct(m.cmd, m.relay \cap Open(p)) \subseteq [to : Players, cmd : Commands, relay : SUBSET Players]
      BY <2>1 DEF Direct, Packet
    <3>2. Send(p, Direct(m.cmd, m.relay \cap Open(p)))
      BY <1>2, <2>4 DEF doRelay
    <3>3. /\ net' \subseteq [to : Players, cmd : Commands, relay : SUBSET Players]
          /\ queue' \in [Players -> SUBSET net']
      BY <2>1, <3>1, <3>2, SendingTypes
    <3>4. Added(p, m) \in SUBSET Commands
      BY <2>1 DEF Added
    <3>5. /\ got' = [got EXCEPT ![p] = Added(p, m)]
          /\ relayed' = [relayed EXCEPT ![p][m.cmd] = IF @ = {} THEN m.relay \cap Open(p) ELSE @]
          /\ UNCHANGED <<frame, pending>>
      BY <1>2, <2>4 DEF doRelay
    <3>6. relayed' \in [Players -> [Commands -> SUBSET Players]]
      BY <2>1, <3>5
    <3> QED BY <2>1, <2>2, <3>3, <3>4, <3>5, <3>6
  <2> QED BY <2>3, <2>4
<1>3. ASSUME NEW a \in acks, processAck(a.to, a) PROVE TypeOK'
  <2> DEFINE p == a.to
  <2>1. p \in Players /\ a.cmd \in Commands
    OBVIOUS
  <2>2. acks' \subseteq [kind : {"stage1", "stage2", "both"}, to : Players, cmd : Commands,
                         from : Nat, relay : SUBSET Players]
    <3> DEFINE second == IF FindsRelayed(p, a) /\ relayed[p][a.cmd] \ {a.from} = {}
                         THEN AckStage2(p, a.cmd) ELSE {}
    <3>1. acks' = acks \cup PassedOnAcks(p, a) \cup second
      BY <1>3 DEF processAck, PassedOnAcks
    <3>2. PassedOnAcks(p, a) \subseteq [kind : {"stage1", "stage2", "both"}, to : Players, cmd : Commands,
                            from : Nat, relay : SUBSET Players]
      BY <2>1, PassedAck
    <3>3. second \subseteq [kind : {"stage1", "stage2", "both"}, to : Players, cmd : Commands,
                            from : Nat, relay : SUBSET Players]
      BY <2>1, StageTwo
    <3> QED BY <3>1, <3>2, <3>3
  <2>3. queue' \in [Players -> SUBSET net'] /\ UNCHANGED <<frame, got, net>>
    BY <1>3, <2>1 DEF processAck, Unacknowledged
  <2>4. pending' \in [Players -> SUBSET Commands]
    BY <1>3, <2>1 DEF processAck
  <2>5. relayed' \in [Players -> [Commands -> SUBSET Players]]
    BY <1>3, <2>1 DEF processAck
  <2> QED BY <2>2, <2>3, <2>4, <2>5
<1>4. ASSUME NEW p \in Players, RunFrame(p) PROVE TypeOK'
  BY <1>4 DEF RunFrame
<1>5. ASSUME NEW p \in Players, processPlayerLeave(p) PROVE TypeOK'
  <2>1. frame' \in [Players -> Nat] /\ UNCHANGED <<got, pending, relayed, acks>>
    BY <1>5 DEF processPlayerLeave
  <2>2. Resent(p) \subseteq [to : Players, cmd : Commands, relay : SUBSET Players]
    <3>1. Second \in Players
      BY Plan
    <3> SUFFICES ASSUME NEW e \in Resent(p)
                 PROVE  e \in [to : Players, cmd : Commands, relay : SUBSET Players]
      OBVIOUS
    <3>2. PICK c \in pending[p] : e \in LocalPackets(p, Second, c, Players \ {p}, Players \ {p, Leaver})
      BY Resends
    <3>3. c \in Commands
      OBVIOUS
    <3>4. LocalPackets(p, Second, c, Players \ {p}, Players \ {p, Leaver})
            \subseteq [to : Players, cmd : Commands, relay : SUBSET Players]
      BY <3>1, <3>3, LocalTypes
    <3> QED BY <3>2, <3>4
  <2>3. CASE Router(p) = Leaver
    <3>1. Send(p, Resent(p))
      BY <1>5, <2>3 DEF processPlayerLeave
    <3>2. /\ net' \subseteq [to : Players, cmd : Commands, relay : SUBSET Players]
          /\ queue' \in [Players -> SUBSET net']
      BY <2>2, <3>1, SendingTypes
    <3> QED BY <2>1, <3>2
  <2>4. CASE Router(p) # Leaver
    BY <1>5, <2>1, <2>4 DEF processPlayerLeave
  <2> QED BY <2>3, <2>4
<1>6. ASSUME LeaveGame PROVE TypeOK'
  BY <1>6, PlayersAssumption DEF LeaveGame
<1>7. ASSUME NEW p \in Players, NEW i \in Players, sendFrameDataToPlayer(p, i) PROVE TypeOK'
  <2>1. /\ net' \subseteq [to : Players, cmd : Commands, relay : SUBSET Players]
        /\ queue' \in [Players -> SUBSET net']
    <3>1. Send(p, DataFor(p, i))
      BY <1>7 DEF sendFrameDataToPlayer, DataFor
    <3>2. DataFor(p, i) \subseteq [to : Players, cmd : Commands, relay : SUBSET Players]
      BY DataTypes
    <3> QED BY <3>1, <3>2, SendingTypes
  <2> QED BY <1>7, <2>1 DEF sendFrameDataToPlayer
<1>8. CASE UNCHANGED vars
  BY <1>8 DEF vars
<1> QED BY <1>1, <1>2, <1>3, <1>4, <1>5, <1>6, <1>7, <1>8 DEF Next

(* What is never taken back. *)
LEMMA Grows ==
  ASSUME TypeOK, [Next]_vars
  PROVE  /\ \A p \in Players : got[p] \subseteq got'[p] /\ frame[p] <= frame'[p]
         /\ \A p \in Players : HasLeft(p) => HasLeft(p)'
         /\ net \subseteq net' /\ acks \subseteq acks'
         /\ RouterChanged => RouterChanged'
<1> DEFINE NothingTakenBack == /\ \A p \in Players : got[p] \subseteq got'[p] /\ frame[p] <= frame'[p]
                               /\ net \subseteq net' /\ acks \subseteq acks'
<1>1. NothingTakenBack
  <2>1. ASSUME NEW p \in Players, NEW c \in Commands, sendLocalCommand(p, c) PROVE NothingTakenBack
    <3>1. /\ got' = [got EXCEPT ![p] = @ \cup {c}] /\ UNCHANGED <<frame, acks>>
      BY <2>1 DEF sendLocalCommand
    <3>2. net \subseteq net'
      BY <2>1 DEF sendLocalCommand, Send
    <3>3. \A q \in Players : got[q] \subseteq got'[q] /\ frame[q] <= frame'[q]
      BY <3>1 DEF TypeOK
    <3> QED BY <3>1, <3>2, <3>3
  <2>2. ASSUME NEW m \in net, doRelay(m.to, m) PROVE NothingTakenBack
    <3>1. /\ acks \subseteq acks' /\ UNCHANGED frame
          /\ \A p \in Players : got[p] \subseteq got'[p]
      BY <2>2 DEF doRelay, Added, TypeOK
    <3>2. net \subseteq net'
      BY <2>2 DEF doRelay, Send
    <3> QED BY <3>1, <3>2 DEF TypeOK
  <2>3. ASSUME NEW a \in acks, processAck(a.to, a) PROVE NothingTakenBack
    <3>1. UNCHANGED <<frame, got, net>> /\ acks \subseteq acks'
      BY <2>3 DEF processAck
    <3> QED BY <3>1 DEF TypeOK
  <2>4. ASSUME NEW p \in Players, RunFrame(p) PROVE NothingTakenBack
    BY <2>4 DEF RunFrame, TypeOK
  <2>5. ASSUME NEW p \in Players, processPlayerLeave(p) PROVE NothingTakenBack
    BY <2>5 DEF processPlayerLeave, Send, TypeOK
  <2>6. ASSUME LeaveGame PROVE NothingTakenBack
    BY <2>6 DEF LeaveGame, TypeOK
  <2>7. ASSUME NEW p \in Players, NEW i \in Players, sendFrameDataToPlayer(p, i) PROVE NothingTakenBack
    BY <2>7 DEF sendFrameDataToPlayer, Send, TypeOK
  <2>8. CASE UNCHANGED vars
    BY <2>8 DEF vars, TypeOK
  <2> QED BY <2>1, <2>2, <2>3, <2>4, <2>5, <2>6, <2>7, <2>8 DEF Next
<1>2. TypeOK'
  BY TypeStep
<1>3. \A p \in Players : HasLeft(p) => HasLeft(p)'
  BY <1>1, <1>2, FramesAssumption DEF HasLeft, TypeOK
<1> QED BY <1>1, <1>3 DEF RouterChanged

(* A packet is taken in. *)
LEMMA Delivery ==
  ASSUME TypeOK, NEW m \in net, doRelay(m.to, m)
  PROVE  /\ m.to \in Players /\ m.cmd \in Commands /\ m.relay \subseteq Players
         /\ UNCHANGED <<frame, pending>>
         /\ \A a \in acks' : a \in acks \/ a \in ackCommand(m.to, m)
         /\ \A q \in Players \ {m.to} : got'[q] = got[q] /\ relayed'[q] = relayed[q]
         /\ got'[m.to] \subseteq got[m.to] \cup {m.cmd}
         /\ \A d \in Commands \ {m.cmd} : relayed'[m.to][d] = relayed[m.to][d]
         /\ OutOfDate(m.to, m.cmd) => UNCHANGED <<got, relayed, queue, net>>
         /\ ~OutOfDate(m.to, m.cmd) =>
              /\ m.to \in m.relay => m.cmd \in got'[m.to]
              /\ Send(m.to, Direct(m.cmd, m.relay \cap Open(m.to)))
              /\ relayed'[m.to][m.cmd] = IF relayed[m.to][m.cmd] = {} THEN m.relay \cap Open(m.to)
                                                                     ELSE relayed[m.to][m.cmd]
<1>1. m.to \in Players /\ m.cmd \in Commands /\ m.relay \subseteq Players
  BY DEF TypeOK
<1>2. UNCHANGED <<frame, pending>> /\ \A a \in acks' : a \in acks \/ a \in ackCommand(m.to, m)
  BY DEF doRelay
<1>3. CASE OutOfDate(m.to, m.cmd)
  BY <1>1, <1>2, <1>3 DEF doRelay
<1>4. CASE ~OutOfDate(m.to, m.cmd)
  <2>1. /\ got' = [got EXCEPT ![m.to] = Added(m.to, m)]
        /\ Send(m.to, Direct(m.cmd, m.relay \cap Open(m.to)))
        /\ relayed' = [relayed EXCEPT ![m.to][m.cmd] = IF @ = {} THEN m.relay \cap Open(m.to) ELSE @]
    BY <1>4 DEF doRelay
  <2>2. /\ \A q \in Players \ {m.to} : got'[q] = got[q] /\ relayed'[q] = relayed[q]
        /\ got'[m.to] = Added(m.to, m)
        /\ \A d \in Commands \ {m.cmd} : relayed'[m.to][d] = relayed[m.to][d]
        /\ relayed'[m.to][m.cmd] = IF relayed[m.to][m.cmd] = {} THEN m.relay \cap Open(m.to)
                                                               ELSE relayed[m.to][m.cmd]
    BY <1>1, <2>1 DEF TypeOK
  <2> QED BY <1>1, <1>2, <1>4, <2>1, <2>2 DEF Added
<1> QED BY <1>3, <1>4

(* An ack is taken in. *)
LEMMA AckTaken ==
  ASSUME TypeOK, NEW a \in acks, processAck(a.to, a)
  PROVE  /\ a.to \in Players /\ a.cmd \in Commands /\ a.kind \in {"stage1", "stage2", "both"}
         /\ UNCHANGED <<frame, got, net>>
         /\ \A q \in Players \ {a.to} :
              queue'[q] = queue[q] /\ pending'[q] = pending[q] /\ relayed'[q] = relayed[q]
         /\ queue'[a.to] \subseteq queue[a.to]
         /\ a.kind = "stage2" => queue'[a.to] = queue[a.to]
         /\ \A e \in queue[a.to] : e \in queue'[a.to] \/ (e.to = a.from /\ e.cmd = a.cmd)
         /\ pending'[a.to] \subseteq pending[a.to] /\ pending[a.to] \subseteq pending'[a.to] \cup {a.cmd}
         /\ a.kind = "stage1" => pending'[a.to] = pending[a.to]
         /\ a.kind # "stage1" => a.cmd \notin pending'[a.to]
         /\ \A d \in Commands \ {a.cmd} : relayed'[a.to][d] = relayed[a.to][d]
         /\ relayed'[a.to][a.cmd] = IF FindsRelayed(a.to, a) THEN relayed[a.to][a.cmd] \ {a.from}
                                                            ELSE relayed[a.to][a.cmd]
         /\ \A b \in acks' : \/ b \in acks \/ b \in PassedOnAcks(a.to, a)
                             \/ b \in AckStage2(a.to, a.cmd) /\ relayed[a.to][a.cmd] # {}
<1>1. a.to \in Players /\ a.cmd \in Commands /\ a.kind \in {"stage1", "stage2", "both"}
  BY DEF TypeOK
<1>2. /\ queue' = IF a.kind = "stage2" THEN queue ELSE [queue EXCEPT ![a.to] = Unacknowledged(a.to, a)]
      /\ pending' = IF a.kind = "stage1" THEN pending ELSE [pending EXCEPT ![a.to] = @ \ {a.cmd}]
      /\ relayed' = IF FindsRelayed(a.to, a)
                    THEN [relayed EXCEPT ![a.to][a.cmd] = relayed[a.to][a.cmd] \ {a.from}] ELSE relayed
      /\ UNCHANGED <<frame, got, net>>
  BY DEF processAck
<1>3. \A b \in acks' : \/ b \in acks \/ b \in PassedOnAcks(a.to, a)
                       \/ b \in AckStage2(a.to, a.cmd) /\ relayed[a.to][a.cmd] # {}
  BY DEF processAck, PassedOnAcks, FindsRelayed
<1>4. /\ \A q \in Players \ {a.to} : queue'[q] = queue[q]
      /\ queue'[a.to] \subseteq queue[a.to]
      /\ a.kind = "stage2" => queue'[a.to] = queue[a.to]
      /\ \A e \in queue[a.to] : e \in queue'[a.to] \/ (e.to = a.from /\ e.cmd = a.cmd)
  BY <1>1, <1>2 DEF TypeOK, Unacknowledged
<1>5. /\ \A q \in Players \ {a.to} : pending'[q] = pending[q]
      /\ pending'[a.to] \subseteq pending[a.to] /\ pending[a.to] \subseteq pending'[a.to] \cup {a.cmd}
      /\ a.kind = "stage1" => pending'[a.to] = pending[a.to]
      /\ a.kind # "stage1" => a.cmd \notin pending'[a.to]
  BY <1>1, <1>2 DEF TypeOK
<1>6. /\ \A q \in Players \ {a.to} : relayed'[q] = relayed[q]
      /\ \A d \in Commands \ {a.cmd} : relayed'[a.to][d] = relayed[a.to][d]
      /\ relayed'[a.to][a.cmd] = IF FindsRelayed(a.to, a) THEN relayed[a.to][a.cmd] \ {a.from}
                                                         ELSE relayed[a.to][a.cmd]
  BY <1>1, <1>2 DEF TypeOK
<1> QED BY <1>1, <1>2, <1>3, <1>4, <1>5, <1>6

-----------------------------------------------------------------------------
(* Commands, and what is sent of them. *)

(* No command has been given to begin with. *)
LEMMA InitGiven == Init => GivenInv /\ RanInv /\ PacketInv /\ AckInv /\ RelayInv /\ EveryoneElseHasIt
<1> SUFFICES ASSUME Init PROVE GivenInv /\ RanInv /\ PacketInv /\ AckInv /\ RelayInv /\ EveryoneElseHasIt
  OBVIOUS
<1>1. GivenInv /\ PacketInv /\ AckInv
  BY DEF Init, GivenInv, PacketInv, AckInv, Sound
<1>2. RanInv
  <2>1. \A p \in Players : frame[p] = FirstFrame
    BY DEF Init
  <2> QED BY <2>1, FramesAssumption, CommandsAssumption DEF RanInv
<1>3. \A p \in Players, c \in Commands : relayed[p][c] = {}
  BY DEF Init
<1> QED BY <1>1, <1>2, <1>3 DEF RelayInv, EveryoneElseHasIt

(* A frame that has been run stays complete. *)
LEMMA RanStep == TypeOK /\ RanInv /\ [Next]_vars => RanInv'
<1> SUFFICES ASSUME TypeOK, RanInv, [Next]_vars PROVE RanInv'
  OBVIOUS
<1>1. \A p \in Players : got[p] \subseteq got'[p]
  BY Grows
<1>2. CASE UNCHANGED frame
  BY <1>1, <1>2 DEF RanInv
<1>3. ASSUME NEW p \in Players, FrameIsReady(p), frame' = [frame EXCEPT ![p] = @ + 1] PROVE RanInv'
  <2>1. /\ frame[p] \in Nat /\ frame'[p] = frame[p] + 1
        /\ \A q \in Players \ {p} : frame'[q] = frame[q]
    BY <1>3 DEF TypeOK
  <2>2. ASSUME NEW c \in Commands, FirstFrame <= Frame[c], Frame[c] < frame'[p] PROVE c \in got'[p]
    <3>1. CASE Frame[c] < frame[p]
      BY <1>1, <2>2, <3>1 DEF RanInv
    <3>2. CASE Frame[c] = frame[p]
      BY <1>1, <1>3, <3>2 DEF FrameIsReady
    <3> QED BY <2>1, <2>2, <3>1, <3>2, CommandsAssumption
  <2>3. FirstFrame <= frame'[p]
    BY <2>1, FramesAssumption DEF RanInv
  <2> QED BY <1>1, <2>1, <2>2, <2>3 DEF RanInv
<1>4. ASSUME NEW p \in Players, RunFrame(p) PROVE RanInv'
  BY <1>3, <1>4 DEF RunFrame
<1>5. ASSUME NEW p \in Players, processPlayerLeave(p) PROVE RanInv'
  BY <1>3, <1>5 DEF processPlayerLeave
<1>6. ASSUME LeaveGame PROVE RanInv'
  BY <1>3, <1>6, PlayersAssumption DEF LeaveGame
<1> QED BY <1>2, <1>4, <1>5, <1>6
        DEF Next, vars, sendLocalCommand, doRelay, processAck, sendFrameDataToPlayer

(* A command comes from its giver, whoever passes it on. *)
LEMMA GivenStep == TypeOK /\ RanInv /\ GivenInv /\ [Next]_vars => GivenInv'
<1> SUFFICES ASSUME TypeOK, RanInv, GivenInv, [Next]_vars PROVE GivenInv'
  OBVIOUS
<1>0. /\ \A c \in Commands : Origin[c] \in Players /\ Frame[c] \in Nat
      /\ \A p \in Players : got[p] \subseteq got'[p] /\ got[p] \subseteq Commands /\ pending[p] \subseteq Commands
      /\ \A m \in net : m.cmd \in Commands
  BY CommandsAssumption, Grows DEF TypeOK
<1>1. ASSUME NEW p \in Players, NEW c \in Commands, sendLocalCommand(p, c) PROVE GivenInv'
  <2>1. /\ Origin[c] = p /\ frame[p] < Frame[c]
        /\ got' = [got EXCEPT ![p] = @ \cup {c}]
        /\ pending' = [pending EXCEPT ![p] = IF Router(p) = p THEN @ ELSE @ \cup {c}]
        /\ Send(p, LocalPackets(p, Router(p), c, Players \ {p}, Open(p)))
    BY <1>1 DEF sendLocalCommand
  <2>2. c \in got'[p] /\ \A q \in Players : \A d \in got'[q] : d \in got[q] \/ d = c
    BY <2>1 DEF TypeOK
  <2>3. FirstFrame < Frame[c]
    BY <1>0, <2>1, FramesAssumption DEF RanInv, TypeOK
  <2>4. \A q \in Players : \A d \in pending'[q] : d \in pending[q] \/ (d = c /\ q = p)
    BY <2>1 DEF TypeOK
  <2>5. \A e \in net' : e \in net \/ e.cmd = c
    <3>1. Router(p) \in Players
      BY RouterIs
    <3>2. ASSUME NEW e \in LocalPackets(p, Router(p), c, Players \ {p}, Open(p)) PROVE e.cmd = c
      BY <3>1, Locals
    <3> QED BY <2>1, <3>2, Sending
  <2> QED BY <1>0, <2>1, <2>2, <2>3, <2>4, <2>5 DEF GivenInv
<1>2. ASSUME NEW m \in net, doRelay(m.to, m) PROVE GivenInv'
  <2>1. /\ \A q \in Players : \A d \in got'[q] : d \in got[q] \/ d = m.cmd
        /\ UNCHANGED pending
    BY <1>2, Delivery
  <2>2. FirstFrame < Frame[m.cmd] /\ m.cmd \in got[Origin[m.cmd]]
    BY <1>0 DEF GivenInv
  <2>3. \A e \in net' : e \in net \/ e.cmd = m.cmd
    <3>1. CASE OutOfDate(m.to, m.cmd)
      BY <1>2, <3>1, Delivery
    <3>2. CASE ~OutOfDate(m.to, m.cmd)
      <4>1. Send(m.to, Direct(m.cmd, m.relay \cap Open(m.to)))
        BY <1>2, <3>2, Delivery
      <4>2. m.to \in Players
        BY <1>2, Delivery
      <4>3. \A e \in Direct(m.cmd, m.relay \cap Open(m.to)) : e.cmd = m.cmd
        BY Directs
      <4> QED BY <4>1, <4>2, <4>3, Sending
    <3> QED BY <3>1, <3>2
  <2> QED BY <1>0, <2>1, <2>2, <2>3 DEF GivenInv
<1>3. ASSUME NEW a \in acks, processAck(a.to, a) PROVE GivenInv'
  <2>1. UNCHANGED <<got, net>> /\ \A q \in Players : pending'[q] \subseteq pending[q]
    BY <1>3, AckTaken
  <2> QED BY <1>0, <2>1 DEF GivenInv
<1>4. ASSUME NEW p \in Players, processPlayerLeave(p) PROVE GivenInv'
  <2>1. UNCHANGED <<got, pending>>
    BY <1>4 DEF processPlayerLeave
  <2>2. \A e \in net' : e \in net \/ e.cmd \in pending[p]
    <3>1. CASE Router(p) = Leaver
      <4>1. Send(p, Resent(p))
        BY <1>4, <3>1 DEF processPlayerLeave
      <4>2. \A e \in Resent(p) : e.cmd \in pending[p]
        <5> SUFFICES ASSUME NEW e \in Resent(p) PROVE e.cmd \in pending[p]
          OBVIOUS
        <5>1. PICK c \in pending[p] : e \in LocalPackets(p, Second, c, Players \ {p}, Players \ {p, Leaver})
          BY Resends
        <5>2. Second \in Players /\ c \in Commands
          BY <1>0, Plan
        <5> QED BY <5>1, <5>2, Locals
      <4> QED BY <4>1, <4>2, Sending
    <3>2. CASE Router(p) # Leaver
      BY <1>4, <3>2 DEF processPlayerLeave
    <3> QED BY <3>1, <3>2
  <2>3. pending[p] \subseteq got[p] => GivenInv'
    BY <1>0, <2>1, <2>2 DEF GivenInv
  <2> QED BY <2>3 DEF GivenInv
<1>5. ASSUME NEW p \in Players, NEW i \in Players, sendFrameDataToPlayer(p, i) PROVE GivenInv'
  <2>1. UNCHANGED <<got, pending>> /\ Send(p, DataFor(p, i))
    BY <1>5 DEF sendFrameDataToPlayer, DataFor
  <2>2. \A e \in net' : e \in net \/ e.cmd \in got[p]
    BY <2>1, Sending, Data
  <2> QED BY <1>0, <2>1, <2>2 DEF GivenInv
<1>6. CASE UNCHANGED <<got, pending, net>>
  BY <1>6 DEF GivenInv
<1> QED BY <1>1, <1>2, <1>3, <1>4, <1>5, <1>6 DEF Next, vars, RunFrame, LeaveGame

(* Only who is, or becomes, the packet router is sent commands to relay. *)
LEMMA PacketStep == TypeOK /\ GivenInv /\ PacketInv /\ [Next]_vars => PacketInv'
<1> SUFFICES ASSUME TypeOK, GivenInv, PacketInv, [Next]_vars PROVE PacketInv'
  OBVIOUS
<1> DEFINE Good(m) == /\ m.to \in m.relay /\ m.to # Origin[m.cmd]
                      /\ m.relay = {m.to} \/ ToRelay(m)
<1>0. /\ RouterChanged => RouterChanged'
      /\ (\A m \in net' : m \in net \/ Good(m) \/ Good(m)') => PacketInv'
  <2>1. RouterChanged => RouterChanged'
    BY Grows
  <2>2. \A m : Good(m) => Good(m)'
    BY <2>1 DEF ToRelay
  <2> QED BY <2>1, <2>2 DEF PacketInv
<1>1. ASSUME NEW p \in Players, NEW c \in Commands, sendLocalCommand(p, c) PROVE PacketInv'
  <2>1. Origin[c] = p /\ Send(p, LocalPackets(p, Router(p), c, Players \ {p}, Open(p)))
    BY <1>1 DEF sendLocalCommand
  <2>2. Router(p) \in Players /\ (Router(p) = First \/ (Router(p) = Second /\ RouterChanged))
    BY RouterIs, Plan DEF RouterChanged, First
  <2>3. \A m \in net' : m \in net \/ Good(m)
    BY <2>1, <2>2, Sending, Locals DEF ToRelay
  <2> QED BY <1>0, <2>3
<1>2. ASSUME NEW m \in net, doRelay(m.to, m) PROVE PacketInv'
  <2>1. CASE OutOfDate(m.to, m.cmd)
    BY <1>0, <1>2, <2>1, Delivery
  <2>2. CASE ~OutOfDate(m.to, m.cmd)
    <3>1. m.to \in Players /\ Send(m.to, Direct(m.cmd, m.relay \cap Open(m.to)))
      BY <1>2, <2>2, Delivery
    <3>2. m.to # Origin[m.cmd] /\ (m.relay = {m.to} \/ m.relay = Players \ {Origin[m.cmd]})
      BY DEF PacketInv, ToRelay
    <3>3. \A e \in Direct(m.cmd, m.relay \cap Open(m.to)) : Good(e)
      BY <3>2 DEF Direct, Packet
    <3> QED BY <1>0, <3>1, <3>3, Sending
  <2> QED BY <2>1, <2>2
<1>3. ASSUME NEW p \in Players, processPlayerLeave(p) PROVE PacketInv'
  <2>1. CASE Router(p) = Leaver
    <3>1. Send(p, Resent(p))
      BY <1>3, <2>1 DEF processPlayerLeave
    <3>2. RouterChanged'
      <4>1. frame[p] = LeaveFrame /\ frame'[p] = frame[p] + 1 /\ frame[p] \in Nat
        BY <1>3 DEF processPlayerLeave, TypeOK
      <4>2. First = Leaver
        BY <2>1, RouterIs, Plan
      <4> QED BY <4>1, <4>2 DEF RouterChanged, HasLeft, First
    <3>3. ASSUME NEW e \in Resent(p) PROVE Good(e)'
      <4>1. PICK c \in pending[p] : e \in LocalPackets(p, Second, c, Players \ {p}, Players \ {p, Leaver})
        BY Resends
      <4>2. c \in Commands /\ Origin[c] = p
        BY DEF TypeOK, GivenInv
      <4>3. Second \in Players
        BY Plan
      <4>4. /\ e.cmd = c /\ e.to # p /\ e.to \in e.relay
            /\ e.relay = {e.to} \/ (e.relay = Players \ {p} /\ e.to = Second)
        BY <4>1, <4>2, <4>3, Locals
      <4> QED BY <3>2, <4>2, <4>4 DEF ToRelay, Second
    <3> QED BY <1>0, <3>1, <3>3, Sending
  <2>2. CASE Router(p) # Leaver
    BY <1>0, <1>3, <2>2 DEF processPlayerLeave
  <2> QED BY <2>1, <2>2
<1>4. ASSUME NEW p \in Players, NEW i \in Players, sendFrameDataToPlayer(p, i) PROVE PacketInv'
  <2>1. Send(p, DataFor(p, i))
    BY <1>4 DEF sendFrameDataToPlayer, DataFor
  <2>2. \A e \in DataFor(p, i) : Good(e)
    BY Data
  <2> QED BY <1>0, <2>1, <2>2, Sending
<1>5. CASE UNCHANGED net
  BY <1>0, <1>5
<1> QED BY <1>1, <1>2, <1>3, <1>4, <1>5 DEF Next, vars, RunFrame, LeaveGame, processAck

-----------------------------------------------------------------------------
(* Acks, and who relays. *)

(* To whom a player has a connection. *)
LEMMA Opens ==
  ASSUME NEW p \in Players
  PROVE  /\ Open(p) \subseteq Players /\ p \notin Open(p)
         /\ Open(p) # {} \/ ~Quit(p) => Players \ {p, Leaver} \subseteq Open(p)
         /\ ~HasLeft(p) => Leaver \in Open(p) \/ p = Leaver
<1>1. CASE Quit(p)
  BY <1>1 DEF Open, Quit
<1>2. CASE ~Quit(p) /\ HasLeft(p)
  BY <1>2 DEF Open
<1>3. CASE ~HasLeft(p)
  BY <1>3, PlayersAssumption DEF Open, Quit
<1> QED BY <1>1, <1>2, <1>3

(* Whoever has to relay a packet is the router. *)
LEMMA Relays ==
  ASSUME TypeOK, PacketInv, NEW m \in net, m.relay \cap Open(m.to) # {} PROVE ToRelay(m)
<1>1. m.to \in Players
  BY DEF TypeOK
<1>2. m.to \notin Open(m.to)
  BY <1>1, Opens
<1> QED BY <1>2 DEF PacketInv

(* Whoever acknowledges a packet has its command. *)
LEMMA HasIt ==
  ASSUME TypeOK, RanInv, GivenInv, PacketInv, NEW m \in net, doRelay(m.to, m)
  PROVE  m.cmd \in got'[m.to]
<1>1. m.to \in Players /\ m.cmd \in Commands /\ m.to \in m.relay
  BY DEF TypeOK, PacketInv
<1>2. CASE OutOfDate(m.to, m.cmd)
  <2>1. m.cmd \in got[Origin[m.cmd]] /\ Origin[m.cmd] \in Players
    BY <1>1, CommandsAssumption DEF GivenInv
  <2>2. FirstFrame < Frame[m.cmd] /\ Frame[m.cmd] < frame[m.to]
    BY <1>2, <2>1 DEF GivenInv, OutOfDate
  <2>3. m.cmd \in got[m.to]
    BY <1>1, <2>2, FramesAssumption, CommandsAssumption DEF RanInv
  <2>4. UNCHANGED got
    BY <1>2, Delivery
  <2> QED BY <2>3, <2>4
<1>3. CASE ~OutOfDate(m.to, m.cmd)
  BY <1>1, <1>3, Delivery
<1> QED BY <1>2, <1>3

(* An ack stays true, and whoever passes it on does not change what it *)
(* says.                                                               *)
LEMMA AckStep ==
  TypeOK /\ RanInv /\ GivenInv /\ PacketInv /\ RelayInv /\ AckInv /\ [Next]_vars => AckInv'
<1> SUFFICES ASSUME TypeOK, RanInv, GivenInv, PacketInv, RelayInv, AckInv, [Next]_vars
             PROVE  \A a \in acks' : Sound(a)'
  BY DEF AckInv, Sound
<1>0. \A a \in acks : Sound(a)'
  <2>1. /\ RouterChanged => RouterChanged'
        /\ \A p \in Players : got[p] \subseteq got'[p]
    BY Grows
  <2>2. First \in Players
    BY Plan
  <2> QED BY <2>1, <2>2 DEF AckInv, Sound, First
<1>1. ASSUME NEW m \in net, doRelay(m.to, m) PROVE \A a \in acks' : Sound(a)'
  <2> SUFFICES ASSUME NEW a \in ackCommand(m.to, m) PROVE Sound(a)'
    BY <1>0, <1>1, Delivery
  <2>1. m.to \in Players /\ m.cmd \in Commands
    BY DEF TypeOK
  <2>2. m.cmd \in got'[m.to]
    BY <1>1, HasIt
  <2>3. /\ a.kind = (IF m.relay \cap Open(m.to) = {} THEN "both" ELSE "stage1")
        /\ a.cmd = m.cmd /\ a.from = m.to /\ a.relay = {a.to}
        /\ a.to = IF Router(m.to) # m.to THEN Router(m.to) ELSE Origin[m.cmd]
    BY <2>1, Acks
  <2>4. ~RouterChanged => Router(m.to) = First
    BY <2>1, RouterIs
  <2>5. a.kind = "stage1" => m.to = First \/ RouterChanged
    BY <2>3, Relays DEF ToRelay
  <2>6. RouterChanged => RouterChanged'
    BY Grows
  <2> QED BY <2>1, <2>2, <2>3, <2>4, <2>5, <2>6 DEF Sound, First
<1>2. ASSUME NEW a \in acks, processAck(a.to, a) PROVE \A b \in acks' : Sound(b)'
  <2>1. a.to \in Players /\ a.cmd \in Commands /\ UNCHANGED <<got, frame>>
    BY <1>2, AckTaken
  <2>2. ASSUME NEW b \in PassedOnAcks(a.to, a) PROVE Sound(b)'
    <3>1. b.kind = a.kind /\ b.cmd = a.cmd /\ b.from = a.from /\ b.to \in a.relay /\ b.to \in Open(a.to)
      BY <2>1, <2>2, PassedAck
    <3>2. a.kind = "stage2"
      BY <2>1, <3>1, Opens DEF AckInv, Sound
    <3> QED BY <1>0, <3>1, <3>2 DEF Sound
  <2>3. ASSUME NEW b \in AckStage2(a.to, a.cmd), relayed[a.to][a.cmd] # {} PROVE Sound(b)'
    <3>1. b.kind = "stage2" /\ b.cmd = a.cmd /\ b.from = 0
      BY <2>1, <2>3, StageTwo
    <3>2. RouterChanged \/ a.cmd \in got[First]
      BY <2>1, <2>3 DEF RelayInv
    <3>3. RouterChanged => RouterChanged'
      BY Grows
    <3> QED BY <2>1, <3>1, <3>2, <3>3 DEF Sound, First
  <2> QED BY <1>0, <1>2, <2>2, <2>3, AckTaken
<1>3. CASE UNCHANGED acks
  BY <1>0, <1>3
<1> QED BY <1>1, <1>2, <1>3
        DEF Next, vars, sendLocalCommand, RunFrame, LeaveGame, processPlayerLeave, sendFrameDataToPlayer

(* What happens to the players a relayed command waits for. *)
LEMMA DeliveryRelayed ==
  ASSUME TypeOK, NEW m \in net, doRelay(m.to, m), NEW p \in Players, NEW c \in Commands
  PROVE  \/ relayed'[p][c] = relayed[p][c]
         \/ /\ p = m.to /\ c = m.cmd /\ ~OutOfDate(m.to, m.cmd)
            /\ relayed[p][c] = {} /\ relayed'[p][c] = m.relay \cap Open(p)
<1>1. /\ \A q \in Players \ {m.to} : relayed'[q] = relayed[q]
      /\ \A d \in Commands \ {m.cmd} : relayed'[m.to][d] = relayed[m.to][d]
  BY Delivery
<1>2. OutOfDate(m.to, m.cmd) => UNCHANGED relayed
  BY Delivery
<1>3. ~OutOfDate(m.to, m.cmd) =>
        relayed'[m.to][m.cmd] = IF relayed[m.to][m.cmd] = {} THEN m.relay \cap Open(m.to)
                                                            ELSE relayed[m.to][m.cmd]
  BY Delivery
<1>4. CASE p = m.to /\ c = m.cmd
  BY <1>2, <1>3, <1>4
<1>5. CASE p # m.to
  BY <1>1, <1>5
<1>6. CASE p = m.to /\ c # m.cmd
  BY <1>1, <1>6
<1> QED BY <1>4, <1>5, <1>6

(* An ack that is not of stage 1 takes its sender off the players waited *)
(* for.                                                                  *)
LEMMA AckRelayed ==
  ASSUME TypeOK, NEW a \in acks, processAck(a.to, a), NEW p \in Players, NEW c \in Commands
  PROVE  \/ relayed'[p][c] = relayed[p][c]
         \/ /\ p = a.to /\ c = a.cmd /\ a.kind # "stage1"
            /\ relayed[p][c] # {} /\ relayed'[p][c] = relayed[p][c] \ {a.from}
<1>1. /\ \A q \in Players \ {a.to} : relayed'[q] = relayed[q]
      /\ \A d \in Commands \ {a.cmd} : relayed'[a.to][d] = relayed[a.to][d]
  BY AckTaken
<1>2. relayed'[a.to][a.cmd] = IF FindsRelayed(a.to, a) THEN relayed[a.to][a.cmd] \ {a.from}
                                                      ELSE relayed[a.to][a.cmd]
  BY AckTaken
<1>3. CASE p = a.to /\ c = a.cmd
  BY <1>2, <1>3 DEF FindsRelayed
<1>4. CASE p # a.to
  BY <1>1, <1>4
<1>5. CASE p = a.to /\ c # a.cmd
  BY <1>1, <1>5
<1> QED BY <1>3, <1>4, <1>5

(* Only the router comes to relay, and what it has. *)
LEMMA RelayStep == TypeOK /\ PacketInv /\ RelayInv /\ [Next]_vars => RelayInv'
<1> SUFFICES ASSUME TypeOK, PacketInv, RelayInv, [Next]_vars, NEW p \in Players, NEW c \in Commands,
                    relayed'[p][c] # {}
             PROVE  /\ p = First \/ (p = Second /\ RouterChanged')
                    /\ p # Origin[c] /\ c \in got'[p] /\ p \notin relayed'[p][c]
  BY DEF RelayInv, First, Second
<1>0. (RouterChanged => RouterChanged') /\ got[p] \subseteq got'[p]
  BY Grows
<1>1. CASE relayed[p][c] # {} /\ relayed'[p][c] \subseteq relayed[p][c]
  BY <1>0, <1>1 DEF RelayInv
<1>2. ASSUME NEW m \in net, doRelay(m.to, m)
      PROVE  /\ p = First \/ (p = Second /\ RouterChanged')
             /\ p # Origin[c] /\ c \in got'[p] /\ p \notin relayed'[p][c]
  <2>1. CASE relayed'[p][c] = relayed[p][c]
    BY <1>1, <2>1
  <2>2. CASE relayed'[p][c] # relayed[p][c]
    <3>1. p = m.to /\ c = m.cmd /\ ~OutOfDate(m.to, m.cmd)
      BY <1>2, <2>2, DeliveryRelayed
    <3>2. relayed'[p][c] = m.relay \cap Open(p)
      BY <1>2, <2>2, DeliveryRelayed
    <3>3. ToRelay(m) /\ m.to # Origin[m.cmd] /\ m.to \in m.relay
      BY <3>1, <3>2, Relays DEF PacketInv
    <3>4. c \in got'[p]
      BY <1>2, <3>1, <3>3, Delivery
    <3> QED BY <1>0, <3>1, <3>2, <3>3, <3>4, Opens DEF ToRelay
  <2> QED BY <2>1, <2>2
<1>3. ASSUME NEW a \in acks, processAck(a.to, a) PROVE relayed'[p][c] \subseteq relayed[p][c]
  BY <1>3, AckRelayed
<1>4. CASE UNCHANGED relayed
  BY <1>1, <1>4
<1> QED BY <1>1, <1>2, <1>3, <1>4
        DEF Next, vars, sendLocalCommand, RunFrame, LeaveGame, processPlayerLeave, sendFrameDataToPlayer

(* A player is taken off the relayed command by an ack of its own only:  *)
(* slot 0, from which stage 2 acks seem to come, is the router itself if *)
(* it plays.                                                             *)
LEMMA ElseStep ==
  /\ TypeOK /\ GivenInv /\ PacketInv /\ RelayInv /\ AckInv /\ EveryoneElseHasIt /\ RanInv
  /\ [Next]_vars
  => EveryoneElseHasIt'
<1> SUFFICES ASSUME TypeOK, GivenInv, PacketInv, RelayInv, AckInv, EveryoneElseHasIt, RanInv, [Next]_vars,
                    NEW p \in Players, NEW c \in Commands, relayed'[p][c] # {},
                    NEW i \in Players \ relayed'[p][c], i # Leaver
             PROVE  c \in got'[i]
  BY DEF EveryoneElseHasIt
<1>0. \A q \in Players : got[q] \subseteq got'[q]
  BY Grows
<1>1. CASE relayed[p][c] # {} /\ i \notin relayed[p][c]
  BY <1>0, <1>1 DEF EveryoneElseHasIt
<1>2. ASSUME NEW m \in net, doRelay(m.to, m) PROVE c \in got'[i]
  <2>1. CASE relayed'[p][c] = relayed[p][c]
    BY <1>1, <2>1
  <2>2. CASE relayed'[p][c] # relayed[p][c]
    <3>1. p = m.to /\ c = m.cmd /\ ~OutOfDate(m.to, m.cmd)
      BY <1>2, <2>2, DeliveryRelayed
    <3>2. relayed'[p][c] = m.relay \cap Open(p)
      BY <1>2, <2>2, DeliveryRelayed
    <3>3. m.relay = Players \ {Origin[c]}
      BY <3>1, <3>2, Relays DEF ToRelay
    <3>4. CASE i = Origin[c]
      BY <1>0, <3>1, <3>4 DEF GivenInv
    <3>5. CASE i # Origin[c]
      <4>1. i = p
        BY <3>2, <3>3, <3>5, Opens
      <4> QED BY <1>2, <3>1, <4>1, HasIt
    <3> QED BY <3>4, <3>5
  <2> QED BY <2>1, <2>2
<1>3. ASSUME NEW a \in acks, processAck(a.to, a) PROVE c \in got'[i]
  <2>1. CASE i \notin relayed[p][c]
    <3>1. relayed'[p][c] \subseteq relayed[p][c]
      BY <1>3, AckRelayed
    <3> QED BY <1>1, <2>1, <3>1
  <2>2. CASE i \in relayed[p][c]
    <3>1. p = a.to /\ c = a.cmd /\ i = a.from /\ a.kind # "stage1"
      BY <1>3, <2>2, AckRelayed
    <3>2. CASE a.kind = "both"
      BY <1>0, <3>1, <3>2 DEF AckInv, Sound
    <3>3. CASE a.kind = "stage2"
      <4>1. i = 0
        BY <3>1, <3>3 DEF AckInv, Sound
      <4>2. First = i /\ Second = i
        BY <4>1, Plan, PlayersAssumption
      <4> QED BY <2>2, <4>2 DEF RelayInv
    <3> QED BY <3>1, <3>2, <3>3 DEF TypeOK
  <2> QED BY <2>1, <2>2
<1>4. CASE UNCHANGED relayed
  BY <1>1, <1>4
<1> QED BY <1>2, <1>3, <1>4
        DEF Next, vars, sendLocalCommand, RunFrame, LeaveGame, processPlayerLeave, sendFrameDataToPlayer
-----------------------------------------------------------------------------
(* How the state can change: where a command that is new came from, and    *)
(* what has happened to one that is gone.                                  *)

(* A queue loses a command to an acknowledgement, or when Leaver leaves. *)
LEMMA StaysQueued ==
  ASSUME TypeOK, [Next]_vars, NEW p \in Players, NEW i \in Players, NEW c \in Commands,
         Queued(p, i, c), ~Queued(p, i, c)'
  PROVE  \/ \E a \in acks : /\ processAck(a.to, a) /\ a.kind # "stage2"
                            /\ a.to = p /\ a.from = i /\ a.cmd = c
         \/ LeaveGame /\ p = Leaver /\ Origin[c] # p
<1>1. ASSUME NEW q \in Players, NEW packets, Send(q, packets) PROVE FALSE
  BY <1>1, Sending
<1>2. ASSUME UNCHANGED queue PROVE FALSE
  BY <1>2 DEF Queued
<1>3. ASSUME NEW q \in Players, NEW d \in Commands, sendLocalCommand(q, d) PROVE FALSE
  BY <1>1, <1>3 DEF sendLocalCommand
<1>4. ASSUME NEW m \in net, doRelay(m.to, m) PROVE FALSE
  <2>1. m.to \in Players /\ (UNCHANGED queue \/ Send(m.to, Direct(m.cmd, m.relay \cap Open(m.to))))
    BY <1>4, Delivery
  <2> QED BY <1>1, <1>2, <2>1
<1>5. ASSUME NEW a \in acks, processAck(a.to, a)
      PROVE  a.kind # "stage2" /\ a.to = p /\ a.from = i /\ a.cmd = c
  <2>1. PICK e \in queue[p] : e.to = i /\ e.cmd = c
    BY DEF Queued
  <2>2. e \notin queue'[p]
    BY <2>1 DEF Queued
  <2>3. a.to = p
    <3>1. \A q \in Players \ {a.to} : queue'[q] = queue[q]
      BY <1>5, AckTaken
    <3> QED BY <2>1, <2>2, <3>1
  <2>4. \A x \in queue[a.to] : x \in queue'[a.to] \/ (x.to = a.from /\ x.cmd = a.cmd)
    BY <1>5, AckTaken
  <2>5. a.kind = "stage2" => queue'[a.to] = queue[a.to]
    BY <1>5, AckTaken
  <2> QED BY <2>1, <2>2, <2>3, <2>4, <2>5
<1>6. ASSUME LeaveGame PROVE p = Leaver /\ Origin[c] # p
  <2>1. PICK kept \in SUBSET queue[Leaver] :
           Cleared(Leaver, kept) /\ queue' = [queue EXCEPT ![Leaver] = kept]
    BY <1>6 DEF LeaveGame
  <2>2. PICK e \in queue[p] : e.to = i /\ e.cmd = c /\ e \notin queue'[p]
    BY DEF Queued
  <2>3. p = Leaver
    BY <2>1, <2>2 DEF TypeOK
  <2>4. e \in queue[Leaver] \ kept
    BY <2>1, <2>2, <2>3, PlayersAssumption DEF TypeOK
  <2> QED BY <2>1, <2>2, <2>3, <2>4 DEF Cleared
<1>7. ASSUME NEW q \in Players, processPlayerLeave(q) PROVE FALSE
  <2>1. UNCHANGED queue \/ Send(q, Resent(q))
    BY <1>7 DEF processPlayerLeave
  <2> QED BY <1>1, <1>2, <2>1
<1>8. ASSUME NEW q \in Players, NEW j \in Players, sendFrameDataToPlayer(q, j) PROVE FALSE
  BY <1>1, <1>8 DEF sendFrameDataToPlayer
<1> QED BY <1>2, <1>3, <1>4, <1>5, <1>6, <1>7, <1>8 DEF Next, vars, RunFrame

(* Who has a command now gave it, or took it in. *)
LEMMA NewlyGot ==
  ASSUME TypeOK, [Next]_vars, NEW p \in Players, NEW c \in Commands, c \notin got[p], c \in got'[p]
  PROVE  \/ sendLocalCommand(p, c)
         \/ \E m \in net : doRelay(m.to, m) /\ m.to = p /\ m.cmd = c /\ ~OutOfDate(p, c)
<1>1. ASSUME NEW q \in Players, NEW d \in Commands, sendLocalCommand(q, d) PROVE q = p /\ d = c
  BY <1>1 DEF sendLocalCommand, TypeOK
<1>2. ASSUME NEW m \in net, doRelay(m.to, m) PROVE m.to = p /\ m.cmd = c /\ ~OutOfDate(p, c)
  <2>1. /\ \A q \in Players \ {m.to} : got'[q] = got[q]
        /\ got'[m.to] \subseteq got[m.to] \cup {m.cmd}
    BY <1>2, Delivery
  <2>2. OutOfDate(m.to, m.cmd) => UNCHANGED got
    BY <1>2, Delivery
  <2> QED BY <2>1, <2>2
<1>3. CASE UNCHANGED got
  BY <1>3
<1> QED BY <1>1, <1>2, <1>3
        DEF Next, vars, processAck, RunFrame, LeaveGame, processPlayerLeave, sendFrameDataToPlayer

(* A pending command is new when it is given; it is gone when it is        *)
(* acknowledged for everyone.                                              *)
LEMMA PendingChange ==
  ASSUME TypeOK, [Next]_vars, NEW p \in Players, NEW c \in Commands
  PROVE  /\ c \in pending'[p] \ pending[p] => sendLocalCommand(p, c) /\ Router(p) # p
         /\ c \in pending[p] \ pending'[p] =>
              \E a \in acks : processAck(a.to, a) /\ a.kind # "stage1" /\ a.to = p /\ a.cmd = c
<1>1. ASSUME NEW q \in Players, NEW d \in Commands, sendLocalCommand(q, d)
      PROVE  /\ c \in pending[p] => c \in pending'[p]
             /\ c \in pending'[p] \ pending[p] => q = p /\ d = c /\ Router(p) # p
  BY <1>1 DEF sendLocalCommand, TypeOK
<1>2. ASSUME NEW a \in acks, processAck(a.to, a)
      PROVE  /\ c \in pending'[p] => c \in pending[p]
             /\ c \in pending[p] \ pending'[p] => a.kind # "stage1" /\ a.to = p /\ a.cmd = c
  <2>1. \A q \in Players \ {a.to} : pending'[q] = pending[q]
    BY <1>2, AckTaken
  <2>2. pending'[a.to] \subseteq pending[a.to] /\ pending[a.to] \subseteq pending'[a.to] \cup {a.cmd}
    BY <1>2, AckTaken
  <2>3. a.kind = "stage1" => pending'[a.to] = pending[a.to]
    BY <1>2, AckTaken
  <2> QED BY <2>1, <2>2, <2>3
<1>3. CASE UNCHANGED pending
  BY <1>3
<1> QED BY <1>1, <1>2, <1>3
        DEF Next, vars, doRelay, RunFrame, LeaveGame, processPlayerLeave, sendFrameDataToPlayer

(* A player sees Leaver gone when it runs the frame of the leave. *)
LEMMA JustLeft ==
  ASSUME TypeOK, [Next]_vars, NEW p \in Players, p # Leaver, ~HasLeft(p), HasLeft(p)'
  PROVE  processPlayerLeave(p)
<1>1. frame[p] \in Nat /\ LeaveFrame \in Nat /\ frame[p] <= LeaveFrame /\ frame'[p] > LeaveFrame
  BY FramesAssumption DEF HasLeft, TypeOK
<1>2. ASSUME NEW q \in Players, frame' = [frame EXCEPT ![q] = @ + 1]
      PROVE  q = p /\ frame[q] = LeaveFrame
  <2>1. frame'[p] = IF q = p THEN frame[p] + 1 ELSE frame[p]
    BY <1>2 DEF TypeOK
  <2> QED BY <1>1, <2>1
<1>3. ASSUME NEW q \in Players, RunFrame(q) PROVE FALSE
  BY <1>2, <1>3 DEF RunFrame
<1>4. ASSUME LeaveGame PROVE FALSE
  BY <1>2, <1>4, PlayersAssumption DEF LeaveGame
<1>5. ASSUME NEW q \in Players, processPlayerLeave(q) PROVE q = p
  BY <1>2, <1>5 DEF processPlayerLeave
<1>6. CASE UNCHANGED frame
  BY <1>1, <1>6
<1> QED BY <1>3, <1>4, <1>5, <1>6
        DEF Next, vars, sendLocalCommand, doRelay, processAck, sendFrameDataToPlayer

-----------------------------------------------------------------------------
(* Relayed commands stay queued until the router changes. *)

(* An ack that takes a command off a queue takes the player off the *)
(* relayed command too.                                             *)
LEMMA QueuedStep ==
  TypeOK /\ AckInv /\ RelayInv /\ RelayedIsQueued /\ [Next]_vars => RelayedIsQueued'
<1> SUFFICES ASSUME TypeOK, AckInv, RelayInv, RelayedIsQueued, [Next]_vars, ~RouterChanged',
                    NEW p \in Players, NEW c \in Commands, ~Quit(p)',
                    NEW i \in relayed'[p][c], ~Queued(p, i, c)'
             PROVE  FALSE
  BY DEF RelayedIsQueued
<1>0. i \in Players
  BY TypeStep DEF TypeOK
<1>1. ~RouterChanged /\ ~Quit(p)
  BY Grows DEF Quit
<1>2. CASE i \in relayed[p][c]
  <2>1. Queued(p, i, c)
    BY <1>1, <1>2 DEF RelayedIsQueued
  <2>2. ASSUME LeaveGame, p = Leaver PROVE FALSE
    <3>1. frame[p] = LeaveFrame /\ frame'[p] = frame[p] + 1
      BY <2>2 DEF LeaveGame, TypeOK
    <3> QED BY <2>2, <3>1, FramesAssumption DEF Quit, HasLeft
  <2>3. PICK a \in acks : /\ processAck(a.to, a) /\ a.kind # "stage2"
                          /\ a.to = p /\ a.from = i /\ a.cmd = c
    BY <1>0, <2>1, <2>2, StaysQueued
  <2>4. a.kind # "stage1"
    BY <1>1, <1>2, <2>3 DEF AckInv, Sound, RelayInv
  <2>5. relayed'[a.to][a.cmd] = IF FindsRelayed(a.to, a) THEN relayed[a.to][a.cmd] \ {a.from}
                                                         ELSE relayed[a.to][a.cmd]
    BY <2>3, AckTaken
  <2> QED BY <1>2, <2>3, <2>4, <2>5 DEF FindsRelayed
<1>3. CASE i \notin relayed[p][c]
  <2>1. ASSUME NEW a \in acks, processAck(a.to, a) PROVE FALSE
    BY <1>3, <2>1, AckRelayed
  <2>2. ASSUME NEW m \in net, doRelay(m.to, m) PROVE FALSE
    <3>1. p = m.to /\ c = m.cmd /\ ~OutOfDate(m.to, m.cmd) /\ i \in m.relay \cap Open(p)
      BY <1>3, <2>2, DeliveryRelayed
    <3>2. Send(p, Direct(c, m.relay \cap Open(p)))
      BY <2>2, <3>1, Delivery
    <3>3. \A e \in Direct(c, m.relay \cap Open(p)) : Queued(p, e.to, e.cmd)'
      BY <3>2, Sending
    <3>4. \E e \in Direct(c, m.relay \cap Open(p)) : e.to = i /\ e.cmd = c
      BY <3>1, Directs
    <3> QED BY <3>3, <3>4
  <2>3. CASE UNCHANGED relayed
    BY <1>3, <2>3
  <2> QED BY <2>1, <2>2, <2>3
          DEF Next, vars, sendLocalCommand, RunFrame, LeaveGame, processPlayerLeave, sendFrameDataToPlayer
<1> QED BY <1>2, <1>3
-----------------------------------------------------------------------------
(* The first router, as long as there is no other. *)

(* Whom the router sends what it relays for a frame it has not run. *)
LEMMA RouterReaches ==
  ASSUME TypeOK, ~RouterChanged, NEW p \in Players \ {First}, NEW c \in Commands,
         frame[First] <= Frame[c]
  PROVE  p \in Open(First) \/ (p = Leaver /\ Frame[c] > LeaveFrame)
<1>1. First \in Players
  BY Plan
<1>2. ~Quit(First)
  BY <1>1 DEF Quit, RouterChanged, First
<1>3. CASE p # Leaver
  BY <1>1, <1>2, <1>3, Opens
<1>4. CASE p = Leaver /\ ~HasLeft(First)
  BY <1>1, <1>4, Opens
<1>5. CASE HasLeft(First)
  <2>1. frame[First] > LeaveFrame /\ frame[First] \in Nat /\ Frame[c] \in Nat /\ LeaveFrame \in Nat
    BY <1>1, <1>5, FramesAssumption, CommandsAssumption DEF HasLeft, TypeOK
  <2>2. Frame[c] > LeaveFrame
    BY <2>1
  <2> QED BY <1>3, <2>2
<1> QED BY <1>3, <1>4, <1>5

(* A command keeps its way to a player who lacks it, as long as the sender *)
(* is not the one to leave.                                                *)
LEMMA KeepsSending ==
  ASSUME TypeOK, AckInv, [Next]_vars, NEW q \in Players, NEW p \in Players, NEW c \in Commands,
         Queued(q, p, c), Origin[c] = q \/ ~LeaveGame \/ q # Leaver
  PROVE  \/ Queued(q, p, c)'
         \/ /\ c \in got[p]
            /\ \E a \in acks : /\ processAck(a.to, a) /\ a.kind # "stage2"
                               /\ a.to = q /\ a.from = p /\ a.cmd = c
<1> SUFFICES ASSUME ~Queued(q, p, c)'
             PROVE  /\ c \in got[p]
                    /\ \E a \in acks : /\ processAck(a.to, a) /\ a.kind # "stage2"
                                       /\ a.to = q /\ a.from = p /\ a.cmd = c
  OBVIOUS
<1>1. PICK a \in acks : /\ processAck(a.to, a) /\ a.kind # "stage2"
                        /\ a.to = q /\ a.from = p /\ a.cmd = c
  BY StaysQueued
<1>2. c \in got[p]
  BY <1>1 DEF AckInv, Sound
<1> QED BY <1>1, <1>2

(* The giver sends to the router until the router has the command. *)
LEMMA RouterHasItStep ==
  TypeOK /\ GivenInv /\ AckInv /\ RouterHasIt /\ [Next]_vars => RouterHasIt'
<1> SUFFICES ASSUME TypeOK, GivenInv, AckInv, RouterHasIt, [Next]_vars, ~RouterChanged',
                    NEW c \in Commands, c \in got'[Origin[c]], Origin[c] # First
             PROVE  /\ Queued(Origin[c], First, c)' \/ c \in got'[First]
                    /\ c \notin pending'[Origin[c]] => c \in got'[First]
  BY DEF RouterHasIt, First
<1> DEFINE o == Origin[c]
<1>0. /\ o \in Players /\ First \in Players /\ ~RouterChanged
      /\ got[First] \subseteq got'[First]
  BY CommandsAssumption, Plan, Grows
<1> HIDE DEF o
<1>1. CASE c \in got[o]
  <2>1. Queued(o, First, c) \/ c \in got[First]
    BY <1>0, <1>1 DEF RouterHasIt, o
  <2>2. Queued(o, First, c)' \/ c \in got'[First]
    BY <1>0, <2>1, KeepsSending DEF o
  <2>3. ASSUME c \notin pending'[o], c \in pending[o] PROVE c \in got[First]
    <3>1. PICK a \in acks : processAck(a.to, a) /\ a.kind # "stage1" /\ a.to = o /\ a.cmd = c
      BY <1>0, <2>3, PendingChange
    <3>2. a.kind \in {"stage2", "both"}
      BY <3>1 DEF TypeOK
    <3> QED BY <1>0, <3>1, <3>2 DEF AckInv, Sound, o
  <2>4. c \notin pending[o] => c \in got[First]
    BY <1>0, <1>1 DEF RouterHasIt, o
  <2> QED BY <1>0, <2>2, <2>3, <2>4 DEF o
<1>2. CASE c \notin got[o]
  <2>1. sendLocalCommand(o, c)
    <3>1. ASSUME NEW m \in net, m.cmd = c PROVE FALSE
      BY <1>2, <3>1 DEF GivenInv, o
    <3> QED BY <1>0, <1>2, <3>1, NewlyGot DEF o
  <2>2. Router(o) = First /\ Router(o) # o
    BY <1>0, RouterIs DEF o
  <2>3. c \in pending'[o]
    BY <1>0, <2>1, <2>2 DEF sendLocalCommand, TypeOK
  <2>4. Send(o, {Packet(First, c, (Players \ {o}) \ {o})})
    BY <2>1, <2>2 DEF sendLocalCommand, LocalPackets
  <2>5. Queued(o, First, c)'
    <3>1. \A e \in {Packet(First, c, (Players \ {o}) \ {o})} : Queued(o, e.to, e.cmd)'
      BY <1>0, <2>4, Sending
    <3> QED BY <3>1 DEF Packet
  <2> QED BY <2>3, <2>5 DEF o
<1> QED BY <1>1, <1>2

(* The router queues a command for everyone when it first takes it in. *)
LEMMA RouterSendsStep ==
  TypeOK /\ PacketInv /\ AckInv /\ RouterSends /\ [Next]_vars => RouterSends'
<1> SUFFICES ASSUME TypeOK, PacketInv, AckInv, RouterSends, [Next]_vars, ~RouterChanged',
                    NEW c \in Commands, c \in got'[First], ~FrameDataForRouter(c)',
                    NEW p \in Players \ {Origin[c], First}, c \notin got'[p],
                    ~(p = Leaver /\ Frame[c] > LeaveFrame)
             PROVE  Queued(First, p, c)'
  BY DEF RouterSends, First
<1>0. /\ First \in Players /\ ~RouterChanged /\ ~FrameDataForRouter(c)
      /\ c \notin got[p]
  BY Plan, Grows DEF FrameDataForRouter
<1>1. CASE c \in got[First]
  <2>1. Queued(First, p, c)
    BY <1>0, <1>1 DEF RouterSends
  <2>2. ~LeaveGame \/ First # Leaver
    <3> SUFFICES ASSUME LeaveGame, First = Leaver PROVE FALSE
      OBVIOUS
    <3>1. frame[Leaver] = LeaveFrame /\ frame'[Leaver] = frame[Leaver] + 1
      BY PlayersAssumption DEF LeaveGame, TypeOK
    <3>2. HasLeft(Leaver)'
      BY <3>1, FramesAssumption DEF HasLeft
    <3> QED BY <3>2, PlayersAssumption DEF RouterChanged, First
  <2> QED BY <1>0, <2>1, <2>2, KeepsSending
<1>2. CASE c \notin got[First]
  <2>1. ASSUME sendLocalCommand(First, c) PROVE Queued(First, p, c)'
    <3>1. Router(First) = First
      BY <1>0, RouterIs
    <3>2. Send(First, Direct(c, (Players \ {First}) \cap Open(First))) /\ frame[First] < Frame[c]
      BY <2>1, <3>1 DEF sendLocalCommand, LocalPackets
    <3>3. frame[First] <= Frame[c]
      BY <1>0, <3>2, CommandsAssumption DEF TypeOK
    <3>4. p \in Open(First)
      BY <1>0, <3>3, RouterReaches
    <3>5. \A e \in Direct(c, (Players \ {First}) \cap Open(First)) : Queued(First, e.to, e.cmd)'
      BY <1>0, <3>2, Sending
    <3>6. \E e \in Direct(c, (Players \ {First}) \cap Open(First)) : e.to = p /\ e.cmd = c
      BY <3>4, Directs
    <3> QED BY <3>5, <3>6
  <2>2. ASSUME NEW m \in net, doRelay(m.to, m), m.to = First, m.cmd = c, ~OutOfDate(First, c)
        PROVE  Queued(First, p, c)'
    <3>1. m.relay = Players \ {Origin[c]}
      <4>1. CASE m.relay = {First}
        <5>1. m = Packet(First, c, {First})
          BY <2>2, <4>1 DEF Packet, TypeOK
        <5> QED BY <1>0, <5>1 DEF FrameDataForRouter, First
      <4> QED BY <2>2, <4>1 DEF PacketInv, ToRelay
    <3>2. Send(First, Direct(c, m.relay \cap Open(First)))
      BY <2>2, Delivery
    <3>3. frame[First] <= Frame[c]
      BY <1>0, <2>2, CommandsAssumption DEF TypeOK, OutOfDate
    <3>4. p \in m.relay \cap Open(First)
      BY <1>0, <3>1, <3>3, RouterReaches
    <3>5. \A e \in Direct(c, m.relay \cap Open(First)) : Queued(First, e.to, e.cmd)'
      BY <1>0, <3>2, Sending
    <3>6. \E e \in Direct(c, m.relay \cap Open(First)) : e.to = p /\ e.cmd = c
      BY <3>4, Directs
    <3> QED BY <3>5, <3>6
  <2> QED BY <1>0, <1>2, <2>1, <2>2, NewlyGot
<1> QED BY <1>1, <1>2

-----------------------------------------------------------------------------
(* The router there is without Leaver. *)

(* What the later router has passed on stays passed on. *)
LEMMA StaysPassedOn ==
  ASSUME TypeOK, AckInv, [Next]_vars, NEW p \in Players, NEW c \in Commands, PassedOn(p, c)
  PROVE  PassedOn(p, c)'
<1>1. /\ Second \in Players /\ Second # Leaver /\ got[p] \subseteq got'[p]
      /\ frame[Second] <= frame'[Second]
  BY Plan, Grows
<1>2. CASE c \in got[p]
  BY <1>1, <1>2 DEF PassedOn
<1>3. CASE Queued(Second, p, c)
  BY <1>1, <1>3, KeepsSending DEF PassedOn, Second
<1>4. CASE Frame[c] < frame[Second]
  <2>1. Frame[c] \in Nat /\ frame[Second] \in Nat /\ frame'[Second] \in Nat
    BY <1>1, TypeStep, CommandsAssumption DEF TypeOK
  <2>2. Frame[c] < frame'[Second]
    BY <1>1, <1>4, <2>1
  <2> QED BY <2>2 DEF PassedOn, Second
<1> QED BY <1>2, <1>3, <1>4 DEF PassedOn

(* The later router acknowledges stage 1 only of what it has passed on. *)
LEMMA AckedPassedOnStep ==
  TypeOK /\ GivenInv /\ RanInv /\ PacketInv /\ AckInv /\ AckedPassedOn /\ [Next]_vars => AckedPassedOn'
<1> SUFFICES ASSUME TypeOK, GivenInv, RanInv, PacketInv, AckInv, AckedPassedOn, [Next]_vars,
                    NEW a \in acks', a.kind = "stage1", a.from = Second,
                    NEW p \in Players \ {Origin[a.cmd], Leaver}
             PROVE  PassedOn(p, a.cmd)'
  BY DEF AckedPassedOn, Second
<1>0. Second \in Players /\ Second # Leaver
  BY Plan
<1>1. CASE a \in acks
  <2>1. a.cmd \in Commands /\ PassedOn(p, a.cmd)
    BY <1>1 DEF AckedPassedOn, TypeOK
  <2> QED BY <2>1, StaysPassedOn
<1>2. ASSUME NEW m \in net, doRelay(m.to, m), a \in ackCommand(m.to, m) PROVE PassedOn(p, a.cmd)'
  <2>1. m.to \in Players /\ m.cmd \in Commands /\ UNCHANGED frame
    BY <1>2, Delivery
  <2>2. /\ a.kind = (IF m.relay \cap Open(m.to) = {} THEN "both" ELSE "stage1")
        /\ a.cmd = m.cmd /\ a.from = m.to
    BY <1>2, <2>1, Acks
  <2>3. ToRelay(m) /\ m.to = Second
    BY <2>2, Relays
  <2>4. CASE OutOfDate(Second, m.cmd)
    BY <2>1, <2>2, <2>4 DEF PassedOn, OutOfDate, Second
  <2>5. CASE p = Second
    <3>1. m.cmd \in got'[m.to]
      BY <1>2, HasIt
    <3> QED BY <2>2, <2>3, <2>5, <3>1 DEF PassedOn
  <2>6. CASE ~OutOfDate(Second, m.cmd) /\ p # Second
    <3>1. Send(Second, Direct(m.cmd, m.relay \cap Open(Second)))
      BY <1>2, <2>3, <2>6, Delivery
    <3>2. p \in m.relay \cap Open(Second)
      BY <1>0, <2>2, <2>3, <2>6, Opens DEF ToRelay, Quit
    <3>3. \A e \in Direct(m.cmd, m.relay \cap Open(Second)) : Queued(Second, e.to, e.cmd)'
      BY <1>0, <3>1, Sending
    <3>4. \E e \in Direct(m.cmd, m.relay \cap Open(Second)) : e.to = p /\ e.cmd = m.cmd
      BY <3>2, Directs
    <3>5. Queued(Second, p, a.cmd)'
      BY <2>2, <3>3, <3>4
    <3> QED BY <3>5 DEF PassedOn, Second
  <2> QED BY <2>4, <2>5, <2>6
<1>3. ASSUME NEW b \in acks, processAck(b.to, b), a \notin acks PROVE FALSE
  <2>1. b.to \in Players /\ b.cmd \in Commands
    BY <1>3, AckTaken
  <2>2. a \in PassedOnAcks(b.to, b) \/ a \in AckStage2(b.to, b.cmd)
    BY <1>3, AckTaken
  <2>3. CASE a \in PassedOnAcks(b.to, b)
    <3>1. b.kind = "stage1" /\ a.to \in b.relay /\ a.to \in Open(b.to)
      BY <2>1, <2>3, PassedAck
    <3>2. b.relay = {b.to}
      BY <3>1 DEF AckInv, Sound
    <3> QED BY <2>1, <3>1, <3>2, Opens
  <2>4. CASE a \in AckStage2(b.to, b.cmd)
    BY <2>1, <2>4, StageTwo
  <2> QED BY <2>2, <2>3, <2>4
<1>4. ASSUME NEW m \in net, doRelay(m.to, m), a \notin acks PROVE a \in ackCommand(m.to, m)
  BY <1>4, Delivery
<1>5. CASE UNCHANGED acks
  BY <1>1, <1>5
<1> QED BY <1>1, <1>2, <1>3, <1>4, <1>5
        DEF Next, vars, sendLocalCommand, RunFrame, LeaveGame, processPlayerLeave, sendFrameDataToPlayer

(* What is pending is resent when the router changes, and stays pending *)
(* until the later router has passed it on.                             *)
LEMMA PendingPassedOnStep ==
  /\ TypeOK /\ GivenInv /\ AckInv /\ AckedPassedOn /\ PendingPassedOn /\ [Next]_vars
  => PendingPassedOn'
<1> SUFFICES ASSUME TypeOK, GivenInv, AckInv, AckedPassedOn, PendingPassedOn, [Next]_vars,
                    NEW o \in Players \ {Leaver}, HasLeft(o)' \/ First # Leaver,
                    NEW c \in pending'[o], NEW p \in Players \ {o, Leaver}
             PROVE  Queued(o, Second, c)' \/ PassedOn(p, c)'
  BY DEF PendingPassedOn, First, Second
<1>0. Second \in Players /\ Second # Leaver /\ c \in Commands
  BY Plan, TypeStep DEF TypeOK
<1>1. CASE c \notin pending[o]
  <2>1. sendLocalCommand(o, c) /\ Router(o) # o
    BY <1>0, <1>1, PendingChange
  <2>2. UNCHANGED frame
    BY <2>1 DEF sendLocalCommand
  <2>3. Router(o) = Second
    <3>1. HasLeft(o) \/ First # Leaver
      BY <2>2 DEF HasLeft
    <3> QED BY <3>1, RouterIs, Plan
  <2>4. Send(o, {Packet(Second, c, (Players \ {o}) \ {o})})
    BY <2>1, <2>3 DEF sendLocalCommand, LocalPackets
  <2>5. \A e \in {Packet(Second, c, (Players \ {o}) \ {o})} : Queued(o, e.to, e.cmd)'
    BY <2>4, Sending
  <2> QED BY <2>5 DEF Packet
<1>2. CASE c \in pending[o] /\ (HasLeft(o) \/ First # Leaver)
  <2>1. Queued(o, Second, c) \/ PassedOn(p, c)
    BY <1>2 DEF PendingPassedOn
  <2>2. CASE PassedOn(p, c)
    BY <1>0, <2>2, StaysPassedOn
  <2>3. CASE Queued(o, Second, c) /\ ~Queued(o, Second, c)'
    <3>1. PICK a \in acks : /\ processAck(a.to, a) /\ a.kind # "stage2"
                            /\ a.to = o /\ a.from = Second /\ a.cmd = c
      BY <1>0, <2>3, KeepsSending
    <3>2. a.kind # "stage1" => a.cmd \notin pending'[a.to]
      BY <3>1, AckTaken
    <3>3. Origin[c] = o
      BY <1>2 DEF GivenInv
    <3>4. PassedOn(p, c)
      BY <3>1, <3>2, <3>3 DEF AckedPassedOn
    <3> QED BY <1>0, <3>4, StaysPassedOn
  <2> QED BY <2>1, <2>2, <2>3
<1>3. CASE c \in pending[o] /\ ~HasLeft(o) /\ First = Leaver
  <2>1. processPlayerLeave(o)
    BY <1>3, JustLeft
  <2>2. Router(o) = Leaver
    BY <1>3, RouterIs
  <2>3. Send(o, Resent(o))
    BY <2>1, <2>2 DEF processPlayerLeave
  <2>4. \A e \in Resent(o) : Queued(o, e.to, e.cmd)'
    BY <2>3, Sending
  <2>5. LocalPackets(o, Second, c, Players \ {o}, Players \ {o, Leaver}) \subseteq Resent(o)
    BY <1>3 DEF Resent, Second
  <2>6. CASE Second = o
    <3>1. Direct(c, (Players \ {o}) \cap (Players \ {o, Leaver})) \subseteq Resent(o)
      BY <2>5, <2>6 DEF LocalPackets
    <3>2. \E e \in Direct(c, (Players \ {o}) \cap (Players \ {o, Leaver})) : e.to = p /\ e.cmd = c
      BY Directs
    <3>3. Queued(o, p, c)'
      BY <2>4, <3>1, <3>2
    <3> QED BY <2>6, <3>3 DEF PassedOn, Second
  <2>7. CASE Second # o
    <3>1. Packet(Second, c, (Players \ {o}) \ {o}) \in Resent(o)
      BY <2>5, <2>7 DEF LocalPackets
    <3> QED BY <2>4, <3>1 DEF Packet
  <2> QED BY <2>6, <2>7
<1> QED BY <1>1, <1>2, <1>3

-----------------------------------------------------------------------------
(* IInv is an invariant: every reachable state is a state of the argument *)
(* above, whatever is lost, repeated or overtaken.                        *)
THEOREM Invariant == Spec => []IInv
<1>1. Init => IInv
  <2> SUFFICES ASSUME Init PROVE IInv
    OBVIOUS
  <2>1. /\ got = [p \in Players |-> {}] /\ pending = [p \in Players |-> {}] /\ acks = {}
        /\ \A p \in Players, c \in Commands : relayed[p][c] = {}
    BY DEF Init
  <2>2. First \in Players
    BY Plan
  <2>3. RelayedIsQueued
    BY <2>1 DEF RelayedIsQueued
  <2>4. RouterInv
    BY <2>1, <2>2, CommandsAssumption DEF RouterInv, RouterHasIt, RouterSends
  <2>5. LaterRouterInv
    BY <2>1 DEF LaterRouterInv, AckedPassedOn, PendingPassedOn
  <2> QED BY <2>3, <2>4, <2>5, InitType, InitGiven DEF IInv
<1>2. IInv /\ [Next]_vars => IInv'
  <2> SUFFICES ASSUME IInv, [Next]_vars PROVE IInv'
    OBVIOUS
  <2> USE DEF IInv
  <2>1. TypeOK' /\ GivenInv' /\ RanInv'
    BY TypeStep, GivenStep, RanStep
  <2>2. PacketInv' /\ AckInv' /\ RelayInv'
    BY PacketStep, AckStep, RelayStep
  <2>3. EveryoneElseHasIt' /\ RelayedIsQueued'
    BY ElseStep, QueuedStep
  <2>4. RouterInv'
    BY RouterHasItStep, RouterSendsStep DEF RouterInv
  <2>5. LaterRouterInv'
    BY AckedPassedOnStep, PendingPassedOnStep DEF LaterRouterInv
  <2> QED BY <2>1, <2>2, <2>3, <2>4, <2>5
<1> QED BY <1>1, <1>2, PTL DEF Spec

(* The machines' frames, commands, queues and acks keep their types. *)
THEOREM TypeCorrect == Spec => []TypeOK
<1>1. IInv => TypeOK
  BY DEF IInv
<1> QED BY <1>1, Invariant, PTL

(* m_relayedCommands: a command waits for nobody in vain. *)
THEOREM NoWaitInVain == Spec => []RelayedIsQueued
<1>1. IInv => RelayedIsQueued
  BY DEF IInv
<1> QED BY <1>1, Invariant, PTL

(* processAckStage2: a cleared bit is a player who has the command. *)
THEOREM AcksAreSound == Spec => []EveryoneElseHasIt
<1>1. IInv => EveryoneElseHasIt
  BY DEF IInv
<1> QED BY <1>1, Invariant, PTL

(* Until the router changes no command is forgotten while somebody lacks   *)
(* it.                                                                     *)
THEOREM NothingForgotten == Spec => []SomeoneStillSends
<1>1. IInv => SomeoneStillSends
  <2> SUFFICES ASSUME IInv, ~RouterChanged, NEW c \in Commands,
                      c \in got[Origin[c]] \ pending[Origin[c]], ~FrameDataForRouter(c),
                      NEW p \in Players \ {Origin[c]}
               PROVE  \/ c \in got[p]
                      \/ p = Leaver /\ Frame[c] > LeaveFrame
                      \/ \E q \in Players : Queued(q, p, c)
    BY DEF SomeoneStillSends
  <2>1. c \in got[First]
    BY DEF IInv, RouterInv, RouterHasIt
  <2>2. First \in Players
    BY Plan
  <2> QED BY <2>1, <2>2 DEF IInv, RouterInv, RouterSends
<1> QED BY <1>1, Invariant, PTL

(* resendPendingCommands: the router there is after Leaver gets what is    *)
(* pending, and passes it on.                                              *)
THEOREM PendingIsPassedOn == Spec => []PendingIsUnderway
<1>1. IInv => PendingIsUnderway
  <2> SUFFICES ASSUME IInv, NEW o \in Players \ {Leaver}, HasLeft(o), NEW c \in pending[o],
                      NEW p \in Players \ {o, Leaver}
               PROVE  \/ c \in got[p]
                      \/ Queued(o, Router(o), c)
                      \/ Queued(Router(o), p, c)
                      \/ Frame[c] < frame[Router(o)]
    BY DEF PendingIsUnderway
  <2>1. Router(o) = Second
    BY RouterIs
  <2> QED BY <2>1 DEF IInv, LaterRouterInv, PendingPassedOn, PassedOn
<1> QED BY <1>1, Invariant, PTL
-----------------------------------------------------------------------------
(* What its giver has forgotten is held by those who stay.                 *)

(* The router there is without Leaver has c, or somebody who stays has run *)
(* its frame and so has it too.                                            *)
Held(c) == c \in got[Second] \/ \E q \in Players \ {Leaver} : Frame[c] < frame[q]

(* Nobody sends to itself. *)
QueueInv == \A p \in Players : \A e \in queue[p] : e.to # p

(* A router that is to leave and is sent a command that it need not relay  *)
(* acknowledges it for everyone: then it is not the last to have it.       *)
LastHeld == First = Leaver => \A m \in net :
  m.to = First /\ m.relay = {First} /\ Origin[m.cmd] # Leaver => Held(m.cmd)

(* An ack that makes the giver forget its command. *)
Final(a) == a.kind = "stage2" \/ (a.kind = "both" /\ a.to = Origin[a.cmd])
FinalHeld == \A a \in acks : Origin[a.cmd] # Leaver /\ Final(a) => Held(a.cmd)

(* Nobody forgets a command that is not held. *)
ForgottenHeld == \A c \in Commands :
  Origin[c] # Leaver /\ c \in got[Origin[c]] \ pending[Origin[c]] => Held(c)

HeldInv == QueueInv /\ LastHeld /\ FinalHeld /\ ForgottenHeld

(* What is held stays held. *)
LEMMA StaysHeld ==
  ASSUME TypeOK, [Next]_vars, NEW c \in Commands, Held(c) PROVE Held(c)'
<1>1. /\ \A p \in Players : got[p] \subseteq got'[p] /\ frame[p] <= frame'[p]
      /\ Second \in Players /\ Frame[c] \in Nat
  BY Grows, Plan, CommandsAssumption
<1>2. \A p \in Players : frame[p] \in Nat /\ frame'[p] \in Nat
  BY TypeStep DEF TypeOK
<1>3. CASE c \in got[Second]
  BY <1>1, <1>3 DEF Held, Second
<1>4. ASSUME NEW q \in Players \ {Leaver}, Frame[c] < frame[q] PROVE Held(c)'
  <2>1. Frame[c] < frame'[q]
    BY <1>1, <1>2, <1>4
  <2> QED BY <2>1 DEF Held
<1> QED BY <1>3, <1>4 DEF Held

(* What a step adds to what has been sent. *)
LEMMA NewPackets ==
  ASSUME TypeOK, [Next]_vars, NEW e \in net', e \notin net
  PROVE  \/ \E p \in Players, c \in Commands :
               sendLocalCommand(p, c) /\ e \in LocalPackets(p, Router(p), c, Players \ {p}, Open(p))
         \/ \E m \in net : doRelay(m.to, m) /\ ~OutOfDate(m.to, m.cmd)
                           /\ e \in Direct(m.cmd, m.relay \cap Open(m.to))
         \/ \E p \in Players : processPlayerLeave(p) /\ Router(p) = Leaver /\ e \in Resent(p)
         \/ \E p, i \in Players : sendFrameDataToPlayer(p, i) /\ e \in DataFor(p, i)
<1>1. ASSUME NEW p \in Players, NEW c \in Commands, sendLocalCommand(p, c)
      PROVE  e \in LocalPackets(p, Router(p), c, Players \ {p}, Open(p))
  <2>1. Send(p, LocalPackets(p, Router(p), c, Players \ {p}, Open(p)))
    BY <1>1 DEF sendLocalCommand
  <2> QED BY <2>1, Sending
<1>2. ASSUME NEW m \in net, doRelay(m.to, m)
      PROVE  ~OutOfDate(m.to, m.cmd) /\ e \in Direct(m.cmd, m.relay \cap Open(m.to))
  <2>1. ~OutOfDate(m.to, m.cmd) /\ m.to \in Players
    BY <1>2, Delivery
  <2>2. Send(m.to, Direct(m.cmd, m.relay \cap Open(m.to)))
    BY <1>2, <2>1, Delivery
  <2> QED BY <2>1, <2>2, Sending
<1>3. ASSUME NEW p \in Players, processPlayerLeave(p) PROVE Router(p) = Leaver /\ e \in Resent(p)
  <2>1. Router(p) = Leaver
    BY <1>3 DEF processPlayerLeave
  <2>2. Send(p, Resent(p))
    BY <1>3, <2>1 DEF processPlayerLeave
  <2> QED BY <2>1, <2>2, Sending
<1>4. ASSUME NEW p \in Players, NEW i \in Players, sendFrameDataToPlayer(p, i) PROVE e \in DataFor(p, i)
  <2>1. Send(p, DataFor(p, i))
    BY <1>4 DEF sendFrameDataToPlayer, DataFor
  <2> QED BY <2>1, Sending
<1>5. CASE UNCHANGED net
  BY <1>5
<1> QED BY <1>1, <1>2, <1>3, <1>4, <1>5 DEF Next, vars, RunFrame, LeaveGame, processAck

LEMMA QueueStep == TypeOK /\ PacketInv /\ QueueInv /\ [Next]_vars => QueueInv'
<1> SUFFICES ASSUME TypeOK, PacketInv, QueueInv, [Next]_vars PROVE QueueInv'
  OBVIOUS
<1>0. ASSUME NEW p \in Players, NEW packets, Send(p, packets), \A e \in packets : e.to # p
      PROVE  QueueInv'
  <2>1. /\ \A q \in Players : q # p => queue'[q] = queue[q]
        /\ \A e \in queue'[p] : e \in queue[p] \/ e \in packets
    BY <1>0, Sending
  <2> QED BY <1>0, <2>1 DEF QueueInv
<1>1. ASSUME NEW p \in Players, NEW c \in Commands, sendLocalCommand(p, c) PROVE QueueInv'
  <2>1. Send(p, LocalPackets(p, Router(p), c, Players \ {p}, Open(p)))
    BY <1>1 DEF sendLocalCommand
  <2>2. \A e \in LocalPackets(p, Router(p), c, Players \ {p}, Open(p)) : e.to # p
    BY RouterIs, Locals
  <2> QED BY <1>0, <2>1, <2>2
<1>2. ASSUME NEW m \in net, doRelay(m.to, m) PROVE QueueInv'
  <2>1. CASE OutOfDate(m.to, m.cmd)
    BY <1>2, <2>1, Delivery DEF QueueInv
  <2>2. CASE ~OutOfDate(m.to, m.cmd)
    <3>1. m.to \in Players /\ Send(m.to, Direct(m.cmd, m.relay \cap Open(m.to)))
      BY <1>2, <2>2, Delivery
    <3>2. \A e \in Direct(m.cmd, m.relay \cap Open(m.to)) : e.to # m.to
      BY <3>1, Directs, Opens
    <3> QED BY <1>0, <3>1, <3>2
  <2> QED BY <2>1, <2>2
<1>3. ASSUME NEW a \in acks, processAck(a.to, a) PROVE QueueInv'
  <2>1. \A q \in Players : queue'[q] \subseteq queue[q]
    BY <1>3, AckTaken
  <2> QED BY <2>1 DEF QueueInv
<1>4. ASSUME NEW p \in Players, processPlayerLeave(p) PROVE QueueInv'
  <2>1. CASE Router(p) = Leaver
    <3>1. Send(p, Resent(p))
      BY <1>4, <2>1 DEF processPlayerLeave
    <3>2. \A e \in Resent(p) : e.to # p
      <4> SUFFICES ASSUME NEW e \in Resent(p) PROVE e.to # p
        OBVIOUS
      <4>1. PICK c \in pending[p] : e \in LocalPackets(p, Second, c, Players \ {p}, Players \ {p, Leaver})
        BY Resends
      <4> QED BY <4>1, Plan, Locals
    <3> QED BY <1>0, <3>1, <3>2
  <2>2. CASE Router(p) # Leaver
    BY <1>4, <2>2 DEF processPlayerLeave, QueueInv
  <2> QED BY <2>1, <2>2
<1>5. ASSUME NEW p \in Players, NEW i \in Players, sendFrameDataToPlayer(p, i) PROVE QueueInv'
  <2>1. Send(p, DataFor(p, i)) /\ i # p
    BY <1>5, Opens DEF sendFrameDataToPlayer, DataFor
  <2>2. \A e \in DataFor(p, i) : e.to # p
    BY <2>1, Data
  <2> QED BY <1>0, <2>1, <2>2
<1>6. ASSUME LeaveGame PROVE QueueInv'
  <2>1. \A q \in Players : queue'[q] \subseteq queue[q]
    BY <1>6, PlayersAssumption DEF LeaveGame, TypeOK
  <2> QED BY <2>1 DEF QueueInv
<1>7. CASE UNCHANGED queue
  BY <1>7 DEF QueueInv
<1> QED BY <1>1, <1>2, <1>3, <1>4, <1>5, <1>6, <1>7 DEF Next, vars, RunFrame

(* What is sent to a router that is to leave, and to it alone, is held. *)
LEMMA LastHeldStep ==
  TypeOK /\ RanInv /\ GivenInv /\ PacketInv /\ LastHeld /\ [Next]_vars => LastHeld'
<1> SUFFICES ASSUME TypeOK, RanInv, GivenInv, PacketInv, LastHeld, [Next]_vars, First = Leaver,
                    NEW e \in net', e.to = First, e.relay = {First}, Origin[e.cmd] # Leaver
             PROVE  Held(e.cmd)'
  BY DEF LastHeld, First
<1>0. /\ Second \in Players /\ Second # Leaver /\ First \in Players /\ e.cmd \in Commands
      /\ TypeOK' /\ GivenInv'
  BY Plan, TypeStep, GivenStep DEF TypeOK
<1>1. CASE e \in net
  BY <1>0, <1>1, StaysHeld DEF LastHeld
<1>2. CASE e.cmd \in got'[Second]
  BY <1>2 DEF Held, Second
<1>3. ASSUME NEW p \in Players, NEW c \in Commands, sendLocalCommand(p, c),
             e \in LocalPackets(p, Router(p), c, Players \ {p}, Open(p))
      PROVE  Held(e.cmd)'
  <2>1. e.cmd = c /\ Origin[c] = p /\ p # Leaver
    BY <1>3, RouterIs, Locals DEF sendLocalCommand
  <2>2. CASE p = Second
    <3>1. e.cmd \in got'[Second]
      BY <1>0, <1>3, <2>1, <2>2 DEF sendLocalCommand, TypeOK
    <3> QED BY <1>2, <3>1
  <2>3. CASE p # Second
    <3>1. Router(p) # p
      BY <2>1, <2>3, RouterIs
    <3>2. e = Packet(Router(p), c, (Players \ {p}) \ {p})
      BY <1>3, <3>1 DEF LocalPackets
    <3>3. Second \in e.relay
      BY <1>0, <2>3, <3>2 DEF Packet
    <3> QED BY <1>0, <3>3
  <2> QED BY <2>2, <2>3
<1>4. ASSUME NEW m \in net, doRelay(m.to, m), ~OutOfDate(m.to, m.cmd),
             e \in Direct(m.cmd, m.relay \cap Open(m.to))
      PROVE  Held(e.cmd)'
  <2>1. m.to \in Players /\ e.cmd = m.cmd /\ e.to \in m.relay \cap Open(m.to)
    <3>1. m.to \in Players
      BY <1>4, Delivery
    <3> QED BY <1>4, <3>1, Directs
  <2>2. ToRelay(m) /\ m.to # First
    BY <2>1, Relays, Opens
  <2>3. m.to = Second
    BY <2>2 DEF ToRelay
  <2>4. e.cmd \in got'[Second]
    BY <1>4, <2>1, <2>3, HasIt
  <2> QED BY <1>2, <2>4
<1>5. ASSUME NEW p \in Players, processPlayerLeave(p), e \in Resent(p) PROVE Held(e.cmd)'
  <2>1. PICK c \in pending[p] : e \in LocalPackets(p, Second, c, Players \ {p}, Players \ {p, Leaver})
    BY <1>5, Resends
  <2>2. CASE p = Second
    <3>1. e \in Direct(c, (Players \ {p}) \cap (Players \ {p, Leaver}))
      BY <2>1, <2>2 DEF LocalPackets
    <3>2. e.to \in (Players \ {p}) \cap (Players \ {p, Leaver})
      BY <3>1, Directs
    <3> QED BY <3>2
  <2>3. CASE p # Second
    <3>1. e = Packet(Second, c, (Players \ {p}) \ {p})
      BY <2>1, <2>3 DEF LocalPackets
    <3> QED BY <1>0, <3>1 DEF Packet
  <2> QED BY <2>2, <2>3
<1>6. ASSUME NEW p \in Players, NEW i \in Players, sendFrameDataToPlayer(p, i), e \in DataFor(p, i)
      PROVE  Held(e.cmd)'
  <2>1. PICK c \in UNION {FrameData(p, i, f) : f \in FramesMissed(p, i)} : e \in Direct(c, {i})
    BY <1>6 DEF DataFor
  <2>2. PICK f \in FramesMissed(p, i) : c \in FrameData(p, i, f)
    BY <2>1
  <2>3. e.cmd = c /\ e.to = i
    BY <2>1, Directs
  <2>4. Frame[c] = f
    BY <2>2 DEF FrameData
  <2>5. Frame[c] < frame[p]
    BY <2>2, <2>4 DEF FramesMissed, TypeOK
  <2>6. p # Leaver
    BY <1>6, <2>3, Opens DEF sendFrameDataToPlayer
  <2>7. Held(c)
    BY <2>5, <2>6 DEF Held
  <2> QED BY <1>0, <2>3, <2>7, StaysHeld
<1> QED BY <1>1, <1>3, <1>4, <1>5, <1>6, NewPackets

(* What the sender of a final ack knows. *)
LEMMA AckHeld ==
  ASSUME TypeOK, RanInv, GivenInv, PacketInv, LastHeld, [Next]_vars,
         NEW m \in net, doRelay(m.to, m), NEW a \in ackCommand(m.to, m),
         Origin[a.cmd] # Leaver, Final(a)
  PROVE  Held(a.cmd)'
<1> DEFINE p == m.to
<1>1. /\ p \in Players /\ m.cmd \in Commands /\ Second \in Players /\ Second # Leaver
      /\ First \in Players /\ GivenInv'
  BY Plan, GivenStep DEF TypeOK
<1>2. /\ a.kind = (IF m.relay \cap Open(p) = {} THEN "both" ELSE "stage1")
      /\ a.cmd = m.cmd /\ a.to \in Open(p)
      /\ a.to = IF Router(p) # p THEN Router(p) ELSE Origin[m.cmd]
  BY <1>1, Acks DEF ackCommand
<1>3. m.relay \cap Open(p) = {} /\ a.to = Origin[m.cmd]
  BY <1>2 DEF Final
<1>4. m.cmd \in got[Origin[m.cmd]]
  BY DEF GivenInv
<1>5. CASE Origin[m.cmd] = Second
  BY <1>1, <1>2, <1>4, <1>5, StaysHeld DEF Held
<1>6. CASE p = Second
  <2>1. m.cmd \in got'[Second]
    BY <1>6, HasIt
  <2> QED BY <1>2, <2>1 DEF Held, Second
<1>7. CASE Origin[m.cmd] # Second /\ p # Second
  <2>1. Origin[m.cmd] # First
    BY <1>2, <1>7, Plan
  <2>2. Router(p) = p /\ p = First
    BY <1>1, <1>2, <1>3, <1>7, <2>1, RouterIs
  <2>3. First = Leaver
    BY <1>7, <2>2, Plan
  <2>4. Players \ {p, Leaver} \subseteq Open(p)
    BY <1>1, <1>2, Opens
  <2>5. m.relay = {First}
    <3>1. Second \in Open(p)
      BY <1>1, <1>7, <2>4
    <3>2. Second \notin m.relay
      BY <1>3, <3>1
    <3> QED BY <1>1, <1>7, <2>2, <3>2 DEF PacketInv, ToRelay
  <2>6. Held(m.cmd)
    BY <1>2, <2>2, <2>3, <2>5 DEF LastHeld
  <2> QED BY <1>1, <1>2, <2>6, StaysHeld
<1> QED BY <1>5, <1>6, <1>7

LEMMA FinalHeldStep ==
  /\ TypeOK /\ RanInv /\ GivenInv /\ PacketInv /\ AckInv /\ EveryoneElseHasIt
  /\ LastHeld /\ FinalHeld /\ [Next]_vars
  => FinalHeld'
<1> SUFFICES ASSUME TypeOK, RanInv, GivenInv, PacketInv, AckInv, EveryoneElseHasIt,
                    LastHeld, FinalHeld, [Next]_vars,
                    NEW b \in acks', Origin[b.cmd] # Leaver, Final(b)
             PROVE  Held(b.cmd)'
  BY DEF FinalHeld, Final
<1>0. b.cmd \in Commands /\ Second \in Players /\ Second # Leaver
  BY TypeStep, Plan DEF TypeOK
<1>1. CASE b \in acks
  BY <1>0, <1>1, StaysHeld DEF FinalHeld
<1>2. ASSUME NEW m \in net, doRelay(m.to, m), b \notin acks PROVE Held(b.cmd)'
  <2>1. b \in ackCommand(m.to, m)
    BY <1>2, Delivery
  <2> QED BY <1>2, <2>1, AckHeld
<1>3. ASSUME NEW a \in acks, processAck(a.to, a), b \notin acks PROVE Held(b.cmd)'
  <2>1. a.to \in Players /\ a.cmd \in Commands
    BY <1>3, AckTaken
  <2>2. CASE b \in PassedOnAcks(a.to, a)
    <3>1. b.kind = a.kind /\ b.cmd = a.cmd /\ b.to \in a.relay /\ b.to \in Open(a.to)
      BY <2>1, <2>2, PassedAck
    <3>2. a.kind = "stage2"
      BY <2>1, <3>1, Opens DEF AckInv, Sound
    <3>3. Held(a.cmd)
      BY <3>1, <3>2 DEF FinalHeld, Final
    <3> QED BY <2>1, <3>1, <3>3, StaysHeld
  <2>3. CASE b \in AckStage2(a.to, a.cmd) /\ relayed[a.to][a.cmd] # {} /\ b \notin PassedOnAcks(a.to, a)
    <3>1. b.cmd = a.cmd
      BY <2>1, <2>3, StageTwo
    <3>2. FindsRelayed(a.to, a) /\ relayed[a.to][a.cmd] \ {a.from} = {}
      BY <1>3, <2>3 DEF processAck, PassedOnAcks
    <3>3. CASE a.kind = "stage2"
      BY <2>1, <3>1, <3>3, StaysHeld DEF FinalHeld, Final
    <3>4. CASE a.kind # "stage2" /\ Second \in relayed[a.to][a.cmd]
      <4>1. a.cmd \in got[Second]
        BY <3>2, <3>4 DEF AckInv, Sound
      <4> QED BY <2>1, <3>1, <4>1, StaysHeld DEF Held
    <3>5. CASE Second \notin relayed[a.to][a.cmd]
      <4>1. a.cmd \in got[Second]
        BY <1>0, <2>1, <2>3, <3>5 DEF EveryoneElseHasIt
      <4> QED BY <2>1, <3>1, <4>1, StaysHeld DEF Held
    <3> QED BY <3>3, <3>4, <3>5
  <2>4. b \in PassedOnAcks(a.to, a) \/ (b \in AckStage2(a.to, a.cmd) /\ relayed[a.to][a.cmd] # {})
    BY <1>3, AckTaken
  <2> QED BY <2>2, <2>3, <2>4
<1>4. CASE UNCHANGED acks
  BY <1>1, <1>4
<1> QED BY <1>1, <1>2, <1>3, <1>4
        DEF Next, vars, sendLocalCommand, RunFrame, LeaveGame, processPlayerLeave, sendFrameDataToPlayer

(* A giver forgets a command for a final ack only, and keeps it in mind    *)
(* from the start unless it is the router.                                 *)
LEMMA ForgottenHeldStep ==
  TypeOK /\ GivenInv /\ PacketInv /\ FinalHeld /\ ForgottenHeld /\ [Next]_vars => ForgottenHeld'
<1> SUFFICES ASSUME TypeOK, GivenInv, PacketInv, FinalHeld, ForgottenHeld, [Next]_vars,
                    NEW c \in Commands, NEW o \in Players, o = Origin[c], o # Leaver,
                    c \in got'[o], c \notin pending'[o]
             PROVE  Held(c)'
  BY CommandsAssumption DEF ForgottenHeld
<1>1. CASE c \notin got[o]
  <2>1. ~\E m \in net : m.to = o /\ m.cmd = c
    BY DEF PacketInv
  <2>2. sendLocalCommand(o, c)
    BY <1>1, <2>1, NewlyGot
  <2>3. Router(o) = o
    BY <2>2 DEF sendLocalCommand, TypeOK
  <2>4. o = Second
    BY <2>3, RouterIs, Plan
  <2> QED BY <2>4 DEF Held, Second
<1>2. CASE c \in got[o] /\ c \notin pending[o]
  BY <1>2, StaysHeld DEF ForgottenHeld
<1>3. CASE c \in pending[o]
  <2>1. PICK a \in acks : processAck(a.to, a) /\ a.kind # "stage1" /\ a.to = o /\ a.cmd = c
    BY <1>3, PendingChange
  <2>2. a.kind \in {"stage1", "stage2", "both"}
    BY <2>1, AckTaken
  <2>3. Final(a)
    BY <2>1, <2>2 DEF Final
  <2> QED BY <2>1, <2>3, StaysHeld DEF FinalHeld
<1> QED BY <1>1, <1>2, <1>3

(* HeldInv holds in every reachable state. *)
LEMMA HeldInvariant == Spec => []HeldInv
<1>1. Init => HeldInv
  <2> SUFFICES ASSUME Init PROVE HeldInv
    OBVIOUS
  <2>1. /\ got = [p \in Players |-> {}] /\ queue = [p \in Players |-> {}] /\ acks = {} /\ net = {}
    BY DEF Init
  <2> QED BY <2>1, CommandsAssumption DEF HeldInv, QueueInv, LastHeld, FinalHeld, ForgottenHeld
<1>2. IInv /\ HeldInv /\ [Next]_vars => HeldInv'
  BY QueueStep, LastHeldStep, FinalHeldStep, ForgottenHeldStep DEF IInv, HeldInv
<1> QED BY <1>1, <1>2, Invariant, PTL DEF Spec

(* A command that its giver has forgotten (processAckStage2), or that is   *)
(* pending when Leaver is gone (resendPendingCommands), is not lost: the   *)
(* router there is without Leaver has it or is being sent it, or somebody  *)
(* who stays has run its frame.                                            *)
THEOREM NothingIsLost == Spec => []NothingIsGone
<1>1. IInv /\ HeldInv => NothingIsGone
  <2> SUFFICES ASSUME IInv, HeldInv, NEW c \in Commands, NEW o \in Players, o = Origin[c],
                      o # Leaver, c \in got[o], HasLeft(o) \/ c \notin pending[o]
               PROVE  Held(c) \/ Queued(o, Second, c)
    BY CommandsAssumption DEF NothingIsGone, Held, Second
  <2>0. Second \in Players /\ Second # Leaver
    BY Plan
  <2>1. CASE c \notin pending[o]
    BY <2>1 DEF HeldInv, ForgottenHeld
  <2>2. CASE o = Second
    BY <2>2 DEF Held
  <2>3. CASE c \in pending[o] /\ o # Second
    <3>1. Queued(o, Second, c) \/ PassedOn(Second, c)
      BY <2>0, <2>3 DEF IInv, LaterRouterInv, PendingPassedOn
    <3>2. ~Queued(Second, Second, c)
      BY <2>0 DEF HeldInv, QueueInv, Queued
    <3> QED BY <2>0, <3>1, <3>2 DEF PassedOn, Held
  <2> QED BY <2>1, <2>2, <2>3
<1> QED BY <1>1, Invariant, HeldInvariant, PTL
=============================================================================
