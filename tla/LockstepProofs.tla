--------------------------- MODULE LockstepProofs ---------------------------
(***************************************************************************)
(* Proofs about Lockstep, for any number of players, any run ahead range   *)
(* and any number of frames and commands.                                  *)
(*                                                                         *)
(* The argument: a machine closes a frame (sends its count) only when it   *)
(* can issue nothing more for it, so what is issued for a closed frame is  *)
(* final (IssuedInv) and every count in a message is the number of         *)
(* commands issued (NetInv).  No machine runs a frame that another has not *)
(* closed, so all frames a machine can hear of lie between FRAMES_TO_KEEP  *)
(* behind and twice the run ahead in front of its own (PaceInv), which is  *)
(* less than the length of the ring: a slot is about one frame only        *)
(* (SlotOK).  A slot with as many commands as its count then holds exactly *)
(* the commands issued, and the frame run is the same everywhere.  For the *)
(* same reason no reset meets a frame that is still to be run              *)
(* (AcceptedStays), and since all that is issued or closed is sent to      *)
(* everybody (SentInv), what a machine lacks is on its way.                *)
(***************************************************************************)
EXTENDS Lockstep, Modulo, TLAPS, FiniteSetTheorems

-----------------------------------------------------------------------------
(* The numbers, and frames that share a slot. *)

(* The run ahead range is not empty and starts above zero, and the ring is *)
(* longer than what a machine keeps and hears of.                          *)
LEMMA Constants ==
  /\ MaxRunAhead \in Nat /\ FRAME_DATA_LENGTH \in Nat \ {0} /\ FRAMES_TO_KEEP \in Nat \ {0}
  /\ InitialRunAhead \in RunAheads /\ RunAheads \subseteq 1 .. MaxRunAhead
  /\ MaxRunAhead > 0
  /\ FRAMES_TO_KEEP + 2 * MaxRunAhead < FRAME_DATA_LENGTH
BY FramesAssumption
   DEF MaxRunAhead, FRAME_DATA_LENGTH, FRAMES_TO_KEEP, RunAheads, InitialRunAhead, Larger, Smaller

(* The frames a machine about to run frame f keeps or may hear of. *)
Window(f) == f - FRAMES_TO_KEEP .. f + 2 * MaxRunAhead

LEMMA SlotType == ASSUME NEW f \in Int PROVE Slot(f) \in Slots
BY Constants, Division DEF Slot, Slots

(* No two frames of a window share a slot. *)
LEMMA SameSlot ==
  ASSUME NEW f \in Int, NEW a \in Window(f), NEW b \in Window(f), Slot(a) = Slot(b)
  PROVE  a = b
<1>1. a \in Int /\ b \in Int
  BY Constants DEF Window
<1>2. a - b < FRAME_DATA_LENGTH /\ b - a < FRAME_DATA_LENGTH
  BY <1>1, Constants DEF Window
<1>3. FRAME_DATA_LENGTH \in Nat \ {0} /\ a % FRAME_DATA_LENGTH = b % FRAME_DATA_LENGTH
  BY Constants DEF Slot
<1> QED BY <1>1, <1>2, <1>3, SameRemainder

(* A part of a finite set that has all its members is the whole of it. *)
LEMMA FullSubset ==
  ASSUME NEW S, NEW T, IsFiniteSet(T), S \subseteq T, Cardinality(S) = Cardinality(T)
  PROVE  S = T
BY FS_Subset

-----------------------------------------------------------------------------
(* The inductive invariant. *)

(* What has been issued: numbered, well formed, never for a closed frame,  *)
(* and within the reach of the run ahead.                                  *)
IssuedInv ==
  \A q \in Players :
    /\ IsFiniteSet(issued[q])
    /\ \A c \in issued[q] :
         /\ c.player = q /\ c.type # "FRAMEINFO" /\ c.id <= nextID[q]
         /\ c.frame > 0 /\ c.frame <= lastExec[q]
         /\ c.type = "RUNAHEAD" => c.arg \in RunAheads
         /\ \A d \in issued[q] : c.id = d.id => c = d

(* How far the machines and their closed frames can be apart. *)
PaceInv ==
  \A p \in Players :
    /\ lastFrame[p] <= frame[p]
    /\ lastDone[p] >= InitialRunAhead - 1
    /\ lastDone[p] <= lastExec[p]
    /\ status[p] = "INGAME" => lastDone[p] < lastExec[p]
    /\ lastExec[p] <= frame[p] + MaxRunAhead
    /\ lastDone[p] < frame[p] + MaxRunAhead
    /\ status[p] = "INGAME" /\ Ticked(p) => frame[p] <= lastDone[p]
    /\ status[p] = "PREGAME" =>
         /\ issued[p] = {} /\ executed[p][0] = {}
         /\ frame[p] <= 1 /\ lastExec[p] < runAhead[p]
    /\ \A q \in Players : frame[p] <= lastDone[q] + 1

(* Messages say what was issued, and never return to their origin. *)
NetInv ==
  \A m \in net :
    /\ m.dst # m.cmd.player /\ m.cmd.player \notin m.relay
    /\ IF m.cmd.type = "FRAMEINFO"
       THEN /\ m.cmd.frame > 0 /\ m.cmd.frame <= lastDone[m.cmd.player]
            /\ m.cmd.arg = Cardinality(IssuedFor(m.cmd.player, m.cmd.frame))
       ELSE m.cmd \in issued[m.cmd.player]

(* Slot s of q's frame data on machine p. *)
SlotOK(p, q, s) ==
  LET d == frameData[p][q][s]
  IN  /\ d.commandCount = Cardinality(d.commandList)
      /\ \A c \in d.commandList :
           c \in issued[q] /\ Slot(c.frame) = s /\ c.frame >= frame[p] - FRAMES_TO_KEEP
      /\ IF p = q
         THEN /\ d.frameCommandCount = d.commandCount
              /\ \A c \in issued[q] :
                   Slot(c.frame) = s /\ c.frame >= frame[p] - FRAMES_TO_KEEP => c \in d.commandList
         ELSE d.frameCommandCount # -1 =>
                \E f \in 1 .. lastDone[q] :
                  /\ Slot(f) = s /\ f >= frame[p] - FRAMES_TO_KEEP
                  /\ d.frameCommandCount = Cardinality(IssuedFor(q, f))

RingInv == \A p, q \in Players : \A s \in Slots : SlotOK(p, q, s)

(* Together: an inductive invariant of the lockstep core. *)
IInv == TypeOK /\ IssuedInv /\ PaceInv /\ NetInv /\ RingInv /\ Agreement /\ NoResend

-----------------------------------------------------------------------------
(* Consequences of the invariant in a state. *)

LEMMA IssuedForFinite ==
  ASSUME IssuedInv, NEW q \in Players, NEW f
  PROVE  /\ IsFiniteSet(IssuedFor(q, f)) /\ Cardinality(IssuedFor(q, f)) \in Nat
         /\ IssuedFor(q, f) \subseteq issued[q]
<1>1. IsFiniteSet(issued[q]) /\ IssuedFor(q, f) \subseteq issued[q]
  BY DEF IssuedInv, IssuedFor
<1>2. IsFiniteSet(IssuedFor(q, f))
  BY <1>1, FS_Subset
<1> QED BY <1>1, <1>2, FS_CardinalityType

LEMMA Types ==
  ASSUME TypeOK, NEW p \in Players
  PROVE  /\ frame[p] \in Nat /\ frame[p] <= MaxFrame /\ lastExec[p] \in Nat /\ lastDone[p] \in Nat
         /\ lastFrame[p] \in Nat /\ nextID[p] \in Nat
         /\ runAhead[p] \in Nat /\ runAhead[p] >= 1 /\ runAhead[p] <= MaxRunAhead
         /\ runAhead[p] \in RunAheads
<1>1. frame[p] \in 0 .. MaxFrame /\ MaxFrame \in Nat
  BY BoundsAssumption DEF TypeOK
<1>2. runAhead[p] \in RunAheads
  BY DEF TypeOK
<1>3. runAhead[p] \in 1 .. MaxRunAhead
  BY <1>2, Constants
<1>4. lastExec[p] \in Nat /\ lastDone[p] \in Nat /\ lastFrame[p] \in Nat /\ nextID[p] \in Nat
  BY DEF TypeOK
<1> QED BY <1>1, <1>2, <1>3, <1>4, Constants

LEMMA MessageTypes ==
  ASSUME TypeOK, NEW m \in net
  PROVE  m.cmd \in NetCommand /\ m.cmd.player \in Players /\ m.cmd.frame \in Nat
         /\ m.cmd.frame \in Int /\ m.cmd.arg \in Nat
BY DEF TypeOK, Message, NetCommand

(* No machine is ahead of another by more than the run ahead, and nobody   *)
(* issues beyond the window of any machine.                                *)
LEMMA Reach ==
  ASSUME TypeOK, PaceInv, NEW p \in Players, NEW q \in Players
  PROVE  /\ frame[q] <= frame[p] + MaxRunAhead
         /\ lastDone[q] <= lastExec[q]
         /\ lastExec[q] <= frame[q] + MaxRunAhead
         /\ lastExec[q] <= frame[p] + 2 * MaxRunAhead
         /\ frame[p] <= lastDone[q] + 1
<1>1. frame[q] <= lastDone[p] + 1 /\ lastDone[p] < frame[p] + MaxRunAhead
  BY DEF PaceInv
<1>2. lastExec[q] <= frame[q] + MaxRunAhead /\ lastDone[q] <= lastExec[q]
      /\ frame[p] <= lastDone[q] + 1
  BY DEF PaceInv
<1> QED BY <1>1, <1>2, Types, Constants

(* The execution frame is open, and the run ahead reaches it. *)
LEMMA ExecutionFrameOpen ==
  ASSUME TypeOK, PaceInv, NEW p \in Players
  PROVE  /\ ExecutionFrame(p) \in Nat
         /\ ExecutionFrame(p) >= lastExec[p]
         /\ ExecutionFrame(p) >= frame[p] + 1
         /\ ExecutionFrame(p) <= frame[p] + MaxRunAhead
         /\ ExecutionFrame(p) = Larger(ExecutionFrame(p), frame[p] + runAhead[p])
         /\ status[p] = "INGAME" => ExecutionFrame(p) > lastDone[p]
<1>1. lastExec[p] <= frame[p] + MaxRunAhead
  BY DEF PaceInv
<1>2. status[p] = "INGAME" => lastDone[p] < lastExec[p]
  BY DEF PaceInv
<1> QED BY <1>1, <1>2, Types, Constants DEF ExecutionFrame, Larger

(* What a slot holds was issued, and is finite. *)
LEMMA ListFinite ==
  ASSUME IssuedInv, RingInv, NEW p \in Players, NEW q \in Players, NEW s \in Slots
  PROVE  /\ IsFiniteSet(frameData[p][q][s].commandList)
         /\ Cardinality(frameData[p][q][s].commandList) \in Nat
         /\ frameData[p][q][s].commandList \subseteq issued[q]
<1>1. frameData[p][q][s].commandList \subseteq issued[q]
  BY DEF RingInv, SlotOK
<1>2. IsFiniteSet(issued[q])
  BY DEF IssuedInv
<1>3. IsFiniteSet(frameData[p][q][s].commandList)
  BY <1>1, <1>2, FS_Subset
<1> QED BY <1>1, <1>3, FS_CardinalityType

(* A machine's slot of a frame in its window holds only what was issued    *)
(* for that frame.                                                         *)
LEMMA SlotOfFrame ==
  ASSUME TypeOK, IssuedInv, PaceInv, RingInv, NEW p \in Players, NEW q \in Players,
         NEW f \in Window(frame[p])
  PROVE  frameData[p][q][Slot(f)].commandList \subseteq IssuedFor(q, f)
<1>1. Slot(f) \in Slots
  BY SlotType, Types, Constants DEF Window
<1>2. SUFFICES ASSUME NEW c \in frameData[p][q][Slot(f)].commandList PROVE c \in IssuedFor(q, f)
  OBVIOUS
<1>3. c \in issued[q] /\ Slot(c.frame) = Slot(f) /\ c.frame >= frame[p] - FRAMES_TO_KEEP
  BY <1>1 DEF RingInv, SlotOK
<1>4. c.frame \in Nat /\ c.frame <= lastExec[q]
  BY <1>3 DEF TypeOK, NetCommand, IssuedInv
<1>5. c.frame \in Window(frame[p])
  BY <1>3, <1>4, Reach, Types, Constants DEF Window
<1>6. c.frame = f
  BY <1>3, <1>5, SameSlot, Types
<1> QED BY <1>3, <1>6 DEF IssuedFor

(* The machine's own slot of such a frame holds all of it. *)
LEMMA OwnSlot ==
  ASSUME TypeOK, IssuedInv, PaceInv, RingInv, NEW p \in Players,
         NEW f \in Window(frame[p])
  PROVE  /\ frameData[p][p][Slot(f)].commandList = IssuedFor(p, f)
         /\ frameData[p][p][Slot(f)].commandCount = Cardinality(IssuedFor(p, f))
<1>1. Slot(f) \in Slots
  BY SlotType, Types, Constants DEF Window
<1>2. f >= frame[p] - FRAMES_TO_KEEP
  BY Types, Constants DEF Window
<1>3. IssuedFor(p, f) \subseteq frameData[p][p][Slot(f)].commandList
  BY <1>1, <1>2 DEF RingInv, SlotOK, IssuedFor
<1>4. frameData[p][p][Slot(f)].commandList = IssuedFor(p, f)
  BY <1>3, SlotOfFrame
<1> QED BY <1>1, <1>4 DEF RingInv, SlotOK

(* A slot with as many commands as its count holds exactly the commands    *)
(* issued for the frame, which its player has closed.                      *)
LEMMA ReadySlot ==
  ASSUME IInv, NEW p \in Players, NEW q \in Players,
         status[p] = "INGAME", Ticked(p),
         FrameReady(frameData[p][q][Slot(frame[p])])
  PROVE  /\ frameData[p][q][Slot(frame[p])].commandList = IssuedFor(q, frame[p])
         /\ frame[p] <= lastDone[q]
<1> DEFINE d == frameData[p][q][Slot(frame[p])]
<1>1. frame[p] \in Window(frame[p]) /\ Slot(frame[p]) \in Slots
  BY SlotType, Types, Constants DEF Window, IInv
<1>2. CASE p = q
  BY <1>1, <1>2, OwnSlot DEF IInv, PaceInv
<1>3. CASE p # q
  <2>1. SlotOK(p, q, Slot(frame[p]))
    BY <1>1 DEF IInv, RingInv
  <2>2. d.frameCommandCount = Cardinality(d.commandList) /\ Cardinality(d.commandList) \in Nat
    BY <1>1, <2>1, ListFinite DEF IInv, SlotOK, FrameReady
  <2>3. PICK f \in 1 .. lastDone[q] :
          /\ Slot(f) = Slot(frame[p]) /\ f >= frame[p] - FRAMES_TO_KEEP
          /\ d.frameCommandCount = Cardinality(IssuedFor(q, f))
    BY <1>3, <2>1, <2>2 DEF SlotOK
  <2>4. f \in Window(frame[p])
    BY <2>3, Reach, Types, Constants DEF Window, IInv
  <2>5. f = frame[p]
    BY <1>1, <2>3, <2>4, SameSlot, Types DEF IInv
  <2>6. d.commandList \subseteq IssuedFor(q, frame[p])
    BY <1>1, SlotOfFrame DEF IInv
  <2>7. IsFiniteSet(IssuedFor(q, frame[p]))
    BY IssuedForFinite DEF IInv
  <2>8. d.commandList = IssuedFor(q, frame[p])
    BY <2>2, <2>3, <2>5, <2>6, <2>7, FullSubset
  <2> QED BY <2>3, <2>5, <2>8
<1> QED BY <1>2, <1>3

-----------------------------------------------------------------------------
(* The initial state. *)

LEMMA Initially == Init => IInv
<1> SUFFICES ASSUME Init PROVE IInv
  OBVIOUS
<1>1. InitialRunAhead \in Nat /\ InitialRunAhead >= 1 /\ InitialRunAhead <= MaxRunAhead
      /\ InitialRunAhead \in RunAheads
  BY Constants
<1>2. \A b \in BOOLEAN : InitialRing(b) \in [Slots -> FrameData]
  BY DEF InitialRing, ZeroData, ResetData, FrameData
<1>3. \A p, q \in Players, s \in Slots :
        /\ frameData[p][q][s].commandCount = 0 /\ frameData[p][q][s].commandList = {}
        /\ frameData[p][q][s].frameCommandCount =
             IF s \in 1 .. (InitialRunAhead - 1) \/ p = q THEN 0 ELSE -1
  BY DEF Init, InitialRing, ZeroData, ResetData
<1>4. TypeOK
  <2>1. frameData \in [Players -> [Players -> [Slots -> FrameData]]]
    BY <1>2 DEF Init
  <2>2. frame \in [Players -> 0 .. MaxFrame]
    BY BoundsAssumption DEF Init
  <2>3. runAhead \in [Players -> RunAheads] /\ lastFrame \in [Players -> Nat]
    BY <1>1 DEF Init
  <2>4. lastExec \in [Players -> Nat] /\ lastDone \in [Players -> Nat]
    BY <1>1 DEF Init
  <2>5. executed \in [Players -> [0 .. MaxFrame -> SUBSET NetCommand]]
    BY DEF Init
  <2> QED BY <2>1, <2>2, <2>3, <2>4, <2>5 DEF Init, TypeOK
<1>5. IssuedInv
  BY FS_EmptySet DEF Init, IssuedInv
<1>6. PaceInv
  <2>1. \A p \in Players : executed[p][0] = {}
    BY BoundsAssumption DEF Init
  <2>2. \A p \in Players : /\ frame[p] = 0 /\ lastFrame[p] = 0 /\ status[p] = "PREGAME"
                           /\ lastExec[p] = InitialRunAhead - 1 /\ lastDone[p] = InitialRunAhead - 1
                           /\ runAhead[p] = InitialRunAhead /\ issued[p] = {}
    BY DEF Init
  <2> QED BY <1>1, <2>1, <2>2, Constants DEF PaceInv
<1>7. NetInv
  BY DEF Init, NetInv
<1>8. RingInv
  <2> SUFFICES ASSUME NEW p \in Players, NEW q \in Players, NEW s \in Slots
               PROVE  SlotOK(p, q, s)
    BY DEF RingInv
  <2>1. issued[q] = {} /\ \A f : IssuedFor(q, f) = {}
    BY DEF Init, IssuedFor
  <2>2. s \in 1 .. (InitialRunAhead - 1) => Slot(s) = s /\ s \in 1 .. lastDone[q]
                                            /\ s >= frame[p] - FRAMES_TO_KEEP
    <3> SUFFICES ASSUME s \in 1 .. (InitialRunAhead - 1)
                 PROVE  Slot(s) = s /\ s \in 1 .. lastDone[q] /\ s >= frame[p] - FRAMES_TO_KEEP
      OBVIOUS
    <3>1. Slot(s) = s
      BY SmallRemainder, Constants DEF Slot, Slots
    <3>2. lastDone[q] = InitialRunAhead - 1 /\ frame[p] = 0
      BY DEF Init
    <3> QED BY <1>1, <3>1, <3>2, Constants
  <2>3. Cardinality({}) = 0 /\ \A f : Cardinality(IssuedFor(q, f)) = 0
    BY <2>1, FS_EmptySet
  <2>4. frameData[p][q][s].commandCount = Cardinality(frameData[p][q][s].commandList)
    BY <1>3, <2>3
  <2>5. CASE p = q
    BY <1>3, <2>1, <2>4, <2>5 DEF SlotOK
  <2>6. CASE p # q /\ s \in 1 .. (InitialRunAhead - 1)
    BY <1>3, <2>2, <2>3, <2>4, <2>6 DEF SlotOK
  <2>7. CASE p # q /\ s \notin 1 .. (InitialRunAhead - 1)
    BY <1>3, <2>4, <2>7 DEF SlotOK
  <2> QED BY <2>5, <2>6, <2>7
<1>9. Agreement /\ NoResend
  BY DEF Init, Agreement, NoResend
<1> QED BY <1>4, <1>5, <1>6, <1>7, <1>8, <1>9 DEF IInv

-----------------------------------------------------------------------------
(* Adding a command to a slot. *)

LEMMA AddType ==
  ASSUME NEW d \in FrameData, NEW c \in NetCommand, NEW isLocal \in BOOLEAN
  PROVE  /\ AddNetCommandMsg(d, c, isLocal) \in FrameData
         /\ [d EXCEPT !.frameCommandCount = c.arg] \in FrameData
<1>1. d.commandCount \in Nat /\ d.frameCommandCount \in Nat \cup {-1}
      /\ d.commandList \in SUBSET NetCommand /\ c.arg \in Nat
  BY DEF FrameData, NetCommand
<1>2. [d EXCEPT !.frameCommandCount = c.arg] \in FrameData
  BY <1>1 DEF FrameData
<1>3. [d EXCEPT !.commandList = @ \cup {c}, !.commandCount = @ + 1] \in FrameData
  <2>1. d.commandList \cup {c} \in SUBSET NetCommand /\ d.commandCount + 1 \in Nat
    BY <1>1
  <2> DEFINE l == d.commandList \cup {c}
             n == d.commandCount + 1
  <2> HIDE DEF l, n
  <2>2. [d EXCEPT !.commandList = l] \in FrameData
    BY <2>1 DEF l, FrameData
  <2>3. [d EXCEPT !.commandList = l, !.commandCount = n] \in FrameData
    BY <2>1, <2>2 DEF l, n, FrameData
  <2> QED BY <2>3 DEF l, n
<1>4. AddCommand(d, c) \in FrameData
  BY <1>3 DEF AddCommand
<1>5. AddCommand(d, c).commandCount \in Nat
  BY <1>4 DEF FrameData
<1>6. [AddCommand(d, c) EXCEPT !.frameCommandCount = AddCommand(d, c).commandCount] \in FrameData
  BY <1>4, <1>5 DEF FrameData
<1> QED BY <1>2, <1>4, <1>6 DEF AddNetCommandMsg

(* A command of those issued is added once, and counted. *)
LEMMA Added ==
  ASSUME NEW d \in FrameData, NEW c \in NetCommand, NEW isLocal \in BOOLEAN,
         IsFiniteSet(d.commandList), d.commandCount = Cardinality(d.commandList),
         \A e \in d.commandList : SameCommand(e, c) => e = c
  PROVE  LET a == AddNetCommandMsg(d, c, isLocal)
         IN  /\ a.commandList = d.commandList \cup {c}
             /\ a.commandCount = Cardinality(a.commandList)
             /\ a.frameCommandCount = IF isLocal THEN a.commandCount ELSE d.frameCommandCount
<1>1. CASE \E e \in d.commandList : SameCommand(e, c)
  <2>1. c \in d.commandList
    BY <1>1
  <2> QED BY <1>1, <2>1 DEF AddNetCommandMsg, AddCommand, FrameData
<1>2. CASE ~\E e \in d.commandList : SameCommand(e, c)
  <2>1. c \notin d.commandList
    BY <1>2 DEF SameCommand
  <2>2. Cardinality(d.commandList \cup {c}) = d.commandCount + 1
    BY <2>1, FS_AddElement
  <2> QED BY <1>2, <2>2 DEF AddNetCommandMsg, AddCommand, FrameData
<1> QED BY <1>1, <1>2

-----------------------------------------------------------------------------
(* One lemma per action. *)

(* A machine in the game issues a command for its execution frame. *)
LEMMA Issuing ==
  ASSUME IInv, NEW p \in Players, status[p] = "INGAME",
         NEW type \in {"GAMECOMMAND", "RUNAHEAD"}, NEW arg \in Nat,
         type = "RUNAHEAD" => arg \in RunAheads,
         SendCommand(p, type, ExecutionFrame(p), arg),
         lastExec' = [lastExec EXCEPT ![p] = ExecutionFrame(p)],
         UNCHANGED <<frame, status, runAhead, lastFrame, lastDone, resends, executed>>
  PROVE  IInv'
<1> DEFINE exec == ExecutionFrame(p)
           cmd  == [type |-> type, player |-> p, id |-> nextID[p] + 1,
                    frame |-> exec, arg |-> arg]
           s0   == Slot(exec)
<1>1. /\ TypeOK /\ IssuedInv /\ PaceInv /\ NetInv /\ RingInv /\ Agreement /\ NoResend
  BY DEF IInv
<1>2. /\ exec \in Nat /\ exec >= lastExec[p] /\ exec >= frame[p] + 1
      /\ exec <= frame[p] + MaxRunAhead /\ exec > lastDone[p]
  BY <1>1, ExecutionFrameOpen
<1>3. /\ nextID' = [nextID EXCEPT ![p] = @ + 1]
      /\ frameData' = StoreLocal(p, cmd)
      /\ net' = net \cup LocalCommand(p, cmd, Players)
      /\ issued' = [issued EXCEPT ![p] = @ \cup {cmd}]
  BY DEF SendCommand
<1>4. cmd \in NetCommand /\ s0 \in Slots
  BY <1>1, <1>2, Types, SlotType DEF NetCommand
<1>5. \A q \in Players : issued[q] \subseteq issued'[q] /\ (q # p => issued'[q] = issued[q])
  BY <1>1, <1>3 DEF TypeOK
<1>6. issued'[p] = issued[p] \cup {cmd} /\ cmd \notin issued[p]
  BY <1>1, <1>3, Types DEF TypeOK, IssuedInv
<1>7. \A q \in Players, f \in Int : (q # p \/ f # exec) => IssuedFor(q, f)' = IssuedFor(q, f)
  BY <1>5, <1>6 DEF IssuedFor
<1>8. \A q \in Players, f \in Int : f <= lastDone[q] => IssuedFor(q, f)' = IssuedFor(q, f)
  BY <1>2, <1>7, <1>1, Types
<1> HIDE DEF exec
<1>10. TypeOK'
  <2>1. nextID' \in [Players -> Nat] /\ lastExec' \in [Players -> Nat]
    BY <1>1, <1>2, <1>3 DEF TypeOK, exec
  <2>2. issued' \in [Players -> SUBSET NetCommand]
    BY <1>1, <1>3, <1>4 DEF TypeOK
  <2>3. frameData' \in [Players -> [Players -> [Slots -> FrameData]]]
    <3>1. frameData[p][p][s0] \in FrameData
      BY <1>1, <1>4 DEF TypeOK
    <3>2. AddNetCommandMsg(frameData[p][p][s0], cmd, TRUE) \in FrameData
      BY <3>1, <1>4, AddType
    <3>3. frameData' = [frameData EXCEPT ![p][p][s0] =
                          AddNetCommandMsg(frameData[p][p][s0], cmd, TRUE)]
      BY <1>3 DEF StoreLocal
    <3> HIDE DEF cmd, s0
    <3> QED BY <1>1, <1>4, <3>2, <3>3 DEF TypeOK
  <2>4. net' \subseteq Message
    BY <1>1, <1>3, <1>4, PlayersAssumption DEF TypeOK, LocalCommand, Message
  <2> QED BY <1>1, <2>1, <2>2, <2>3, <2>4 DEF TypeOK
<1>11. IssuedInv'
  <2> SUFFICES ASSUME NEW q \in Players PROVE IssuedInv!(q)'
    BY DEF IssuedInv
  <2>1. CASE q # p
    BY <1>1, <1>3, <1>5, <2>1 DEF IssuedInv, TypeOK
  <2>2. CASE q = p
    <3>1. IsFiniteSet(issued'[q])
      BY <1>1, <1>6, <2>2, FS_AddElement DEF IssuedInv
    <3>2. nextID'[p] = nextID[p] + 1 /\ lastExec'[p] = exec
      BY <1>1, <1>3 DEF TypeOK, exec
    <3>3. \A c \in issued[p] : c.id \in Nat /\ c.frame \in Nat
      BY <1>1 DEF TypeOK, NetCommand
    <3>4. \A c \in issued[p] : c.player = p /\ c.type # "FRAMEINFO" /\ c.id <= nextID[p]
             /\ c.frame > 0 /\ c.frame <= lastExec[p] /\ (c.type = "RUNAHEAD" => c.arg \in RunAheads)
             /\ \A d \in issued[p] : c.id = d.id => c = d
      BY <1>1 DEF IssuedInv
    <3> QED BY <1>1, <1>2, <1>6, <2>2, <3>1, <3>2, <3>3, <3>4, Types
  <2> QED BY <2>1, <2>2
<1>12. PaceInv'
  <2>1. lastExec'[p] = exec /\ \A q \in Players \ {p} : lastExec'[q] = lastExec[q]
    BY <1>1 DEF TypeOK, exec
  <2>2. status[p] # "PREGAME" /\ \A q \in Players : Ticked(q)' = Ticked(q)
    BY DEF Ticked
  <2>3. lastDone[p] < exec
    BY <1>1, <1>2, Types
  <2> QED BY <1>1, <1>2, <1>5, <2>1, <2>2, <2>3, Types DEF PaceInv
<1>13. NetInv'
  <2> SUFFICES ASSUME NEW m \in net' PROVE NetInv!(m)'
    BY DEF NetInv
  <2>1. CASE m \in net
    <3>1. m.cmd.player \in Players /\ m.cmd.frame \in Int
      BY <1>1, <2>1 DEF TypeOK, Message, NetCommand
    <3> QED BY <1>1, <1>5, <1>8, <2>1, <3>1 DEF NetInv
  <2>2. CASE m \in LocalCommand(p, cmd, Players)
    BY <1>6, <2>2 DEF LocalCommand
  <2> QED BY <1>3, <2>1, <2>2
<1>14. RingInv'
  <2> SUFFICES ASSUME NEW a \in Players, NEW q \in Players, NEW s \in Slots
               PROVE  SlotOK(a, q, s)'
    BY DEF RingInv
  <2>1. SlotOK(a, q, s)
    BY <1>1 DEF RingInv
  <2>2. CASE a = p /\ q = p /\ s = s0
    <3> DEFINE d == frameData[p][p][s0]
    <3>1. d \in FrameData
      BY <1>1, <1>4 DEF TypeOK
    <3>2. frameData'[a][q][s] = AddNetCommandMsg(d, cmd, TRUE)
      BY <1>1, <1>3, <1>4, <2>2 DEF StoreLocal, TypeOK
    <3>3. \A e \in d.commandList : ~SameCommand(e, cmd)
      <4>1. \A e \in d.commandList : e \in issued[p] /\ e.id <= nextID[p] /\ e.id \in Nat
        <5>1. d.commandList \subseteq issued[p]
          BY <1>1, <1>4, ListFinite
        <5>2. \A e \in issued[p] : e.id <= nextID[p]
          BY <1>1 DEF IssuedInv
        <5>3. \A e \in issued[p] : e.id \in Nat
          BY <1>1 DEF TypeOK, NetCommand
        <5> QED BY <5>1, <5>2, <5>3
      <4> QED BY <1>1, <4>1, Types DEF SameCommand
    <3>4. frameData'[a][q][s].commandList = d.commandList \cup {cmd}
          /\ frameData'[a][q][s].commandCount = Cardinality(frameData'[a][q][s].commandList)
          /\ frameData'[a][q][s].frameCommandCount = frameData'[a][q][s].commandCount
      <4>1. IsFiniteSet(d.commandList) /\ d.commandCount = Cardinality(d.commandList)
        BY <1>1, <1>4, <2>1, <2>2, ListFinite DEF SlotOK
      <4> HIDE DEF d, cmd
      <4> QED BY <1>4, <3>1, <3>2, <3>3, <4>1, Added
    <3>5. cmd.frame = exec /\ exec >= frame[p] - FRAMES_TO_KEEP
      BY <1>1, <1>2, Types, Constants
    <3> HIDE DEF cmd
    <3> QED BY <1>5, <1>6, <2>1, <2>2, <3>4, <3>5 DEF SlotOK
  <2>3. CASE ~(a = p /\ q = p /\ s = s0)
    <3>1. frameData'[a][q][s] = frameData[a][q][s]
      BY <1>1, <1>3, <1>4, <2>3 DEF StoreLocal, TypeOK
    <3>2. CASE a = q
      <4>1. q = p => Slot(cmd.frame) # s
        BY <2>3, <3>2
      <4> HIDE DEF cmd
      <4> QED BY <1>5, <1>6, <2>1, <3>1, <3>2, <4>1 DEF SlotOK
    <3>3. CASE a # q
      <4>1. \A f \in 1 .. lastDone[q] : IssuedFor(q, f)' = IssuedFor(q, f)
        BY <1>1, <1>8, Types
      <4> QED BY <1>5, <2>1, <3>1, <3>3, <4>1 DEF SlotOK
    <3> QED BY <3>2, <3>3
  <2> QED BY <2>2, <2>3
<1>15. Agreement'
  <2> SUFFICES ASSUME NEW a \in Players, NEW f \in 0 .. frame[a] - 1
               PROVE  executed[a][f] = UNION {IssuedFor(q, f)' : q \in Players}
    BY DEF Agreement
  <2>1. \A q \in Players : f \in Int /\ f <= lastDone[q]
    BY <1>1, Reach, Types
  <2>2. \A q \in Players : IssuedFor(q, f)' = IssuedFor(q, f)
    BY <1>8, <2>1
  <2> QED BY <1>1, <2>2 DEF Agreement
<1>16. NoResend'
  BY <1>1 DEF NoResend
<1> QED BY <1>10, <1>11, <1>12, <1>13, <1>14, <1>15, <1>16 DEF IInv

LEMMA Issues == ASSUME IInv, NEW p \in Players, IssueCommand(p) PROVE IInv'
<1>1. 0 \in Nat /\ "GAMECOMMAND" \in {"GAMECOMMAND", "RUNAHEAD"}
  OBVIOUS
<1> QED BY <1>1, Issuing DEF IssueCommand

LEMMA Updates == ASSUME IInv, NEW p \in Players, UpdateRunAhead(p) PROVE IInv'
<1>1. PICK ra \in RunAheads :
        SendCommand(p, "RUNAHEAD", Larger(ExecutionFrame(p), frame[p] + runAhead[p]), ra)
  BY DEF UpdateRunAhead
<1>2. Larger(ExecutionFrame(p), frame[p] + runAhead[p]) = ExecutionFrame(p)
  BY ExecutionFrameOpen DEF IInv
<1>3. SendCommand(p, "RUNAHEAD", ExecutionFrame(p), ra)
  BY <1>1, <1>2
<1>4. ra \in Nat /\ "RUNAHEAD" \in {"GAMECOMMAND", "RUNAHEAD"}
  BY Constants
<1> QED BY <1>3, <1>4, Issuing DEF UpdateRunAhead

(* Closing frames: the counts that go out are those of everything issued.  *)
LEMMA Ticking == ASSUME IInv, NEW p \in Players, FrameTick(p) PROVE IInv'
<1> DEFINE exec == ExecutionFrame(p)
           Info(f) == [type |-> "FRAMEINFO", player |-> p, id |-> 0, frame |-> f,
                       arg |-> frameData[p][p][Slot(f)].commandCount]
<1>1. /\ TypeOK /\ IssuedInv /\ PaceInv /\ NetInv /\ RingInv /\ Agreement /\ NoResend
  BY DEF IInv
<1>2. /\ exec \in Nat /\ exec >= lastExec[p] /\ exec >= frame[p] + 1
      /\ exec <= frame[p] + MaxRunAhead
  BY <1>1, ExecutionFrameOpen
<1>3. exec > lastDone[p]
  <2>1. CASE status[p] = "INGAME"
    BY <1>1, <2>1, ExecutionFrameOpen
  <2>2. CASE status[p] = "PREGAME" /\ frame[p] = 1
    <3>1. lastDone[p] <= lastExec[p] /\ lastExec[p] < runAhead[p]
      BY <1>1, <2>2 DEF PaceInv
    <3> QED BY <1>1, <2>2, <3>1, Types DEF exec, ExecutionFrame, Larger
  <2> QED BY <2>1, <2>2 DEF FrameTick
<1>4. /\ status' = [status EXCEPT ![p] = "INGAME"]
      /\ lastExec' = [lastExec EXCEPT ![p] = exec]
      /\ lastDone' = [lastDone EXCEPT ![p] = exec - 1]
      /\ lastFrame' = [lastFrame EXCEPT ![p] = frame[p]]
      /\ net' = net \cup UNION {LocalCommand(p, Info(f), Players \ {p}) :
                                  f \in lastDone[p] + 1 .. exec - 1}
      /\ UNCHANGED <<frame, runAhead, nextID, frameData, resends, issued, executed>>
  <2>1. Larger(lastDone[p], exec - 1) = exec - 1
    BY <1>1, <1>2, <1>3, Types DEF Larger
  <2> HIDE DEF exec
  <2> QED BY <2>1 DEF FrameTick, exec
<1>5. \A q \in Players : lastDone[q] <= lastDone'[q] /\ lastExec[q] <= lastExec'[q]
                         /\ lastDone'[q] \in Nat /\ lastExec'[q] \in Nat
  <2> TAKE q \in Players
  <2> HIDE DEF exec
  <2>1. CASE q = p
    <3>1. lastDone'[q] = exec - 1 /\ lastExec'[q] = exec
      BY <1>1, <1>4, <2>1 DEF TypeOK
    <3> QED BY <1>1, <1>2, <1>3, <2>1, <3>1, Types
  <2>2. CASE q # p
    <3>1. lastDone'[q] = lastDone[q] /\ lastExec'[q] = lastExec[q]
      BY <1>1, <1>4, <2>2 DEF TypeOK
    <3> QED BY <1>1, <3>1, Types
  <2> QED BY <2>1, <2>2
<1>6. \A q \in Players, f \in Int : IssuedFor(q, f)' = IssuedFor(q, f)
  BY <1>4 DEF IssuedFor
<1>7. \A f \in lastDone[p] + 1 .. exec - 1 :
        /\ f \in Nat /\ f > 0 /\ f <= lastDone'[p]
        /\ frameData[p][p][Slot(f)].commandCount = Cardinality(IssuedFor(p, f))
  <2> TAKE f \in lastDone[p] + 1 .. exec - 1
  <2>1. f \in Nat /\ f > 0 /\ f <= lastDone'[p]
    BY <1>1, <1>2, <1>4, Types DEF TypeOK
  <2>2. f \in Window(frame[p])
    BY <1>1, <1>2, Reach, Types, Constants DEF Window
  <2> QED BY <1>1, <2>1, <2>2, OwnSlot
<1> HIDE DEF exec
<1>10. TypeOK'
  <2>1. lastExec' \in [Players -> Nat] /\ lastDone' \in [Players -> Nat]
        /\ status' \in [Players -> {"PREGAME", "INGAME"}] /\ lastFrame' \in [Players -> Nat]
    BY <1>1, <1>2, <1>3, <1>4, Types DEF TypeOK
  <2>2. net' \subseteq Message
    <3>1. \A f \in lastDone[p] + 1 .. exec - 1 : Info(f) \in NetCommand
      BY <1>1, <1>7, IssuedForFinite DEF NetCommand
    <3>2. \A f \in lastDone[p] + 1 .. exec - 1 :
             LocalCommand(p, Info(f), Players \ {p}) \subseteq Message
      <4> HIDE DEF Info
      <4> QED BY <3>1, PlayersAssumption DEF LocalCommand, Message
    <3> HIDE DEF Info
    <3> QED BY <1>1, <1>4, <3>2 DEF TypeOK
  <2> QED BY <1>1, <1>4, <2>1, <2>2 DEF TypeOK
<1>11. IssuedInv'
  <2> SUFFICES ASSUME NEW q \in Players PROVE IssuedInv!(q)'
    BY DEF IssuedInv
  <2>1. \A c \in issued[q] : c.frame \in Nat /\ c.frame <= lastExec'[q]
    <3>1. \A c \in issued[q] : c.frame \in Nat /\ c.frame <= lastExec[q]
      BY <1>1 DEF IssuedInv, TypeOK, NetCommand
    <3> QED BY <1>1, <1>5, <3>1, Types
  <2> QED BY <1>1, <1>4, <2>1 DEF IssuedInv
<1>12. PaceInv'
  <2> SUFFICES ASSUME NEW a \in Players PROVE PaceInv!(a)'
    BY DEF PaceInv
  <2>1. CASE a = p
    <3>1. status'[a] = "INGAME" /\ lastExec'[a] = exec /\ lastDone'[a] = exec - 1
          /\ lastFrame'[a] = frame[a]
      BY <1>1, <1>4, <2>1 DEF TypeOK
    <3>2. lastDone[p] >= InitialRunAhead - 1
      BY <1>1 DEF PaceInv
    <3>3. \A q \in Players : frame[a]' <= lastDone'[q] + 1
      BY <1>1, <1>4, <1>5, Types DEF PaceInv
    <3> QED BY <1>1, <1>2, <1>3, <1>4, <2>1, <3>1, <3>2, <3>3, Types, Constants DEF Ticked
  <2>2. CASE a # p
    <3>1. status'[a] = status[a] /\ lastExec'[a] = lastExec[a] /\ lastDone'[a] = lastDone[a]
          /\ lastFrame'[a] = lastFrame[a]
      BY <1>1, <1>4, <2>2 DEF TypeOK
    <3>2. \A q \in Players : frame[a]' <= lastDone'[q] + 1
      BY <1>1, <1>4, <1>5, Types DEF PaceInv
    <3> QED BY <1>1, <1>4, <2>2, <3>1, <3>2 DEF PaceInv, Ticked
  <2> QED BY <2>1, <2>2
<1>13. NetInv'
  <2> SUFFICES ASSUME NEW m \in net' PROVE NetInv!(m)'
    BY DEF NetInv
  <2>1. CASE m \in net
    <3>1. m.cmd.player \in Players /\ m.cmd.frame \in Int /\ m.cmd.frame \in Nat
      BY <1>1, <2>1 DEF TypeOK, Message, NetCommand
    <3>2. m.cmd.type = "FRAMEINFO" => m.cmd.frame <= lastDone'[m.cmd.player]
      BY <1>1, <1>5, <2>1, <3>1, Types DEF NetInv
    <3> QED BY <1>1, <1>4, <1>6, <2>1, <3>1, <3>2 DEF NetInv
  <2>2. ASSUME NEW f \in lastDone[p] + 1 .. exec - 1, m \in LocalCommand(p, Info(f), Players \ {p})
        PROVE  NetInv!(m)'
    <3>1. m.cmd = Info(f) /\ m.dst # p /\ p \notin m.relay
      BY <2>2 DEF LocalCommand
    <3>2. m.cmd.type = "FRAMEINFO" /\ m.cmd.player = p /\ m.cmd.frame = f
          /\ m.cmd.arg = Cardinality(IssuedFor(p, f))
      BY <1>7, <3>1
    <3> QED BY <1>6, <1>7, <3>1, <3>2
  <2> QED BY <1>4, <2>1, <2>2
<1>14. RingInv'
  <2> SUFFICES ASSUME NEW a \in Players, NEW q \in Players, NEW s \in Slots
               PROVE  SlotOK(a, q, s)'
    BY DEF RingInv
  <2>1. SlotOK(a, q, s)
    BY <1>1 DEF RingInv
  <2>2. 1 .. lastDone[q] \subseteq 1 .. lastDone'[q]
    BY <1>1, <1>5, Types
  <2>3. \A f \in 1 .. lastDone[q] : IssuedFor(q, f)' = IssuedFor(q, f)
    BY <1>6
  <2> QED BY <1>4, <2>1, <2>2, <2>3 DEF SlotOK
<1>15. Agreement'
  <2>1. \A q \in Players, a \in Players : \A f \in 0 .. frame[a] - 1 :
           IssuedFor(q, f)' = IssuedFor(q, f)
    BY <1>1, <1>6, Types
  <2> QED BY <1>1, <1>4, <2>1 DEF Agreement
<1>16. NoResend'
  BY <1>1, <1>4 DEF NoResend
<1> QED BY <1>10, <1>11, <1>12, <1>13, <1>14, <1>15, <1>16 DEF IInv

(* The slot a message goes to, as it is once the message is taken. *)
Slot0(m)    == Slot(m.cmd.frame)
Target(p, m) == frameData[p][m.cmd.player][Slot0(m)]
Taken(p, m) ==
  IF m.cmd.type = "FRAMEINFO" THEN [Target(p, m) EXCEPT !.frameCommandCount = m.cmd.arg]
  ELSE IF p \in m.relay THEN AddNetCommandMsg(Target(p, m), m.cmd, FALSE)
  ELSE Target(p, m)

(* Taking a message: the slot it goes to is about its frame, keeps what it *)
(* has, and does not hold more than its count; nothing else is touched.    *)
LEMMA Delivered ==
  ASSUME IInv, NEW p \in Players, NEW m \in net, Deliver(p, m)
  PROVE  /\ p # m.cmd.player /\ m.cmd.player \in Players /\ Slot0(m) \in Slots
         /\ Taken(p, m) \in FrameData
         /\ Taken(p, m).commandList \subseteq IssuedFor(m.cmd.player, m.cmd.frame)
         /\ Taken(p, m).commandCount = Cardinality(Taken(p, m).commandList)
         /\ Taken(p, m).frameCommandCount # -1 =>
              /\ m.cmd.frame \in 1 .. lastDone[m.cmd.player]
              /\ Taken(p, m).frameCommandCount =
                    Cardinality(IssuedFor(m.cmd.player, m.cmd.frame))
         /\ Target(p, m).commandList \subseteq Taken(p, m).commandList
         /\ Target(p, m).frameCommandCount # -1 =>
              Taken(p, m).frameCommandCount = Target(p, m).frameCommandCount
         /\ \A q \in Players, s \in Slots : ~(q = m.cmd.player /\ s = Slot0(m)) =>
              frameData'[p][q][s] = frameData[p][q][s]
         /\ frameData'[p][m.cmd.player][Slot0(m)] = Taken(p, m)
         /\ \A a \in Players \ {p} : frameData'[a] = frameData[a]
         /\ frameData' \in [Players -> [Players -> [Slots -> FrameData]]]
         /\ net' = net \cup {[dst |-> i, relay |-> {i}, cmd |-> m.cmd] : i \in m.relay \ {p}}
         /\ UNCHANGED <<frame, status, runAhead, lastFrame, lastExec, lastDone, nextID,
                        resends, issued, executed>>
<1> DEFINE c == m.cmd
           g == c.frame
           s0 == Slot(g)
           d == frameData[p][c.player][s0]
           e == IF c.type = "FRAMEINFO" THEN [d EXCEPT !.frameCommandCount = c.arg]
                ELSE IF p \in m.relay THEN AddNetCommandMsg(d, c, FALSE)
                ELSE d
           noted == [frameData[p] EXCEPT ![c.player][s0] = e]
<1>1. /\ TypeOK /\ IssuedInv /\ PaceInv /\ NetInv /\ RingInv /\ Agreement /\ NoResend
  BY DEF IInv
<1>2. /\ m.dst = p /\ Ticked(p) /\ g >= frame[p]
      /\ UNCHANGED <<frame, local, issued, executed>>
  BY DEF Deliver
<1>3. /\ c \in NetCommand /\ c.player \in Players /\ g \in Nat /\ m \in Message
      /\ c.arg \in Nat /\ m.relay \subseteq Players
  BY <1>1 DEF TypeOK, Message, NetCommand
<1>4. p # c.player /\ c.player \notin m.relay
      /\ IF c.type = "FRAMEINFO"
         THEN g > 0 /\ g <= lastDone[c.player] /\ c.arg = Cardinality(IssuedFor(c.player, g))
         ELSE c \in issued[c.player]
  BY <1>1, <1>2 DEF NetInv
<1>5. s0 \in Slots /\ d \in FrameData
  BY <1>1, <1>3, SlotType DEF TypeOK
<1>6. g \in Window(frame[p])
  <2>1. g <= lastExec[c.player]
    BY <1>1, <1>3, <1>4, Reach, Types DEF IssuedInv
  <2> QED BY <1>1, <1>2, <1>3, <2>1, Reach, Types, Constants DEF Window
<1>7. d.commandList \subseteq IssuedFor(c.player, g)
  BY <1>1, <1>3, <1>6, SlotOfFrame
<1>8. SlotOK(p, c.player, s0)
  BY <1>1, <1>3, <1>5 DEF RingInv
<1>9. /\ IsFiniteSet(d.commandList) /\ d.commandCount = Cardinality(d.commandList)
      /\ d.commandCount \in Nat
  BY <1>1, <1>3, <1>5, <1>8, ListFinite DEF SlotOK
<1>10. \A f \in Nat : Slot(f) = s0 /\ f >= frame[p] - FRAMES_TO_KEEP /\ f <= lastDone[c.player]
                      => f = g
  <2> TAKE f \in Nat
  <2>1. HAVE Slot(f) = s0 /\ f >= frame[p] - FRAMES_TO_KEEP /\ f <= lastDone[c.player]
  <2>2. f \in Window(frame[p])
    BY <1>1, <1>3, <2>1, Reach, Types, Constants DEF Window
  <2>3. Slot(f) = Slot(g) /\ frame[p] \in Int
    BY <1>1, <2>1, Types
  <2> HIDE DEF g
  <2> QED BY <1>6, <2>2, <2>3, SameSlot
<1>11. e \in FrameData
  BY <1>3, <1>5, AddType
<1>12. /\ e.commandList \subseteq IssuedFor(c.player, g)
       /\ e.commandCount = Cardinality(e.commandList)
  <2>1. CASE c.type = "FRAMEINFO"
    BY <1>5, <1>7, <1>9, <2>1 DEF FrameData
  <2>2. CASE c.type # "FRAMEINFO" /\ p \in m.relay
    <3>1. c \in IssuedFor(c.player, g)
      BY <1>4, <2>2 DEF IssuedFor
    <3>2. \A x \in d.commandList : SameCommand(x, c) => x = c
      BY <1>1, <1>3, <1>4, <1>7, <2>2 DEF IssuedFor, SameCommand, IssuedInv
    <3>3. e.commandList = d.commandList \cup {c} /\ e.commandCount = Cardinality(e.commandList)
      <4> HIDE DEF c, d
      <4> QED BY <1>3, <1>5, <1>9, <2>2, <3>2, Added
    <3> QED BY <1>7, <3>1, <3>3
  <2>3. CASE c.type # "FRAMEINFO" /\ p \notin m.relay
    BY <1>7, <1>9, <2>3
  <2> QED BY <2>1, <2>2, <2>3
<1>13. e.frameCommandCount # -1 =>
         /\ g \in 1 .. lastDone[c.player]
         /\ e.frameCommandCount = Cardinality(IssuedFor(c.player, g))
  <2>1. CASE c.type = "FRAMEINFO"
    BY <1>1, <1>3, <1>4, <1>5, <2>1, Types DEF FrameData
  <2>2. CASE c.type # "FRAMEINFO"
    <3>1. e.frameCommandCount = d.frameCommandCount
      <4>1. CASE p \in m.relay
        <5>1. \A x \in d.commandList : SameCommand(x, c) => x = c
          BY <1>1, <1>3, <1>4, <1>7, <2>2 DEF IssuedFor, SameCommand, IssuedInv
        <5> HIDE DEF c, d
        <5> QED BY <1>3, <1>5, <1>9, <2>2, <4>1, <5>1, Added
      <4>2. CASE p \notin m.relay
        BY <2>2, <4>2
      <4> QED BY <4>1, <4>2
    <3>2. d.frameCommandCount # -1 =>
            \E f \in 1 .. lastDone[c.player] :
              /\ Slot(f) = s0 /\ f >= frame[p] - FRAMES_TO_KEEP
              /\ d.frameCommandCount = Cardinality(IssuedFor(c.player, f))
      BY <1>4, <1>8 DEF SlotOK
    <3>3. \A f \in 1 .. lastDone[c.player] : f \in Nat /\ f <= lastDone[c.player]
      BY <1>1, <1>3, Types
    <3> QED BY <1>10, <3>1, <3>2, <3>3
  <2> QED BY <2>1, <2>2
<1>14. ~FrameResend(e)
  <2>1. IsFiniteSet(IssuedFor(c.player, g)) /\ Cardinality(IssuedFor(c.player, g)) \in Nat
    BY <1>1, <1>3, IssuedForFinite
  <2>2. Cardinality(e.commandList) <= Cardinality(IssuedFor(c.player, g))
        /\ Cardinality(e.commandList) \in Nat
    BY <1>12, <2>1, FS_Subset, FS_CardinalityType
  <2> HIDE DEF e
  <2> QED BY <1>12, <1>13, <2>1, <2>2 DEF FrameResend
<1>15. noted \in [Players -> [Slots -> FrameData]]
  <2> HIDE DEF e
  <2> QED BY <1>1, <1>3, <1>5, <1>11 DEF TypeOK
<1>16. /\ noted[c.player][s0] = e
       /\ \A q \in Players, s \in Slots :
            ~(q = c.player /\ s = s0) => noted[q][s] = frameData[p][q][s]
  <2> HIDE DEF e
  <2> QED BY <1>1, <1>3, <1>5 DEF TypeOK
<1>17. \A f \in Nat : Overfull(noted, f) = {}
  <2> SUFFICES ASSUME NEW q \in Players, NEW s1 \in Slots, FrameResend(frameData[p][q][s1])
               PROVE  FALSE
    <3>1. \A q \in Players, s \in Slots : ~FrameResend(noted[q][s])
      <4> HIDE DEF noted, e, d, s0
      <4> QED BY <1>14, <1>16
    <3> HIDE DEF noted
    <3> QED BY <3>1, SlotType DEF Overfull
  <2> DEFINE x == frameData[p][q][s1]
  <2>1. SlotOK(p, q, s1) /\ x \in FrameData
    BY <1>1 DEF RingInv, TypeOK
  <2>2. CASE p = q
    <3>1. x.frameCommandCount = x.commandCount /\ x.commandCount \in Nat
      BY <2>1, <2>2 DEF SlotOK, FrameData
    <3> QED BY <3>1 DEF FrameResend
  <2>3. CASE p # q
    <3>1. PICK f \in 1 .. lastDone[q] :
            /\ Slot(f) = s1 /\ f >= frame[p] - FRAMES_TO_KEEP
            /\ x.frameCommandCount = Cardinality(IssuedFor(q, f))
      BY <2>1, <2>3 DEF SlotOK, FrameResend
    <3>2. f \in Window(frame[p])
      BY <1>1, <3>1, Reach, Types, Constants DEF Window
    <3>3. x.commandList \subseteq IssuedFor(q, f)
      BY <1>1, <3>1, <3>2, SlotOfFrame
    <3>4. Cardinality(x.commandList) <= x.frameCommandCount
      BY <1>1, <3>1, <3>3, IssuedForFinite, FS_Subset
    <3>5. x.commandCount = Cardinality(x.commandList) /\ x.commandCount \in Nat
      BY <1>1, <2>1, ListFinite DEF SlotOK
    <3> QED BY <2>1, <3>4, <3>5 DEF FrameResend, FrameData
  <2> QED BY <2>2, <2>3
<1>18. /\ frameData' = [frameData EXCEPT ![p] = noted]
       /\ resends' = resends
       /\ net' = net \cup {[dst |-> i, relay |-> {i}, cmd |-> c] : i \in m.relay \ {p}}
  <2>1. Noted(p, m) = noted
    BY <1>4 DEF Noted
  <2>2. \A f \in Nat : AfterReadyTest(p, noted, f) = noted
    <3> HIDE DEF noted
    <3> QED BY <1>15, <1>17 DEF AfterReadyTest
  <2>3. RelayTested(p, m) = noted /\ frame[p] \in Nat
    <3> HIDE DEF noted
    <3> QED BY <1>1, <1>3, <2>1, <2>2, Types DEF RelayTested
  <2>4. /\ frameData' = [frameData EXCEPT ![p] =
                         IF status[p] = "INGAME" THEN AfterReadyTest(p, RelayTested(p, m), frame[p])
                                                 ELSE RelayTested(p, m)]
        /\ resends' = resends
             \cup {<<p, q, g>> : q \in Overfull(Noted(p, m), g)}
             \cup {<<p, q, frame[p]>> : q \in {r \in Overfull(RelayTested(p, m), frame[p]) :
                                                 status[p] = "INGAME"}}
        /\ net' = net \cup {[dst |-> i, relay |-> {i}, cmd |-> c] : i \in m.relay \ {p}}
    BY DEF Deliver
  <2> HIDE DEF noted, c, g, s0
  <2>5. Overfull(Noted(p, m), g) = {} /\ Overfull(RelayTested(p, m), frame[p]) = {}
    BY <1>3, <1>17, <2>1, <2>3
  <2> QED BY <2>2, <2>3, <2>4, <2>5
<1>19. /\ \A q \in Players, s \in Slots : ~(q = c.player /\ s = s0) =>
            frameData'[p][q][s] = frameData[p][q][s]
       /\ frameData'[p][c.player][s0] = e
       /\ \A a \in Players \ {p} : frameData'[a] = frameData[a]
  <2> HIDE DEF noted, e
  <2> QED BY <1>1, <1>16, <1>18 DEF TypeOK
<1>20. UNCHANGED <<frame, status, runAhead, lastFrame, lastExec, lastDone, nextID,
                   resends, issued, executed>>
  BY <1>2, <1>18 DEF local
<1>21. /\ d.commandList \subseteq e.commandList
       /\ d.frameCommandCount # -1 => e.frameCommandCount = d.frameCommandCount
  <2>1. CASE c.type = "FRAMEINFO"
    <3>1. d.frameCommandCount # -1 => d.frameCommandCount = Cardinality(IssuedFor(c.player, g))
      <4>1. d.frameCommandCount # -1 =>
              \E f \in 1 .. lastDone[c.player] :
                /\ Slot(f) = s0 /\ f >= frame[p] - FRAMES_TO_KEEP
                /\ d.frameCommandCount = Cardinality(IssuedFor(c.player, f))
        BY <1>4, <1>8 DEF SlotOK
      <4>2. \A f \in 1 .. lastDone[c.player] : f \in Nat /\ f <= lastDone[c.player]
        BY <1>1, <1>3, Types
      <4> QED BY <1>10, <4>1, <4>2
    <3>2. e.commandList = d.commandList /\ e.frameCommandCount = c.arg
      BY <1>5, <2>1 DEF FrameData
    <3> QED BY <1>4, <2>1, <3>1, <3>2
  <2>2. CASE c.type # "FRAMEINFO" /\ p \in m.relay
    <3>1. \A x \in d.commandList : SameCommand(x, c) => x = c
      BY <1>1, <1>3, <1>4, <1>7, <2>2 DEF IssuedFor, SameCommand, IssuedInv
    <3> HIDE DEF c, d
    <3> QED BY <1>3, <1>5, <1>9, <2>2, <3>1, Added
  <2>3. CASE c.type # "FRAMEINFO" /\ p \notin m.relay
    BY <2>3
  <2> QED BY <2>1, <2>2, <2>3
<1>22. Slot0(m) = s0 /\ Target(p, m) = d /\ Taken(p, m) = e
  BY DEF Slot0, Target, Taken
<1>23. frameData' \in [Players -> [Players -> [Slots -> FrameData]]]
  <2> HIDE DEF noted
  <2> QED BY <1>1, <1>15, <1>18 DEF TypeOK
<1>24. g \in Nat => (e.frameCommandCount # -1 => g \in 1 .. lastDone[c.player])
  BY <1>13
<1> HIDE DEF e, d, s0, noted
<1> QED BY <1>3, <1>4, <1>5, <1>11, <1>12, <1>13, <1>18, <1>19, <1>20, <1>21, <1>22, <1>23

LEMMA Delivering ==
  ASSUME IInv, NEW p \in Players, NEW m \in net, Deliver(p, m) PROVE IInv'
<1> DEFINE c == m.cmd
           g == c.frame
           s0 == Slot0(m)
           e == Taken(p, m)
<1>1. /\ TypeOK /\ IssuedInv /\ PaceInv /\ NetInv /\ RingInv /\ Agreement /\ NoResend
  BY DEF IInv
<1>2. /\ m.dst = p /\ Ticked(p) /\ g >= frame[p]
  BY DEF Deliver
<1>3. /\ c \in NetCommand /\ c.player \in Players /\ g \in Nat /\ m \in Message
      /\ c.arg \in Nat /\ m.relay \subseteq Players
  BY <1>1 DEF TypeOK, Message, NetCommand
<1>4. p # c.player /\ c.player \notin m.relay
      /\ IF c.type = "FRAMEINFO"
         THEN g > 0 /\ g <= lastDone[c.player] /\ c.arg = Cardinality(IssuedFor(c.player, g))
         ELSE c \in issued[c.player]
  BY <1>1, <1>2 DEF NetInv
<1>5. s0 \in Slots /\ s0 = Slot(g)
  BY Delivered DEF Slot0
<1>12. /\ e.commandList \subseteq IssuedFor(c.player, g)
       /\ e.commandCount = Cardinality(e.commandList)
  BY Delivered
<1>13. e.frameCommandCount # -1 =>
         /\ g \in 1 .. lastDone[c.player]
         /\ e.frameCommandCount = Cardinality(IssuedFor(c.player, g))
  BY Delivered
<1>18. /\ frameData' \in [Players -> [Players -> [Slots -> FrameData]]]
       /\ net' = net \cup {[dst |-> i, relay |-> {i}, cmd |-> c] : i \in m.relay \ {p}}
  BY Delivered
<1>19. /\ \A q \in Players, s \in Slots : ~(q = c.player /\ s = s0) =>
            frameData'[p][q][s] = frameData[p][q][s]
       /\ frameData'[p][c.player][s0] = e
       /\ \A a \in Players \ {p} : frameData'[a] = frameData[a]
  BY Delivered
<1>20. UNCHANGED <<frame, status, runAhead, lastFrame, lastExec, lastDone, nextID,
                   resends, issued, executed>>
  BY Delivered
<1>21. \A q \in Players, f \in Int : IssuedFor(q, f)' = IssuedFor(q, f)
  BY <1>20 DEF IssuedFor
<1> HIDE DEF s0, e
<1>30. TypeOK'
  <2>1. frameData' \in [Players -> [Players -> [Slots -> FrameData]]]
    BY <1>18
  <2>2. net' \subseteq Message
    BY <1>1, <1>3, <1>18 DEF TypeOK, Message
  <2> QED BY <1>1, <1>20, <2>1, <2>2 DEF TypeOK
<1>31. IssuedInv'
  BY <1>1, <1>20 DEF IssuedInv
<1>32. PaceInv'
  BY <1>1, <1>20 DEF PaceInv, Ticked
<1>33. NetInv'
  <2> SUFFICES ASSUME NEW n \in net' PROVE NetInv!(n)'
    BY DEF NetInv
  <2>1. CASE n \in net
    <3>1. n.cmd.player \in Players /\ n.cmd.frame \in Int
      BY <1>1, <2>1, MessageTypes
    <3> QED BY <1>1, <1>20, <1>21, <2>1, <3>1 DEF NetInv
  <2>2. ASSUME NEW i \in m.relay \ {p}, n = [dst |-> i, relay |-> {i}, cmd |-> c]
        PROVE  NetInv!(n)'
    <3>1. n.dst # c.player /\ n.cmd = c /\ c.player \notin n.relay
      BY <1>4, <2>2
    <3> QED BY <1>3, <1>4, <1>20, <1>21, <3>1
  <2> QED BY <1>18, <2>1, <2>2
<1>34. RingInv'
  <2> SUFFICES ASSUME NEW a \in Players, NEW q \in Players, NEW s \in Slots
               PROVE  SlotOK(a, q, s)'
    BY DEF RingInv
  <2>1. SlotOK(a, q, s)
    BY <1>1 DEF RingInv
  <2>2. CASE ~(a = p /\ q = c.player /\ s = s0)
    <3>1. frameData'[a][q][s] = frameData[a][q][s]
      BY <1>19, <2>2
    <3>2. \A f \in 1 .. lastDone[q] : IssuedFor(q, f)' = IssuedFor(q, f)
      BY <1>21
    <3> QED BY <1>20, <2>1, <3>1, <3>2 DEF SlotOK
  <2>3. CASE a = p /\ q = c.player /\ s = s0
    <3>1. frameData'[a][q][s] = e
      BY <1>19, <2>3
    <3>2. \A x \in e.commandList :
            x \in issued[q] /\ Slot(x.frame) = s /\ x.frame >= frame[p] - FRAMES_TO_KEEP
      BY <1>1, <1>2, <1>3, <1>5, <1>12, <2>3, Types, Constants DEF IssuedFor
    <3>3. e.frameCommandCount # -1 =>
            \E f \in 1 .. lastDone[q] :
              /\ Slot(f) = s /\ f >= frame[p] - FRAMES_TO_KEEP
              /\ e.frameCommandCount = Cardinality(IssuedFor(q, f)')
      <4>1. g >= frame[p] - FRAMES_TO_KEEP
        BY <1>1, <1>2, <1>3, Types, Constants
      <4>2. IssuedFor(q, g)' = IssuedFor(q, g)
        BY <1>3, <1>21
      <4> QED BY <1>5, <1>13, <2>3, <4>1, <4>2
    <3> QED BY <1>4, <1>12, <1>20, <2>3, <3>1, <3>2, <3>3 DEF SlotOK
  <2> QED BY <2>2, <2>3
<1>35. Agreement'
  <2>1. \A q \in Players, a \in Players : \A f \in 0 .. frame[a] - 1 :
           IssuedFor(q, f)' = IssuedFor(q, f)
    BY <1>1, <1>21, Types
  <2> QED BY <1>1, <1>20, <2>1 DEF Agreement
<1>36. NoResend'
  BY <1>1, <1>20 DEF NoResend
<1> QED BY <1>30, <1>31, <1>32, <1>33, <1>34, <1>35, <1>36 DEF IInv

(* Frame 0 is run without commands: none is ever issued for it. *)
LEMMA Starting == ASSUME IInv, NEW p \in Players, StartGame(p) PROVE IInv'
<1>1. /\ TypeOK /\ IssuedInv /\ PaceInv /\ NetInv /\ RingInv /\ Agreement /\ NoResend
  BY DEF IInv
<1>2. /\ status[p] = "PREGAME" /\ frame[p] = 0 /\ frame[p] < MaxFrame
      /\ frame' = [frame EXCEPT ![p] = 1]
      /\ UNCHANGED <<status, runAhead, lastFrame, lastExec, lastDone, nextID,
                     frameData, net, resends, issued, executed>>
  BY DEF StartGame, local
<1>3. frame'[p] = 1 /\ \A q \in Players \ {p} : frame'[q] = frame[q]
  BY <1>1, <1>2 DEF TypeOK
<1>4. \A q \in Players, f \in Int : IssuedFor(q, f)' = IssuedFor(q, f)
  BY <1>2 DEF IssuedFor
<1>5. \A c \in UNION {issued[q] : q \in Players} : c.frame \in Nat /\ c.frame > 0
  BY <1>1 DEF IssuedInv, TypeOK, NetCommand
<1>10. TypeOK'
  <2>1. 1 \in 0 .. MaxFrame
    BY <1>2, BoundsAssumption
  <2>2. frame' \in [Players -> 0 .. MaxFrame]
    BY <1>1, <1>2, <2>1 DEF TypeOK
  <2> QED BY <1>1, <1>2, <2>2 DEF TypeOK
<1>11. IssuedInv'
  BY <1>1, <1>2 DEF IssuedInv
<1>12. PaceInv'
  <2> SUFFICES ASSUME NEW a \in Players PROVE PaceInv!(a)'
    BY DEF PaceInv
  <2>1. CASE a = p
    <3>1. lastFrame[p] <= 0 /\ lastExec[p] <= 0 + MaxRunAhead /\ lastDone[p] < 0 + MaxRunAhead
      BY <1>1, <1>2 DEF PaceInv
    <3>2. \A q \in Players : lastDone[q] >= InitialRunAhead - 1 /\ lastDone[q] \in Nat
      BY <1>1, Types DEF PaceInv
    <3>3. InitialRunAhead \in Nat /\ InitialRunAhead >= 1
      BY Constants
    <3>4. /\ frame'[a] = 1 /\ status'[a] = "PREGAME" /\ issued'[a] = {} /\ executed'[a][0] = {}
          /\ lastDone[p] <= lastExec[p] /\ lastExec[p] < runAhead[p]
      BY <1>1, <1>2, <1>3, <2>1 DEF PaceInv
    <3> QED BY <1>1, <1>2, <2>1, <3>1, <3>2, <3>3, <3>4, Types, Constants
  <2>2. CASE a # p
    <3>1. frame'[a] = frame[a]
      BY <1>3, <2>2
    <3> QED BY <1>1, <1>2, <3>1 DEF PaceInv, Ticked
  <2> QED BY <2>1, <2>2
<1>13. NetInv'
  <2>1. \A m \in net : m.cmd.player \in Players /\ m.cmd.frame \in Int
    BY <1>1, MessageTypes
  <2> QED BY <1>1, <1>2, <1>4, <2>1 DEF NetInv
<1>14. RingInv'
  <2> SUFFICES ASSUME NEW a \in Players, NEW q \in Players, NEW s \in Slots
               PROVE  SlotOK(a, q, s)'
    BY DEF RingInv
  <2>1. SlotOK(a, q, s)
    BY <1>1 DEF RingInv
  <2>2. \A f \in 1 .. lastDone[q] : IssuedFor(q, f)' = IssuedFor(q, f)
    BY <1>4
  <2>3. CASE a # p
    <3>1. frame'[a] = frame[a]
      BY <1>3, <2>3
    <3> QED BY <1>2, <2>1, <2>2, <3>1 DEF SlotOK
  <2>4. CASE a = p
    <3>1. frame'[a] - FRAMES_TO_KEEP <= 0 /\ frame[a] - FRAMES_TO_KEEP <= 0
          /\ frame'[a] - FRAMES_TO_KEEP \in Int
      BY <1>2, <1>3, <2>4, Constants
    <3>2. \A c \in issued[q] : c.frame >= frame'[a] - FRAMES_TO_KEEP
                               /\ c.frame >= frame[a] - FRAMES_TO_KEEP
      BY <1>2, <1>5, <2>4, <3>1, Constants
    <3>3. \A f \in 1 .. lastDone[q] : f >= frame'[a] - FRAMES_TO_KEEP
      BY <1>1, <3>1, Types
    <3> QED BY <1>2, <2>1, <2>2, <3>2, <3>3 DEF SlotOK
  <2> QED BY <2>3, <2>4
<1>15. Agreement'
  <2> SUFFICES ASSUME NEW a \in Players, NEW f \in 0 .. frame'[a] - 1
               PROVE  executed[a][f] = UNION {IssuedFor(q, f)' : q \in Players}
    BY <1>2 DEF Agreement
  <2>1. f \in Int /\ \A q \in Players : IssuedFor(q, f)' = IssuedFor(q, f)
    BY <1>1, <1>3, <1>4, Types
  <2>2. CASE a = p
    <3>1. f = 0
      BY <1>3, <2>2
    <3>2. executed[p][0] = {}
      BY <1>1, <1>2 DEF PaceInv
    <3>3. \A q \in Players : IssuedFor(q, 0) = {}
      BY <1>5 DEF IssuedFor
    <3> QED BY <2>1, <2>2, <3>1, <3>2, <3>3
  <2>3. CASE a # p
    <3>1. f \in 0 .. frame[a] - 1
      BY <1>3, <2>3
    <3> QED BY <1>1, <2>1, <3>1 DEF Agreement
  <2> QED BY <2>2, <2>3
<1>16. NoResend'
  BY <1>1, <1>2 DEF NoResend
<1> QED BY <1>10, <1>11, <1>12, <1>13, <1>14, <1>15, <1>16 DEF IInv

(* The last run ahead command of a frame gives a run ahead of the range. *)
LEMMA NewRunAheadType ==
  ASSUME NEW old \in RunAheads, NEW cmds,
         \A c \in cmds : c.type = "RUNAHEAD" => c.arg \in RunAheads
  PROVE  NewRunAhead(old, cmds) \in RunAheads
<1>1. CASE LastChange(cmds) = {}
  BY <1>1 DEF NewRunAhead
<1>2. CASE LastChange(cmds) # {}
  <2>1. (CHOOSE c \in LastChange(cmds) : TRUE) \in LastChange(cmds)
    BY <1>2
  <2> QED BY <1>2, <2>1 DEF NewRunAhead, LastChange
<1> QED BY <1>1, <1>2

(* Running a frame: every machine has closed it, and its commands are those *)
(* of IssuedFor; the slot that leaves the window is emptied.                *)
LEMMA RunsAgreed ==
  ASSUME IInv, NEW p \in Players, RunFrame(p)
  PROVE  /\ FrameCommands(p, frame[p]) = UNION {IssuedFor(q, frame[p]) : q \in Players}
         /\ \A q \in Players : frame[p] <= lastDone[q]
<1>1. status[p] = "INGAME" /\ Ticked(p)
      /\ \A q \in Players : FrameReady(frameData[p][q][Slot(frame[p])])
  BY DEF RunFrame
<1>2. \A q \in Players : /\ frameData[p][q][Slot(frame[p])].commandList = IssuedFor(q, frame[p])
                         /\ frame[p] <= lastDone[q]
  BY <1>1, ReadySlot
<1> QED BY <1>2 DEF FrameCommands

LEMMA Running == ASSUME IInv, NEW p \in Players, RunFrame(p) PROVE IInv'
<1> DEFINE f == frame[p]
           cmds == FrameCommands(p, f)
           old == f - FRAMES_TO_KEEP
<1>1. /\ TypeOK /\ IssuedInv /\ PaceInv /\ NetInv /\ RingInv /\ Agreement /\ NoResend
  BY DEF IInv
<1>2. /\ status[p] = "INGAME" /\ Ticked(p) /\ f < MaxFrame
      /\ executed'  = [executed EXCEPT ![p][f] = cmds]
      /\ runAhead'  = [runAhead EXCEPT ![p] = NewRunAhead(@, cmds)]
      /\ frame'     = [frame EXCEPT ![p] = f + 1]
      /\ UNCHANGED <<status, lastFrame, lastExec, lastDone, nextID, net, resends, issued>>
  BY DEF RunFrame
<1>3. frame'[p] = f + 1 /\ \A a \in Players \ {p} : frame'[a] = frame[a]
  BY <1>1, <1>2 DEF TypeOK
<1>4. /\ cmds = UNION {IssuedFor(q, f) : q \in Players}
      /\ \A q \in Players : f <= lastDone[q]
  BY RunsAgreed
<1>5. f \in Nat /\ f + 1 \in 0 .. MaxFrame /\ f \in 0 .. MaxFrame
  BY <1>1, <1>2, Types, BoundsAssumption
<1>6. \A q \in Players, g \in Int : IssuedFor(q, g)' = IssuedFor(q, g)
  BY <1>2 DEF IssuedFor
<1>7. \A c \in UNION {issued[q] : q \in Players} : c \in NetCommand /\ c.frame \in Nat /\ c.frame > 0
  BY <1>1 DEF IssuedInv, TypeOK, NetCommand
<1>8. \A c \in cmds : c \in NetCommand /\ (c.type = "RUNAHEAD" => c.arg \in RunAheads)
  <2>1. \A c \in cmds : \E q \in Players : c \in issued[q]
    BY <1>4 DEF IssuedFor
  <2>2. \A q \in Players : \A c \in issued[q] : c \in NetCommand
    BY <1>1 DEF TypeOK
  <2>3. \A q \in Players : \A c \in issued[q] : c.type = "RUNAHEAD" => c.arg \in RunAheads
    BY <1>1 DEF IssuedInv
  <2> QED BY <2>1, <2>2, <2>3
<1>9. \A a, q \in Players, s \in Slots :
        frameData'[a][q][s] = IF a = p /\ f > FRAMES_TO_KEEP /\ s = Slot(old)
                              THEN ResetData(p = q) ELSE frameData[a][q][s]
  <2>1. CASE f > FRAMES_TO_KEEP
    <3>1. frameData' = [frameData EXCEPT ![p] = [q \in Players |->
                          [frameData[p][q] EXCEPT ![Slot(old)] = ResetData(p = q)]]]
      BY <2>1 DEF RunFrame
    <3>2. Slot(old) \in Slots
      BY <1>5, SlotType, Constants
    <3> HIDE DEF old, f
    <3> QED BY <1>1, <2>1, <3>1, <3>2 DEF TypeOK
  <2>2. CASE ~(f > FRAMES_TO_KEEP)
    BY <2>2 DEF RunFrame
  <2> QED BY <2>1, <2>2
<1>10. \A b \in BOOLEAN : ResetData(b) \in FrameData /\ ResetData(b).commandList = {}
          /\ ResetData(b).commandCount = 0
          /\ ResetData(b).frameCommandCount = IF b THEN 0 ELSE -1
  BY DEF ResetData, FrameData
<1>20. TypeOK'
  <2>1. frameData' \in [Players -> [Players -> [Slots -> FrameData]]]
    <3>1. CASE f > FRAMES_TO_KEEP
      <4>1. frameData' = [frameData EXCEPT ![p] = [q \in Players |->
                            [frameData[p][q] EXCEPT ![Slot(old)] = ResetData(p = q)]]]
        BY <3>1 DEF RunFrame
      <4>2. Slot(old) \in Slots
        BY <1>5, SlotType, Constants
      <4>3. \A q \in Players : [frameData[p][q] EXCEPT ![Slot(old)] = ResetData(p = q)]
                                 \in [Slots -> FrameData]
        <5> TAKE q \in Players
        <5>1. frameData[p][q] \in [Slots -> FrameData]
          BY <1>1 DEF TypeOK
        <5>2. ResetData(p = q) \in FrameData
          BY DEF ResetData, FrameData
        <5> HIDE DEF old, f
        <5> QED BY <4>2, <5>1, <5>2
      <4> HIDE DEF old, f
      <4> QED BY <1>1, <4>1, <4>3 DEF TypeOK
    <3>2. CASE ~(f > FRAMES_TO_KEEP)
      BY <1>1, <3>2 DEF RunFrame, TypeOK
    <3> QED BY <3>1, <3>2
  <2>2. executed' \in [Players -> [0 .. MaxFrame -> SUBSET NetCommand]]
    <3>1. cmds \in SUBSET NetCommand
      BY <1>8
    <3> HIDE DEF cmds, f
    <3> QED BY <1>1, <1>2, <1>5, <3>1 DEF TypeOK
  <2>3. runAhead' \in [Players -> RunAheads]
    <3>1. NewRunAhead(runAhead[p], cmds) \in RunAheads
      BY <1>1, <1>8, NewRunAheadType, Types
    <3> HIDE DEF cmds
    <3> QED BY <1>1, <1>2, <3>1 DEF TypeOK
  <2>4. frame' \in [Players -> 0 .. MaxFrame]
    BY <1>1, <1>2, <1>5 DEF TypeOK
  <2> QED BY <1>1, <1>2, <2>1, <2>2, <2>3, <2>4 DEF TypeOK
<1>21. IssuedInv'
  BY <1>1, <1>2 DEF IssuedInv
<1>22. PaceInv'
  <2> SUFFICES ASSUME NEW a \in Players PROVE PaceInv!(a)'
    BY DEF PaceInv
  <2>1. CASE a = p
    <3>1. /\ lastFrame[p] <= f /\ lastDone[p] >= InitialRunAhead - 1 /\ lastDone[p] <= lastExec[p]
          /\ lastDone[p] < lastExec[p] /\ lastExec[p] <= f + MaxRunAhead
          /\ lastDone[p] < f + MaxRunAhead /\ lastFrame[p] = f
      BY <1>1, <1>2 DEF PaceInv, Ticked
    <3> QED BY <1>1, <1>2, <1>3, <1>4, <1>5, <2>1, <3>1, Types, Constants DEF Ticked
  <2>2. CASE a # p
    <3>1. frame'[a] = frame[a] /\ runAhead'[a] = runAhead[a] /\ executed'[a] = executed[a]
      BY <1>1, <1>2, <1>3, <2>2 DEF TypeOK
    <3> QED BY <1>1, <1>2, <3>1 DEF PaceInv, Ticked
  <2> QED BY <2>1, <2>2
<1>23. NetInv'
  <2>1. \A m \in net : m.cmd.player \in Players /\ m.cmd.frame \in Int
    BY <1>1, MessageTypes
  <2> QED BY <1>1, <1>2, <1>6, <2>1 DEF NetInv
<1>24. RingInv'
  <2> SUFFICES ASSUME NEW a \in Players, NEW q \in Players, NEW s \in Slots
               PROVE  SlotOK(a, q, s)'
    BY DEF RingInv
  <2>1. SlotOK(a, q, s)
    BY <1>1 DEF RingInv
  <2>2. \A g \in 1 .. lastDone[q] : IssuedFor(q, g)' = IssuedFor(q, g)
    BY <1>6
  <2>3. CASE a # p
    <3>1. frame'[a] = frame[a] /\ frameData'[a][q][s] = frameData[a][q][s]
      BY <1>3, <1>9, <2>3
    <3> QED BY <1>2, <2>1, <2>2, <3>1 DEF SlotOK
  <2>4. CASE a = p /\ f > FRAMES_TO_KEEP /\ s = Slot(old)
    <3>1. frameData'[a][q][s] = ResetData(p = q)
      BY <1>9, <2>4
    <3>2. \A c \in issued[q] : ~(Slot(c.frame) = s /\ c.frame >= old + 1)
      <4> SUFFICES ASSUME NEW c \in issued[q], Slot(c.frame) = s, c.frame >= old + 1
                   PROVE  FALSE
        OBVIOUS
      <4>1. c.frame \in Nat /\ c.frame <= lastExec[q]
        BY <1>1, <1>7 DEF IssuedInv
      <4>2. c.frame \in Window(f) /\ old \in Window(f)
        BY <1>1, <1>5, <4>1, Reach, Types, Constants DEF Window
      <4>3. c.frame = old
        BY <1>5, <2>4, <4>2, SameSlot
      <4> QED BY <1>5, <4>1, <4>3, Constants
    <3>3. frame'[a] - FRAMES_TO_KEEP = old + 1
      BY <1>3, <1>5, <2>4, Constants
    <3>4. Cardinality({}) = 0
      BY FS_EmptySet
    <3> QED BY <1>2, <1>10, <2>4, <3>1, <3>2, <3>3, <3>4 DEF SlotOK
  <2>5. CASE a = p /\ ~(f > FRAMES_TO_KEEP /\ s = Slot(old))
    <3>1. frameData'[a][q][s] = frameData[a][q][s]
      BY <1>9, <2>5
    <3>2. frame'[a] - FRAMES_TO_KEEP = old + 1 /\ old \in Int
      BY <1>3, <1>5, <2>5, Constants
    <3>3. \A g \in Nat : g > 0 /\ Slot(g) = s /\ g >= old => g >= old + 1
      BY <1>5, <2>5, Constants
    <3>4. \A g \in Nat : g >= old + 1 => g >= old
      BY <3>2
    <3>5. \A c \in issued[q] : Slot(c.frame) = s =>
            (c.frame >= frame'[a] - FRAMES_TO_KEEP <=> c.frame >= frame[a] - FRAMES_TO_KEEP)
      BY <1>7, <2>5, <3>2, <3>3, <3>4
    <3>6. \A g \in 1 .. lastDone[q] : Slot(g) = s =>
            (g >= frame'[a] - FRAMES_TO_KEEP <=> g >= frame[a] - FRAMES_TO_KEEP)
      BY <1>1, <2>5, <3>2, <3>3, <3>4, Types
    <3> HIDE DEF old, f
    <3> QED BY <1>2, <2>1, <2>2, <3>1, <3>5, <3>6 DEF SlotOK
  <2> QED BY <2>3, <2>4, <2>5
<1>25. Agreement'
  <2> SUFFICES ASSUME NEW a \in Players, NEW g \in 0 .. frame'[a] - 1
               PROVE  executed'[a][g] = UNION {IssuedFor(q, g)' : q \in Players}
    BY DEF Agreement
  <2>1. g \in Int /\ \A q \in Players : IssuedFor(q, g)' = IssuedFor(q, g)
    BY <1>1, <1>3, <1>5, <1>6, Types
  <2>2. CASE a = p /\ g = f
    <3>1. executed'[a][g] = cmds
      BY <1>1, <1>2, <1>5, <2>2 DEF TypeOK
    <3> QED BY <1>4, <2>1, <2>2, <3>1
  <2>3. CASE ~(a = p /\ g = f)
    <3>1. g \in 0 .. frame[a] - 1
      BY <1>1, <1>3, <1>5, <2>3, Types
    <3>2. g \in 0 .. MaxFrame
      BY <1>1, <3>1, Types, BoundsAssumption
    <3>3. executed'[a][g] = executed[a][g]
      BY <1>1, <1>2, <2>3, <3>2 DEF TypeOK
    <3> QED BY <1>1, <2>1, <3>1, <3>3 DEF Agreement
  <2> QED BY <2>2, <2>3
<1>26. NoResend'
  BY <1>1, <1>2 DEF NoResend
<1> QED BY <1>20, <1>21, <1>22, <1>23, <1>24, <1>25, <1>26 DEF IInv

LEMMA Stuttering == ASSUME IInv, UNCHANGED vars PROVE IInv'
<1>1. /\ TypeOK /\ IssuedInv /\ PaceInv /\ NetInv /\ RingInv /\ Agreement /\ NoResend
      /\ UNCHANGED <<frame, status, runAhead, lastFrame, lastExec, lastDone, nextID,
                     frameData, net, resends, issued, executed>>
  BY DEF IInv, vars, local
<1>2. \A q, f : IssuedFor(q, f)' = IssuedFor(q, f)
  BY <1>1 DEF IssuedFor
<1>3. TypeOK' /\ IssuedInv' /\ PaceInv' /\ NoResend'
  BY <1>1 DEF TypeOK, IssuedInv, PaceInv, NoResend, Ticked
<1>4. NetInv' /\ Agreement'
  BY <1>1, <1>2 DEF NetInv, Agreement
<1>5. RingInv'
  BY <1>1, <1>2 DEF RingInv, SlotOK
<1> QED BY <1>3, <1>4, <1>5 DEF IInv

-----------------------------------------------------------------------------
(* The invariant, and what follows from it. *)

LEMMA Inductive == IInv /\ [Next]_vars => IInv'
<1> SUFFICES ASSUME IInv, [Next]_vars PROVE IInv'
  OBVIOUS
<1>1. ASSUME NEW p \in Players, Step(p) PROVE IInv'
  <2>1. CASE IssueCommand(p)
    BY <2>1, Issues
  <2>2. CASE FrameTick(p)
    BY <2>2, Ticking
  <2>3. CASE UpdateRunAhead(p)
    BY <2>3, Updates
  <2>4. CASE \E m \in net : Deliver(p, m)
    BY <2>4, Delivering
  <2>5. CASE StartGame(p)
    BY <2>5, Starting
  <2>6. CASE RunFrame(p)
    BY <2>6, Running
  <2> QED BY <1>1, <2>1, <2>2, <2>3, <2>4, <2>5, <2>6 DEF Step
<1>2. CASE UNCHANGED vars
  BY <1>2, Stuttering
<1> QED BY <1>1, <1>2 DEF Next, Finished

(* IInv holds in every state of every game. *)
THEOREM Invariant == Spec => []IInv
<1>1. Init => IInv
  BY Initially
<1>2. IInv /\ [Next]_vars => IInv'
  BY Inductive
<1> QED BY <1>1, <1>2, PTL DEF Spec

(* Every variable keeps its type. *)
THEOREM TypeCorrect == Spec => []TypeOK
<1>1. IInv => TypeOK
  BY DEF IInv
<1> QED BY <1>1, Invariant, PTL

(* No desync: what a machine ran on a frame is what all players issued for *)
(* it (Network::RelayCommandsToCommandList runs what FrameData holds).     *)
THEOREM AgreementHolds == Spec => []Agreement
<1>1. IInv => Agreement
  BY DEF IInv
<1> QED BY <1>1, Invariant, PTL

(* A count that went out (ConnectionManager::processFrameTick) is never    *)
(* outdated by a command issued later for the same frame.                  *)
THEOREM CountsStayFinal == Spec => []CountsAreFinal
<1>1. IInv => CountsAreFinal
  BY DEF IInv, NetInv, CountsAreFinal
<1> QED BY <1>1, Invariant, PTL

(* The ring of FrameDataManager is long enough: no slot holds commands of  *)
(* two frames.                                                             *)
THEOREM OneFramePerSlot == Spec => []SlotsHoldOneFrame
<1>1. IInv => SlotsHoldOneFrame
  <2> SUFFICES ASSUME IInv, NEW p \in Players, NEW q \in Players, NEW s \in Slots,
                      NEW c \in frameData[p][q][s].commandList,
                      NEW d \in frameData[p][q][s].commandList
               PROVE  c.frame = d.frame /\ c.frame >= frame[p] - FRAMES_TO_KEEP
    BY DEF SlotsHoldOneFrame
  <2>1. SlotOK(p, q, s)
    BY DEF IInv, RingInv
  <2>2. \A x \in {c, d} : /\ x \in issued[q] /\ Slot(x.frame) = s
                          /\ x.frame >= frame[p] - FRAMES_TO_KEEP
    BY <2>1 DEF SlotOK
  <2>3. \A x \in {c, d} : x.frame \in Nat /\ x.frame <= lastExec[q]
    BY <2>2 DEF IInv, TypeOK, NetCommand, IssuedInv
  <2>4. \A x \in {c, d} : x.frame \in Window(frame[p])
    BY <2>2, <2>3, Reach, Types, Constants DEF IInv, Window
  <2> QED BY <2>2, <2>4, SameSlot, Types DEF IInv
<1> QED BY <1>1, Invariant, PTL

(* Without leavers ConnectionManager::allCommandsReady never finds a frame *)
(* with too many commands.                                                 *)
THEOREM NeverResends == Spec => []NoResend
<1>1. IInv => NoResend
  BY DEF IInv
<1> QED BY <1>1, Invariant, PTL

(* What ConnectionManager::processNetCommand drops as out of date was run. *)
THEOREM DropsLoseNothing == Spec => []DroppedWasRun
<1>1. IInv => DroppedWasRun
  <2> SUFFICES ASSUME IInv, NEW m \in net, m.cmd.type # "FRAMEINFO",
                      m.cmd.frame < frame[m.dst]
               PROVE  m.cmd \in executed[m.dst][m.cmd.frame]
    BY DEF DroppedWasRun
  <2>1. m.dst \in Players /\ m.cmd.player \in Players /\ m.cmd.frame \in Nat
    BY DEF IInv, TypeOK, Message, NetCommand
  <2>2. m.cmd \in IssuedFor(m.cmd.player, m.cmd.frame)
    BY DEF IInv, NetInv, IssuedFor
  <2>3. m.cmd.frame \in 0 .. frame[m.dst] - 1
    BY <2>1, Types DEF IInv
  <2> QED BY <2>1, <2>2, <2>3 DEF IInv, Agreement
<1> QED BY <1>1, Invariant, PTL

(* Nobody is more than the largest run ahead in front of another machine.  *)
THEOREM SkewIsBounded == Spec => []BoundedSkew
<1>1. IInv => BoundedSkew
  BY Reach DEF IInv, BoundedSkew
<1> QED BY <1>1, Invariant, PTL

-----------------------------------------------------------------------------
(* What is taken in stays until the frame is run. *)

(* The frames asked about are in the window, below its end. *)
LEMMA Awaited ==
  ASSUME TypeOK, PaceInv, NEW p \in Players, NEW q \in Players,
         NEW f \in frame[p] .. lastExec[q]
  PROVE  f \in Window(frame[p]) /\ Slot(f) \in Slots
<1>1. f \in Window(frame[p])
  BY Reach, Types, Constants DEF Window
<1> QED BY <1>1, SlotType, Types, Constants DEF Window

LEMMA UnchangedKeeps ==
  ASSUME NEW p \in Players, NEW q \in Players, NEW f,
         frameData'[p][q][Slot(f)] = frameData[p][q][Slot(f)]
  PROVE  Keeps(p, q, f)
BY DEF Keeps

(* The machine's own slot only gains the command it issues. *)
LEMMA IssuingKeeps ==
  ASSUME IInv, NEW p \in Players, NEW type, NEW x \in Nat, NEW arg, SendCommand(p, type, x, arg),
         NEW a \in Players, NEW q \in Players, NEW f \in frame[a] .. lastExec[q]
  PROVE  Keeps(a, q, f)
<1> DEFINE cmd == [type |-> type, player |-> p, id |-> nextID[p] + 1, frame |-> x, arg |-> arg]
           s0  == Slot(x)
           d   == frameData[p][p][s0]
<1>1. frameData' = [frameData EXCEPT ![p][p][s0] = AddNetCommandMsg(d, cmd, TRUE)]
  BY DEF SendCommand, StoreLocal
<1>2. frameData \in [Players -> [Players -> [Slots -> FrameData]]] /\ s0 \in Slots
  BY SlotType, SMTT(20) DEF IInv, TypeOK
<1>3. Slot(f) \in Slots
  BY Awaited DEF IInv
<1>4. CASE a = p /\ q = p /\ Slot(f) = s0
  <2>1. frameData'[a][q][Slot(f)] = AddNetCommandMsg(d, cmd, TRUE)
    <3> HIDE DEF cmd, s0, d
    <3> QED BY <1>1, <1>2, <1>4
  <2>2. d \in FrameData
    BY <1>2
  <2>3. d.commandList \subseteq AddNetCommandMsg(d, cmd, TRUE).commandList
    <3> HIDE DEF cmd, d
    <3>1. AddCommand(d, cmd) = d \/ AddCommand(d, cmd) =
             [d EXCEPT !.commandList = @ \cup {cmd}, !.commandCount = @ + 1]
      BY DEF AddCommand
    <3>2. d.commandList \subseteq AddCommand(d, cmd).commandList
          /\ "frameCommandCount" # "commandList"
      BY <2>2, <3>1 DEF FrameData
    <3>3. AddCommand(d, cmd) \in [{"frameCommandCount", "commandCount", "commandList"} ->
             {AddCommand(d, cmd)[k] : k \in {"frameCommandCount", "commandCount", "commandList"}}]
      BY <2>2, <3>1 DEF FrameData
    <3> QED BY <3>2, <3>3 DEF AddNetCommandMsg
  <2> QED BY <1>4, <2>1, <2>3 DEF Keeps
<1>5. CASE ~(a = p /\ q = p /\ Slot(f) = s0)
  <2>1. frameData'[a][q][Slot(f)] = frameData[a][q][Slot(f)]
    <3> HIDE DEF cmd, s0, d
    <3> QED BY <1>1, <1>2, <1>3, <1>5
  <2> QED BY <2>1, UnchangedKeeps
<1> QED BY <1>4, <1>5

LEMMA DeliveringKeeps ==
  ASSUME IInv, NEW p \in Players, NEW m \in net, Deliver(p, m),
         NEW a \in Players, NEW q \in Players, NEW f \in frame[a] .. lastExec[q]
  PROVE  Keeps(a, q, f)
<1>1. Slot(f) \in Slots
  BY Awaited DEF IInv
<1>2. CASE a = p /\ q = m.cmd.player /\ Slot(f) = Slot0(m)
  <2>1. frameData'[a][q][Slot(f)] = Taken(p, m) /\ frameData[a][q][Slot(f)] = Target(p, m)
    BY <1>2, Delivered DEF Target
  <2>2. /\ Target(p, m).commandList \subseteq Taken(p, m).commandList
        /\ Target(p, m).frameCommandCount # -1 =>
              Taken(p, m).frameCommandCount = Target(p, m).frameCommandCount
    BY Delivered
  <2> QED BY <2>1, <2>2 DEF Keeps
<1>3. CASE ~(a = p /\ q = m.cmd.player /\ Slot(f) = Slot0(m))
  <2>1. \A b \in Players \ {p} : frameData'[b] = frameData[b]
    BY Delivered
  <2>2. \A b \in Players, s \in Slots : ~(b = m.cmd.player /\ s = Slot0(m)) =>
              frameData'[p][b][s] = frameData[p][b][s]
    BY Delivered
  <2>3. frameData'[a][q][Slot(f)] = frameData[a][q][Slot(f)]
    BY <1>1, <1>3, <2>1, <2>2
  <2> QED BY <2>3, UnchangedKeeps
<1> QED BY <1>2, <1>3

(* The slot that is emptied is that of the frame FRAMES_TO_KEEP back, which *)
(* none of the frames to come shares with it.                               *)
LEMMA RunningKeeps ==
  ASSUME IInv, NEW p \in Players, RunFrame(p),
         NEW a \in Players, NEW q \in Players, NEW f \in frame'[a] .. lastExec[q]
  PROVE  Keeps(a, q, f)
<1> DEFINE old == frame[p] - FRAMES_TO_KEEP
<1>1. frame[p] \in Nat /\ frame[a] \in Nat /\ lastExec[q] \in Nat
  BY Types DEF IInv
<1>2. frame' = [frame EXCEPT ![p] = frame[p] + 1]
  BY DEF RunFrame
<1>3. frame'[a] = IF a = p THEN frame[p] + 1 ELSE frame[a]
  BY <1>2 DEF IInv, TypeOK
<1>4. f \in frame[a] .. lastExec[q] /\ (a = p => f > frame[p])
  BY <1>1, <1>3
<1>5. f \in Window(frame[a]) /\ Slot(f) \in Slots
  BY <1>4, Awaited DEF IInv
<1>6. frameData'[a][q][Slot(f)] = frameData[a][q][Slot(f)]
  <2>1. CASE frame[p] > FRAMES_TO_KEEP
    <3>1. frameData' = [frameData EXCEPT ![p] = [b \in Players |->
                          [frameData[p][b] EXCEPT ![Slot(old)] = ResetData(p = b)]]]
      BY <2>1 DEF RunFrame
    <3>2. CASE a # p
      BY <3>1, <3>2 DEF IInv, TypeOK
    <3>3. CASE a = p
      <4>1. old \in Window(frame[p]) /\ old < f /\ f \in Window(frame[p])
        BY <1>1, <1>4, <1>5, <3>3, Constants DEF Window
      <4>2. Slot(old) # Slot(f)
        <5> HIDE DEF old
        <5>1. old # f /\ frame[p] \in Int
          BY <1>1, <4>1
        <5> QED BY <4>1, <5>1, SameSlot
      <4>3. frameData'[p] = [b \in Players |->
                          [frameData[p][b] EXCEPT ![Slot(old)] = ResetData(p = b)]]
        BY <3>1 DEF IInv, TypeOK
      <4> HIDE DEF old
      <4> QED BY <1>5, <3>3, <4>2, <4>3 DEF IInv, TypeOK
    <3> QED BY <3>2, <3>3
  <2>2. CASE ~(frame[p] > FRAMES_TO_KEEP)
    BY <2>2 DEF RunFrame
  <2> QED BY <2>1, <2>2
<1> QED BY <1>6, UnchangedKeeps

LEMMA NextKeeps ==
  ASSUME IInv, [Next]_vars, NEW a \in Players, NEW q \in Players,
         NEW f \in frame'[a] .. lastExec[q]
  PROVE  Keeps(a, q, f)
<1>1. ASSUME NEW p \in Players, Step(p) PROVE Keeps(a, q, f)
  <2>1. CASE IssueCommand(p)
    <3>1. f \in frame[a] .. lastExec[q] /\ SendCommand(p, "GAMECOMMAND", ExecutionFrame(p), 0)
      BY <2>1 DEF IssueCommand
    <3>2. ExecutionFrame(p) \in Nat
      BY ExecutionFrameOpen DEF IInv
    <3> QED BY <3>1, <3>2, IssuingKeeps
  <2>2. CASE FrameTick(p)
    BY <2>2, UnchangedKeeps DEF FrameTick
  <2>3. CASE UpdateRunAhead(p)
    <3>1. PICK ra \in RunAheads :
            SendCommand(p, "RUNAHEAD", Larger(ExecutionFrame(p), frame[p] + runAhead[p]), ra)
      BY <2>3 DEF UpdateRunAhead
    <3>2. SendCommand(p, "RUNAHEAD", ExecutionFrame(p), ra)
      BY <3>1, ExecutionFrameOpen DEF IInv
    <3>3. f \in frame[a] .. lastExec[q] /\ ExecutionFrame(p) \in Nat
      BY <2>3, ExecutionFrameOpen DEF IInv, UpdateRunAhead
    <3> QED BY <3>2, <3>3, IssuingKeeps
  <2>4. ASSUME NEW m \in net, Deliver(p, m) PROVE Keeps(a, q, f)
    <3>1. f \in frame[a] .. lastExec[q]
      BY <2>4 DEF Deliver
    <3> QED BY <2>4, <3>1, DeliveringKeeps
  <2>5. CASE StartGame(p)
    BY <2>5, UnchangedKeeps DEF StartGame
  <2>6. CASE RunFrame(p)
    BY <2>6, RunningKeeps
  <2> QED BY <1>1, <2>1, <2>2, <2>3, <2>4, <2>5, <2>6 DEF Step
<1>2. CASE UNCHANGED vars
  BY <1>2, UnchangedKeeps DEF vars
<1> QED BY <1>1, <1>2 DEF Next, Finished

(* A command or a count taken in is there when its frame is run, although  *)
(* the ring is reset behind every frame and a refused frame is dropped     *)
(* (FrameDataManager::resetFrame, ConnectionManager::allCommandsReady).    *)
THEOREM AcceptedStays == Spec => AcceptedIsKept
<1>1. IInv /\ [Next]_vars => [\A p, q \in Players : \A f \in frame'[p] .. lastExec[q] : Keeps(p, q, f)]_vars
  BY NextKeeps
<1> QED BY <1>1, Invariant, PTL DEF Spec, AcceptedIsKept

-----------------------------------------------------------------------------
(* Nobody waits in vain: what was issued, and the count of every closed    *)
(* frame, has been sent to everyone.                                       *)
SentInv ==
  \A p, q \in Players : p # q =>
    /\ \A c \in issued[q] : IsSentTo(p, c)
    /\ \A f \in InitialRunAhead .. lastDone[q] :
         \E m \in net : /\ m.cmd.type = "FRAMEINFO" /\ m.cmd.player = q
                         /\ m.cmd.frame = f /\ IsSentTo(p, m.cmd)

(* A player of the mask is reached by the router, or by way of it. *)
LEMMA MaskReaches ==
  ASSUME NEW q \in Players, NEW cmd, NEW relay, NEW p \in relay \ {q}
  PROVE  \E m \in LocalCommand(q, cmd, relay) :
            m.cmd = cmd /\ p \in m.relay /\ m.dst \in {p, PacketRouter}
<1>1. CASE q = PacketRouter
  <2>1. [dst |-> p, relay |-> {p}, cmd |-> cmd] \in LocalCommand(q, cmd, relay)
    BY <1>1 DEF LocalCommand
  <2> QED BY <2>1
<1>2. CASE q # PacketRouter
  <2>1. [dst |-> PacketRouter, relay |-> relay \ {q}, cmd |-> cmd] \in LocalCommand(q, cmd, relay)
    BY <1>2 DEF LocalCommand
  <2> QED BY <2>1
<1> QED BY <1>1, <1>2

LEMMA SentOnceForAll ==
  ASSUME SentInv, net \subseteq net', NEW p \in Players, NEW q \in Players, p # q
  PROVE  /\ \A c \in issued[q] : \E m \in net' : 
                m.cmd = c /\ p \in m.relay /\ m.dst \in {p, PacketRouter}
         /\ \A f \in InitialRunAhead .. lastDone[q] :
              \E m \in net' : /\ m.cmd.type = "FRAMEINFO" /\ m.cmd.player = q
                               /\ m.cmd.frame = f
                               /\ p \in m.relay /\ m.dst \in {p, PacketRouter}
<1>1. \A c \in issued[q] : IsSentTo(p, c)
  BY DEF SentInv
<1>2. \A f \in InitialRunAhead .. lastDone[q] :
         \E m \in net : /\ m.cmd.type = "FRAMEINFO" /\ m.cmd.player = q
                         /\ m.cmd.frame = f /\ IsSentTo(p, m.cmd)
  BY DEF SentInv
<1>3. ASSUME NEW f \in InitialRunAhead .. lastDone[q]
      PROVE  \E m \in net' : /\ m.cmd.type = "FRAMEINFO" /\ m.cmd.player = q
                              /\ m.cmd.frame = f
                              /\ p \in m.relay /\ m.dst \in {p, PacketRouter}
  <2>1. PICK m \in net : /\ m.cmd.type = "FRAMEINFO" /\ m.cmd.player = q
                         /\ m.cmd.frame = f /\ IsSentTo(p, m.cmd)
    BY <1>2
  <2>2. PICK n \in net : n.cmd = m.cmd /\ p \in n.relay /\ n.dst \in {p, PacketRouter}
    BY <2>1 DEF IsSentTo
  <2> QED BY <2>1, <2>2
<1> QED BY <1>1, <1>3 DEF IsSentTo

LEMMA SentInitially == Init => SentInv
<1> SUFFICES ASSUME Init, NEW p \in Players, NEW q \in Players, p # q
             PROVE  /\ issued[q] = {} /\ lastDone[q] = InitialRunAhead - 1
                    /\ InitialRunAhead \in Nat
  BY DEF SentInv
<1> QED BY Constants DEF Init

(* Steps that issue nothing and close nothing. *)
LEMMA SentAnyway ==
  ASSUME SentInv, net \subseteq net', UNCHANGED <<issued, lastDone>> PROVE SentInv'
BY SentOnceForAll DEF SentInv, IsSentTo

LEMMA IssuingSends ==
  ASSUME IInv, SentInv, NEW p \in Players, NEW type, NEW x, NEW arg,
         SendCommand(p, type, x, arg), UNCHANGED lastDone
  PROVE  SentInv'
<1> DEFINE cmd == [type |-> type, player |-> p, id |-> nextID[p] + 1, frame |-> x, arg |-> arg]
<1>1. /\ net' = net \cup LocalCommand(p, cmd, Players)
      /\ issued' = [issued EXCEPT ![p] = @ \cup {cmd}]
  BY DEF SendCommand
<1>2. net \subseteq net' /\ LocalCommand(p, cmd, Players) \subseteq net'
  BY <1>1
<1>3. \A b \in Players : issued'[b] = IF b = p THEN issued[b] \cup {cmd} ELSE issued[b]
  BY <1>1 DEF IInv, TypeOK
<1> SUFFICES ASSUME NEW a \in Players, NEW b \in Players, a # b
             PROVE  /\ \A c \in issued'[b] : IsSentTo(a, c)'
                    /\ \A f \in InitialRunAhead .. lastDone'[b] :
                         \E m \in net' : /\ m.cmd.type = "FRAMEINFO" /\ m.cmd.player = b
                                          /\ m.cmd.frame = f /\ IsSentTo(a, m.cmd)'
  BY DEF SentInv
<1>4. \A c \in issued'[b] : IsSentTo(a, c)'
  <2>1. ASSUME b = p PROVE \E m \in net' : m.cmd = cmd /\ a \in m.relay /\ m.dst \in {a, PacketRouter}
    <3> HIDE DEF cmd
    <3> QED BY <1>2, <2>1, MaskReaches
  <2>2. \A c \in issued[b] : \E m \in net' :
            m.cmd = c /\ a \in m.relay /\ m.dst \in {a, PacketRouter}
    BY <1>2, SentOnceForAll
  <2> SUFFICES ASSUME NEW c \in issued'[b]
               PROVE  \E m \in net' : m.cmd = c /\ a \in m.relay /\ m.dst \in {a, PacketRouter}
    BY DEF IsSentTo
  <2> HIDE DEF cmd
  <2>3. c \in issued[b] \/ (b = p /\ c = cmd)
    BY <1>3
  <2> QED BY <2>1, <2>2, <2>3
<1>5. \A f \in InitialRunAhead .. lastDone'[b] :
        \E m \in net' : /\ m.cmd.type = "FRAMEINFO" /\ m.cmd.player = b
                         /\ m.cmd.frame = f /\ IsSentTo(a, m.cmd)'
  BY <1>2, SentOnceForAll DEF IsSentTo
<1> QED BY <1>4, <1>5

LEMMA TickingSends ==
  ASSUME IInv, SentInv, NEW p \in Players, FrameTick(p) PROVE SentInv'
<1> DEFINE exec == ExecutionFrame(p)
           Info(f) == [type |-> "FRAMEINFO", player |-> p, id |-> 0, frame |-> f,
                       arg |-> frameData[p][p][Slot(f)].commandCount]
<1>1. /\ lastDone' = [lastDone EXCEPT ![p] = Larger(@, exec - 1)]
      /\ net' = net \cup UNION {LocalCommand(p, Info(f), Players \ {p}) :
                                  f \in lastDone[p] + 1 .. exec - 1}
      /\ UNCHANGED issued
  BY DEF FrameTick
<1>2. net \subseteq net' /\ \A f \in lastDone[p] + 1 .. exec - 1 :
                              LocalCommand(p, Info(f), Players \ {p}) \subseteq net'
  <2> HIDE DEF Info, exec
  <2> QED BY <1>1
<1>3. exec \in Nat /\ lastDone[p] \in Nat /\ InitialRunAhead \in Nat
  BY ExecutionFrameOpen, Types, Constants DEF IInv
<1>4. \A b \in Players : lastDone'[b] = IF b = p THEN Larger(lastDone[p], exec - 1) ELSE lastDone[b]
  <2> HIDE DEF exec
  <2> QED BY <1>1 DEF IInv, TypeOK
<1> HIDE DEF exec
<1> SUFFICES ASSUME NEW a \in Players, NEW b \in Players, a # b
             PROVE  /\ \A c \in issued'[b] : IsSentTo(a, c)'
                    /\ \A f \in InitialRunAhead .. lastDone'[b] :
                         \E m \in net' : /\ m.cmd.type = "FRAMEINFO" /\ m.cmd.player = b
                                          /\ m.cmd.frame = f /\ IsSentTo(a, m.cmd)'
  BY DEF SentInv
<1>5. \A c \in issued'[b] : IsSentTo(a, c)'
  <2>1. \A c \in issued[b] : \E m \in net' :
            m.cmd = c /\ a \in m.relay /\ m.dst \in {a, PacketRouter}
    BY <1>2, SentOnceForAll
  <2>2. issued'[b] = issued[b]
    BY <1>1
  <2> QED BY <2>1, <2>2 DEF IsSentTo
<1>6. ASSUME NEW f \in InitialRunAhead .. lastDone'[b]
      PROVE  \E m \in net' : /\ m.cmd.type = "FRAMEINFO" /\ m.cmd.player = b
                              /\ m.cmd.frame = f /\ IsSentTo(a, m.cmd)'
  <2>1. CASE f \in InitialRunAhead .. lastDone[b]
    BY <1>2, <2>1, SentOnceForAll DEF IsSentTo
  <2>2. CASE f \notin InitialRunAhead .. lastDone[b]
    <3>1. b = p /\ f \in lastDone[p] + 1 .. exec - 1
      BY <1>3, <1>4, <2>2 DEF Larger
    <3>2. a \in (Players \ {p}) \ {p}
      BY <3>1
    <3>3. \E m \in LocalCommand(p, Info(f), Players \ {p}) :
            m.cmd = Info(f) /\ a \in m.relay /\ m.dst \in {a, PacketRouter}
      <4> DEFINE info == Info(f)
                 others == Players \ {p}
      <4>1. a \in others \ {p}
        BY <3>2
      <4> HIDE DEF Info, info, others
      <4>2. \E m \in LocalCommand(p, info, others) :
              m.cmd = info /\ a \in m.relay /\ m.dst \in {a, PacketRouter}
        BY <4>1, MaskReaches
      <4> QED BY <4>2 DEF info, others
    <3>4. PICK m \in net' : m.cmd = Info(f) /\ a \in m.relay /\ m.dst \in {a, PacketRouter}
      <4> HIDE DEF Info
      <4> QED BY <1>2, <3>1, <3>3
    <3>5. m.cmd.type = "FRAMEINFO" /\ m.cmd.player = p /\ m.cmd.frame = f
      BY <3>4
    <3> QED BY <3>1, <3>4, <3>5 DEF IsSentTo
  <2> QED BY <2>1, <2>2
<1> QED BY <1>5, <1>6

LEMMA NextSends == IInv /\ SentInv /\ [Next]_vars => SentInv'
<1> SUFFICES ASSUME IInv, SentInv, [Next]_vars PROVE SentInv'
  OBVIOUS
<1>1. ASSUME NEW p \in Players, Step(p) PROVE SentInv'
  <2>1. CASE IssueCommand(p)
    BY <2>1, IssuingSends DEF IssueCommand
  <2>2. CASE FrameTick(p)
    BY <2>2, TickingSends
  <2>3. CASE UpdateRunAhead(p)
    BY <2>3, IssuingSends DEF UpdateRunAhead
  <2>4. CASE \E m \in net : Deliver(p, m)
    BY <2>4, SentAnyway DEF Deliver, local
  <2>5. CASE StartGame(p)
    BY <2>5, SentAnyway DEF StartGame, local
  <2>6. CASE RunFrame(p)
    BY <2>6, SentAnyway DEF RunFrame
  <2> QED BY <1>1, <2>1, <2>2, <2>3, <2>4, <2>5, <2>6 DEF Step
<1>2. CASE UNCHANGED vars
  BY <1>2, SentAnyway DEF vars, local
<1> QED BY <1>1, <1>2 DEF Next, Finished

(* What a machine needs to run its frame has been sent to it by everyone   *)
(* who is not behind it (ConnectionManager::processFrameTick and           *)
(* sendLocalCommand): a machine that waits, waits for the network or for   *)
(* somebody who is behind.                                                 *)
THEOREM NobodyWaitsInVain == Spec => []AllIsSent
<1>1. Init => IInv /\ SentInv
  BY Initially, SentInitially
<1>2. (IInv /\ SentInv) /\ [Next]_vars => (IInv /\ SentInv)'
  BY Inductive, NextSends
<1>3. IInv /\ SentInv => AllIsSent
  <2> SUFFICES ASSUME IInv, SentInv, NEW p \in Players, NEW q \in Players, p # q,
                      status[q] = "INGAME", Ticked(q), frame[p] <= frame[q]
               PROVE  /\ \A c \in IssuedFor(q, frame[p]) : IsSentTo(p, c)
                      /\ frame[p] >= InitialRunAhead =>
                           \E m \in net : /\ m.cmd.type = "FRAMEINFO" /\ m.cmd.player = q
                                           /\ m.cmd.frame = frame[p] /\ IsSentTo(p, m.cmd)
    BY DEF AllIsSent
  <2>1. frame[q] <= lastDone[q]
    BY DEF IInv, PaceInv
  <2>2. frame[p] >= InitialRunAhead => frame[p] \in InitialRunAhead .. lastDone[q]
    BY <2>1, Types, Constants DEF IInv
  <2>3. IssuedFor(q, frame[p]) \subseteq issued[q]
    BY DEF IssuedFor
  <2> QED BY <2>2, <2>3 DEF SentInv
<1> QED BY <1>1, <1>2, <1>3, PTL DEF Spec

-----------------------------------------------------------------------------
(* Every game keeps the promise of FrameSync: each step of Lockstep gives  *)
(* commands for an open frame, closes frames, runs a frame everybody has   *)
(* closed with all that was given for it, or changes nothing of that.      *)

LEMMA GivesCommands ==
  ASSUME IInv, NEW p \in Players, status[p] = "INGAME",
         NEW type \in {"GAMECOMMAND", "RUNAHEAD"}, NEW arg \in Nat,
         SendCommand(p, type, ExecutionFrame(p), arg),
         UNCHANGED <<frame, lastDone, executed>>
  PROVE  Promise!Issue(p)
<1> DEFINE cmd == [type |-> type, player |-> p, id |-> nextID[p] + 1,
                   frame |-> ExecutionFrame(p), arg |-> arg]
<1>1. issued' = [issued EXCEPT ![p] = @ \cup {cmd}]
  BY DEF SendCommand
<1>2. issued'[p] = issued[p] \cup {cmd}
  BY <1>1 DEF IInv, TypeOK
<1>3. ExecutionFrame(p) > lastDone[p] /\ ExecutionFrame(p) \in Nat
  BY ExecutionFrameOpen DEF IInv
<1>4. cmd \in SentCommand
  BY <1>3, Types DEF IInv, SentCommand
<1>5. issued' = [issued EXCEPT ![p] = issued'[p]]
  BY <1>1, <1>2 DEF IInv, TypeOK
<1> QED BY <1>2, <1>3, <1>4, <1>5 DEF Promise!Issue

LEMMA ClosesFrames ==
  ASSUME IInv, NEW p \in Players, FrameTick(p)
  PROVE  Promise!Close(p) \/ UNCHANGED Promise!vars
<1>1. ExecutionFrame(p) \in Nat /\ ExecutionFrame(p) >= 1
  BY ExecutionFrameOpen, Types DEF IInv
<1> DEFINE new == Larger(lastDone[p], ExecutionFrame(p) - 1)
<1>2. new \in Nat /\ new >= lastDone[p]
  BY <1>1, Types DEF IInv, Larger
<1>3. lastDone' = [lastDone EXCEPT ![p] = new] /\ UNCHANGED <<frame, issued, executed>>
  BY DEF FrameTick
<1> HIDE DEF new
<1>4. lastDone'[p] = new
  BY <1>3 DEF IInv, TypeOK
<1>5. CASE new = lastDone[p]
  <2>1. lastDone' = lastDone
    BY <1>3, <1>5 DEF IInv, TypeOK
  <2> QED BY <1>3, <2>1 DEF Promise!vars
<1>6. CASE new # lastDone[p]
  <2>1. new > lastDone[p]
    BY <1>2, <1>6, Types DEF IInv
  <2> QED BY <1>2, <1>3, <1>4, <2>1 DEF Promise!Close
<1> QED BY <1>5, <1>6

LEMMA RunsFrames ==
  ASSUME IInv, NEW p \in Players, RunFrame(p) PROVE Promise!Run(p)
<1>1. /\ frame[p] < MaxFrame
      /\ executed' = [executed EXCEPT ![p][frame[p]] = FrameCommands(p, frame[p])]
      /\ frame' = [frame EXCEPT ![p] = frame[p] + 1]
      /\ UNCHANGED <<lastDone, issued>>
  BY DEF RunFrame
<1>2. FrameCommands(p, frame[p]) = Promise!Given(frame[p])
      /\ \A q \in Players : frame[p] <= lastDone[q]
  BY RunsAgreed DEF Promise!Given, IssuedFor
<1> QED BY <1>1, <1>2 DEF Promise!Run

(* Frame 0 has no commands and is closed from the start. *)
LEMMA StartsGame ==
  ASSUME IInv, NEW p \in Players, StartGame(p) PROVE Promise!Run(p)
<1>1. /\ status[p] = "PREGAME" /\ frame[p] = 0 /\ frame[p] < MaxFrame
      /\ frame' = [frame EXCEPT ![p] = frame[p] + 1]
      /\ UNCHANGED <<lastDone, issued, executed>>
  BY DEF StartGame, local
<1>2. \A q \in Players : 0 <= lastDone[q]
  BY Types DEF IInv
<1>3. Promise!Given(0) = {}
  BY DEF IInv, IssuedInv, Promise!Given
<1>4. executed[p][0] = {}
  BY <1>1 DEF IInv, PaceInv
<1>5. executed' = [executed EXCEPT ![p][0] = {}]
  BY <1>1, <1>4, BoundsAssumption DEF IInv, TypeOK
<1> QED BY <1>1, <1>2, <1>3, <1>5 DEF Promise!Run

(* The lockstep core implements FrameSync. *)
THEOREM Refinement == Spec => KeepsPromise
<1>1. Init => Promise!Init
  BY DEF Init, Promise!Init
<1>2. IInv /\ [Next]_vars => [Promise!Next]_Promise!vars
  <2> SUFFICES ASSUME IInv, [Next]_vars PROVE Promise!Next \/ UNCHANGED Promise!vars
    OBVIOUS
  <2>1. ASSUME NEW p \in Players, Step(p) PROVE Promise!Next \/ UNCHANGED Promise!vars
    <3>1. CASE IssueCommand(p)
      <4>1. 0 \in Nat /\ "GAMECOMMAND" \in {"GAMECOMMAND", "RUNAHEAD"}
        OBVIOUS
      <4>2. Promise!Issue(p)
        BY <3>1, <4>1, GivesCommands DEF IssueCommand
      <4> QED BY <4>2 DEF Promise!Next
    <3>2. CASE FrameTick(p)
      BY <3>2, ClosesFrames DEF Promise!Next
    <3>3. CASE UpdateRunAhead(p)
      <4>1. PICK ra \in RunAheads :
              SendCommand(p, "RUNAHEAD", Larger(ExecutionFrame(p), frame[p] + runAhead[p]), ra)
        BY <3>3 DEF UpdateRunAhead
      <4>2. SendCommand(p, "RUNAHEAD", ExecutionFrame(p), ra)
        BY <4>1, ExecutionFrameOpen DEF IInv
      <4>3. ra \in Nat /\ "RUNAHEAD" \in {"GAMECOMMAND", "RUNAHEAD"}
        BY Constants
      <4>4. Promise!Issue(p)
        BY <3>3, <4>2, <4>3, GivesCommands DEF UpdateRunAhead
      <4> QED BY <4>4 DEF Promise!Next
    <3>4. CASE \E m \in net : Deliver(p, m)
      BY <3>4 DEF Deliver, local, Promise!vars
    <3>5. CASE StartGame(p)
      BY <3>5, StartsGame DEF Promise!Next
    <3>6. CASE RunFrame(p)
      BY <3>6, RunsFrames DEF Promise!Next
    <3> QED BY <2>1, <3>1, <3>2, <3>3, <3>4, <3>5, <3>6 DEF Step
  <2>2. CASE UNCHANGED vars
    BY <2>2 DEF vars, local, Promise!vars
  <2> QED BY <2>1, <2>2 DEF Next, Finished
<1> QED BY <1>1, <1>2, Invariant, PTL DEF Spec, KeepsPromise, Promise!Spec
=============================================================================
