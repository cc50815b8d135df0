------------------------------ MODULE Lockstep ------------------------------
(***************************************************************************)
(* The lockstep core: the classes Network, ConnectionManager,              *)
(* FrameDataManager and FrameData of every machine of one network game.    *)
(*                                                                         *)
(* Each machine simulates the same game.  A command given on one machine   *)
(* at logic frame F is stamped with a later execution frame (run ahead),   *)
(* stored in the machine's own frame data and sent to the others, by way   *)
(* of the packet router.  Once a machine can issue nothing more for a      *)
(* frame it sends the number of its commands for it (a frame info), and a  *)
(* machine runs a frame when it holds, from every player, as many commands *)
(* as that player's frame info says.  The frame data of a player is a ring *)
(* indexed by frame modulo FRAME_DATA_LENGTH.                              *)
(*                                                                         *)
(* The network is the set of everything ever sent: a message arrives any   *)
(* number of times, in any order, as the retransmitting Connection over    *)
(* UDP provides.  Players who leave or are disconnected are not modelled   *)
(* here: Players are the slots in the game from the first frame on.        *)
(*                                                                         *)
(* A definition named Mutant... is a wrong form of the one after it: with  *)
(* it in that one's place some property below fails (see README.md).       *)
(***************************************************************************)
EXTENDS Integers, FiniteSets

CONSTANTS
  Players,            \* the slots in the game
  PacketRouter,       \* m_packetRouterSlot
  MAX_FRAMES_AHEAD,   \* 128 in the game
  MIN_RUNAHEAD,       \* 10 in the game
  DefaultRunAhead,    \* the hard-coded 30 of Network::init
  MaxFrame,           \* bound: the logic frame where the exploration stops
  MaxCommands         \* bound: how many commands each machine issues

ASSUME PlayersAssumption == /\ Players \subseteq Nat /\ IsFiniteSet(Players)
                            /\ PacketRouter \in Players
ASSUME FramesAssumption  == /\ MAX_FRAMES_AHEAD \in Nat
                            /\ MIN_RUNAHEAD \in 1 .. (MAX_FRAMES_AHEAD \div 2)
                            /\ DefaultRunAhead \in Nat
ASSUME BoundsAssumption  == MaxFrame \in Nat /\ MaxCommands \in [Players -> Nat]

MaxRunAhead       == MAX_FRAMES_AHEAD \div 2
MutantShortRing   == MAX_FRAMES_AHEAD + 1
FRAME_DATA_LENGTH == (MAX_FRAMES_AHEAD + 1) * 2
MutantWholeRing   == FRAME_DATA_LENGTH - 1
FRAMES_TO_KEEP    == (MAX_FRAMES_AHEAD \div 2) + 1

Larger(a, b)  == IF a > b THEN a ELSE b
Smaller(a, b) == IF a < b THEN a ELSE b

RunAheads       == MIN_RUNAHEAD .. MaxRunAhead
MutantNoClamp   == DefaultRunAhead
InitialRunAhead == Smaller(Larger(DefaultRunAhead, MIN_RUNAHEAD), MaxRunAhead)
Slots           == 0 .. (FRAME_DATA_LENGTH - 1)
Slot(f)         == f % FRAME_DATA_LENGTH

-----------------------------------------------------------------------------
(***************************************************************************)
(* A command message: "arg" is the new run ahead of a RUNAHEAD command,    *)
(* the command count of a FRAMEINFO, and 0 for a GAMECOMMAND, whose        *)
(* payload nothing here looks at.                                          *)
(***************************************************************************)
NetCommand == [type : {"GAMECOMMAND", "RUNAHEAD", "FRAMEINFO"},
               player : Players, id : Nat, frame : Nat, arg : Nat]

Message == [dst : Players, relay : SUBSET Players, cmd : NetCommand]

(* FrameData: -1 is the count of a frame whose frame info has not arrived. *)
FrameData == [frameCommandCount : Nat \cup {-1}, commandCount : Nat,
              commandList : SUBSET NetCommand]

VARIABLES
  frame,        \* TheGameLogic->getFrame()
  status,       \* m_localStatus
  runAhead,     \* m_runAhead
  lastFrame,    \* m_lastFrame, the frame of the last processed frame tick
  lastExec,     \* m_lastExecutionFrame
  lastDone,     \* m_lastFrameCompleted
  nextID,       \* the counter of GenerateNextCommandID
  frameData,    \* frameData[p][q][s]: slot s of q's frame data on machine p
  net,          \* every message ever handed to a Connection
  resends,      \* frame resend requests sent: <<machine, player, frame>>
  issued,       \* history: the commands each machine has issued
  executed      \* history: the commands each machine ran on each frame

local == <<status, runAhead, lastFrame, lastExec, lastDone, nextID>>
vars  == <<frame, local, frameData, net, resends, issued, executed>>

-----------------------------------------------------------------------------
(* FrameData and FrameDataManager *)

MutantNoUnknownCount(isLocal) ==
  [frameCommandCount |-> 0, commandCount |-> 0, commandList |-> {}]

ResetData(isLocal) ==
  [frameCommandCount |-> IF isLocal THEN 0 ELSE -1,
   commandCount |-> 0, commandList |-> {}]

ZeroData == [frameCommandCount |-> 0, commandCount |-> 0, commandList |-> {}]

(* The ring after parseUserList: frames 1 to run ahead - 1 carry no        *)
(* commands and are complete from the start.                               *)
InitialRing(isLocal) ==
  [s \in Slots |-> IF s \in 1 .. (InitialRunAhead - 1)
                   THEN ZeroData ELSE ResetData(isLocal)]

SameCommand(a, b) == a.player = b.player /\ a.id = b.id

MutantAddsAgain(d, c) ==
  [d EXCEPT !.commandList = @ \cup {c}, !.commandCount = @ + 1]

AddCommand(d, c) ==
  IF \E e \in d.commandList : SameCommand(e, c)
  THEN d
  ELSE [d EXCEPT !.commandList = @ \cup {c}, !.commandCount = @ + 1]

AddNetCommandMsg(d, c, isLocal) ==
  LET added == AddCommand(d, c)
  IN  IF isLocal THEN [added EXCEPT !.frameCommandCount = added.commandCount]
                 ELSE added

MutantEnough(d) == d.commandCount >= d.frameCommandCount
FrameReady(d)   == d.frameCommandCount = d.commandCount
(* The counts are compared as unsigned, so the unknown count is not below. *)
FrameResend(d)  == d.frameCommandCount # -1 /\ d.commandCount > d.frameCommandCount

-----------------------------------------------------------------------------
(* ConnectionManager: where a command goes *)

(* The router sends to every player itself; another machine sends one      *)
(* message to the router, which relays it to the slots of the mask.        *)
MutantForgetsRouter(p, cmd, relay) ==
  IF p = PacketRouter
  THEN {[dst |-> i, relay |-> {i}, cmd |-> cmd] : i \in relay \ {p}}
  ELSE {[dst |-> PacketRouter, relay |-> relay \ {p, PacketRouter}, cmd |-> cmd]}

LocalCommand(p, cmd, relay) ==
  IF p = PacketRouter
  THEN {[dst |-> i, relay |-> {i}, cmd |-> cmd] : i \in relay \ {p}}
  ELSE {[dst |-> PacketRouter, relay |-> relay \ {p}, cmd |-> cmd]}

StoreLocal(p, cmd) ==
  [frameData EXCEPT ![p][p][Slot(cmd.frame)] = AddNetCommandMsg(@, cmd, TRUE)]

MutantGoesBack(p) == frame[p] + runAhead[p]
MutantOneLater(p) == Larger(lastExec[p], frame[p] + runAhead[p] + 1)
ExecutionFrame(p) == Larger(lastExec[p], frame[p] + runAhead[p])

(* Has this machine processed the frame tick of its current frame?  Every  *)
(* Network::update takes the commands, the tick among them, before it      *)
(* receives or runs anything.                                              *)
Ticked(p) == lastFrame[p] = frame[p]

(* ConnectionManager::allCommandsReady for frame f, over the frame data d  *)
(* of machine p: the scan stops at the first player that is not ready, and *)
(* if that one holds too many commands its frame is asked for again and    *)
(* what the machine holds of the others for it is dropped.                 *)
Overfull(d, f) ==
  {q \in Players : /\ FrameResend(d[q][Slot(f)])
                   /\ \A r \in Players : r < q => FrameReady(d[r][Slot(f)])}

AfterReadyTest(p, d, f) ==
  [q \in Players |-> IF Overfull(d, f) = {} \/ (q = p /\ q \notin Overfull(d, f))
                     THEN d[q] ELSE [d[q] EXCEPT ![Slot(f)] = ResetData(FALSE)]]

-----------------------------------------------------------------------------
Init ==
  /\ frame     = [p \in Players |-> 0]
  /\ status    = [p \in Players |-> "PREGAME"]
  /\ runAhead  = [p \in Players |-> InitialRunAhead]
  /\ lastFrame = [p \in Players |-> 0]
  /\ lastExec  = [p \in Players |-> InitialRunAhead - 1]
  /\ lastDone  = [p \in Players |-> InitialRunAhead - 1]
  /\ nextID    = [p \in Players |-> 0]
  /\ frameData = [p \in Players |-> [q \in Players |-> InitialRing(p = q)]]
  /\ net = {} /\ resends = {}
  /\ issued    = [p \in Players |-> {}]
  /\ executed  = [p \in Players |-> [f \in 0 .. MaxFrame |-> {}]]

(* A synchronized command of machine p for frame f: numbered, stored in    *)
(* the machine's own frame data and sent to everyone else.                 *)
SendCommand(p, type, f, arg) ==
  LET cmd == [type |-> type, player |-> p, id |-> nextID[p] + 1,
              frame |-> f, arg |-> arg]
  IN  /\ nextID[p] < MaxCommands[p] /\ frame[p] < MaxFrame
      /\ nextID'    = [nextID EXCEPT ![p] = @ + 1]
      /\ frameData' = StoreLocal(p, cmd)
      /\ net'       = net \cup LocalCommand(p, cmd, Players)
      /\ issued'    = [issued EXCEPT ![p] = @ \cup {cmd}]

(* The player of machine p gives an order: GetCommandsFromCommandList      *)
(* finds a transfer command, before or after the frame tick.               *)
IssueCommand(p) ==
  /\ status[p] = "INGAME"
  /\ SendCommand(p, "GAMECOMMAND", ExecutionFrame(p), 0)
  /\ lastExec' = [lastExec EXCEPT ![p] = ExecutionFrame(p)]
  /\ UNCHANGED <<frame, status, runAhead, lastFrame, lastDone, resends, executed>>

(* The frame tick: the first one at frame 1 starts the game; it closes     *)
(* every frame before the execution frame, and says how many commands each *)
(* of them has.                                                            *)
FrameTick(p) ==
  LET exec   == ExecutionFrame(p)
      Info(f) == [type |-> "FRAMEINFO", player |-> p, id |-> 0, frame |-> f,
                  arg |-> frameData[p][p][Slot(f)].commandCount]
  IN  /\ \/ status[p] = "PREGAME" /\ frame[p] = 1
         \/ status[p] = "INGAME" /\ ~Ticked(p)
      /\ status'    = [status EXCEPT ![p] = "INGAME"]
      /\ lastExec'  = [lastExec EXCEPT ![p] = exec]
      /\ lastDone'  = [lastDone EXCEPT ![p] = Larger(@, exec - 1)]
      /\ lastFrame' = [lastFrame EXCEPT ![p] = frame[p]]
      /\ net' = net \cup UNION {LocalCommand(p, Info(f), Players \ {p}) :
                                  f \in lastDone[p] + 1 .. exec - 1}
      /\ UNCHANGED <<frame, runAhead, nextID, frameData, resends, issued, executed>>

(* The packet router computes a new run ahead.  The measured latencies and *)
(* frame rates can give any value in the range; the two copies of the      *)
(* command differ only in the frame rate, which is left out.               *)
UpdateRunAhead(p) ==
  /\ p = PacketRouter /\ status[p] = "INGAME" /\ Ticked(p)
  /\ \E ra \in RunAheads :
       SendCommand(p, "RUNAHEAD",
                   Larger(ExecutionFrame(p), frame[p] + runAhead[p]), ra)
  /\ lastExec' = [lastExec EXCEPT ![p] = ExecutionFrame(p)]
  /\ UNCHANGED <<frame, status, runAhead, lastFrame, lastDone, resends, executed>>

(* processNetCommand and sendRemoteCommand note message m, of which        *)
(* machine p stores what the mask names p for.                             *)
Noted(p, m) ==
  [frameData[p] EXCEPT ![m.cmd.player][Slot(m.cmd.frame)] =
     IF m.cmd.type = "FRAMEINFO" THEN [@ EXCEPT !.frameCommandCount = m.cmd.arg]
     ELSE IF p \in m.relay THEN AddNetCommandMsg(@, m.cmd, m.cmd.player = p)
     ELSE @]

(* sendRemoteCommand then tests the frame of the command, for the metrics  *)
(* of the arrival cushion; the test is not an idle one.                    *)
RelayTested(p, m) == AfterReadyTest(p, Noted(p, m), m.cmd.frame)

(* doRelay takes message m from the transport: a command for a frame that  *)
(* is over is dropped; otherwise the frame info or the command is noted,   *)
(* what the mask still names is sent on, and the frame of the command is   *)
(* tested.  The update that received it then tests the current frame, once *)
(* the game has started.                                                   *)
Deliver(p, m) ==
  LET c == m.cmd
      inGame == status[p] = "INGAME"
  IN  /\ m.dst = p /\ Ticked(p)
      /\ c.frame >= frame[p]
      /\ frameData' = [frameData EXCEPT ![p] =
                         IF inGame THEN AfterReadyTest(p, RelayTested(p, m), frame[p])
                                   ELSE RelayTested(p, m)]
      /\ resends' = resends
           \cup {<<p, q, c.frame>> : q \in Overfull(Noted(p, m), c.frame)}
           \cup {<<p, q, frame[p]>> : q \in {r \in Overfull(RelayTested(p, m), frame[p]) : inGame}}
      /\ net' = net \cup {[dst |-> i, relay |-> {i}, cmd |-> c] : i \in m.relay \ {p}}
      /\ UNCHANGED <<frame, local, issued, executed>>

(* Frame 0 is run by everyone without waiting for anyone.                  *)
StartGame(p) ==
  /\ status[p] = "PREGAME" /\ frame[p] = 0 /\ frame[p] < MaxFrame
  /\ frame' = [frame EXCEPT ![p] = 1]
  /\ UNCHANGED <<local, frameData, net, resends, issued, executed>>

FrameCommands(p, f) == UNION {frameData[p][q][Slot(f)].commandList : q \in Players}

(* The run ahead commands of a frame are executed in the order of their    *)
(* IDs: the last one stays.                                                *)
LastChange(cmds) ==
  {c \in cmds : c.type = "RUNAHEAD" /\ \A e \in cmds : e.type = "RUNAHEAD" => e.id <= c.id}

NewRunAhead(old, cmds) ==
  IF LastChange(cmds) = {} THEN old ELSE (CHOOSE c \in LastChange(cmds) : TRUE).arg

(* Network::update finds the frame complete, hands its commands to the     *)
(* logic, and the logic runs it and advances.                              *)
RunFrame(p) ==
  LET f == frame[p]
      cmds == FrameCommands(p, f)
  IN  /\ status[p] = "INGAME" /\ Ticked(p) /\ f < MaxFrame
      /\ \A q \in Players : FrameReady(frameData[p][q][Slot(f)])
      /\ executed'  = [executed EXCEPT ![p][f] = cmds]
      /\ runAhead'  = [runAhead EXCEPT ![p] = NewRunAhead(@, cmds)]
      /\ frameData' = IF f > FRAMES_TO_KEEP
                      THEN [frameData EXCEPT ![p] = [q \in Players |->
                              [@[q] EXCEPT ![Slot(f - FRAMES_TO_KEEP)] = ResetData(p = q)]]]
                      ELSE frameData
      /\ frame'     = [frame EXCEPT ![p] = f + 1]
      /\ UNCHANGED <<status, lastFrame, lastExec, lastDone, nextID, net, resends, issued>>

(* The end of the exploration, not of a game.                              *)
Finished == (\A p \in Players : frame[p] = MaxFrame) /\ UNCHANGED vars

Step(p) == \/ IssueCommand(p) \/ FrameTick(p) \/ UpdateRunAhead(p)
           \/ (\E m \in net : Deliver(p, m)) \/ StartGame(p) \/ RunFrame(p)

Next == (\E p \in Players : Step(p)) \/ Finished

Spec == Init /\ [][Next]_vars

(* The game loop calls Network::update again and again, and a Connection   *)
(* sends a message again until it is acknowledged.                         *)
Fairness == \A p \in Players : /\ WF_vars(StartGame(p)) /\ WF_vars(FrameTick(p))
                               /\ WF_vars(\E m \in net : Deliver(p, m))
                               /\ WF_vars(RunFrame(p))

FairSpec == Spec /\ Fairness

-----------------------------------------------------------------------------
(* Every variable has its type; slots, masks and counters are in range. *)
TypeOK ==
  /\ frame \in [Players -> 0 .. MaxFrame]
  /\ status \in [Players -> {"PREGAME", "INGAME"}]
  /\ runAhead \in [Players -> RunAheads]
  /\ lastFrame \in [Players -> Nat]
  /\ lastExec \in [Players -> Nat]
  /\ lastDone \in [Players -> Nat]
  /\ nextID \in [Players -> Nat]
  /\ frameData \in [Players -> [Players -> [Slots -> FrameData]]]
  /\ net \subseteq Message
  /\ resends \subseteq Players \X Players \X Nat
  /\ issued \in [Players -> SUBSET NetCommand]
  /\ executed \in [Players -> [0 .. MaxFrame -> SUBSET NetCommand]]

IssuedFor(q, f) == {c \in issued[q] : c.frame = f}

(* No desync: on every frame a machine has run, it ran exactly the commands *)
(* that all the players issued for that frame, whatever their order of      *)
(* arrival and however often the run ahead changed; so two machines never   *)
(* disagree on a frame both have run (Network::RelayCommandsToCommandList). *)
Agreement ==
  \A p \in Players : \A f \in 0 .. frame[p] - 1 :
    executed[p][f] = UNION {IssuedFor(q, f) : q \in Players}

(* The command count of a frame info (processFrameTick) is the number of    *)
(* commands its player will ever have issued for that frame: nothing is     *)
(* issued for a frame after its count went out, across changes of the run   *)
(* ahead, and the ring of the sender still held the whole frame.            *)
CountsAreFinal ==
  \A m \in net : m.cmd.type = "FRAMEINFO" =>
    /\ m.cmd.frame <= lastDone[m.cmd.player]
    /\ m.cmd.arg = Cardinality(IssuedFor(m.cmd.player, m.cmd.frame))

(* A slot of the ring never mixes two frames: what it holds is for one      *)
(* frame, not older than FRAMES_TO_KEEP behind the last run frame, which is *)
(* the bug the comment of processNetCommand recalls.                        *)
SlotsHoldOneFrame ==
  \A p, q \in Players : \A s \in Slots :
    \A c, d \in frameData[p][q][s].commandList :
      c.frame = d.frame /\ c.frame >= frame[p] - FRAMES_TO_KEEP

(* As long as nobody leaves, no machine ever finds more commands in a frame *)
(* than its frame info says, so no frame is thrown away and asked for again *)
(* (FRAMEDATA_RESEND in ConnectionManager::allCommandsReady).               *)
NoResend == resends = {}

(* A machine drops a command as out of date only if it has run it, so the   *)
(* drop in processNetCommand loses nothing.                                 *)
DroppedWasRun ==
  \A m \in net : (m.cmd.type # "FRAMEINFO" /\ m.cmd.frame < frame[m.dst]) =>
    m.cmd \in executed[m.dst][m.cmd.frame]

(* Nobody runs away: a machine is never more than the largest run ahead in  *)
(* front of another one.                                                    *)
BoundedSkew ==
  \A p, q \in Players : frame[p] <= frame[q] + MaxRunAhead

(* A machine that has taken a command or a count in has it until it has run *)
(* the frame, so that the message, once acknowledged, is not needed again:  *)
(* neither the reset of old frames nor a refused frame takes it away        *)
(* (getFrameCommandList, allCommandsReady).                                 *)
Keeps(p, q, f) ==
  LET had == frameData[p][q][Slot(f)]
      has == frameData'[p][q][Slot(f)]
  IN  /\ \A c \in had.commandList : c.frame = f => c \in has.commandList
      /\ q # p /\ had.frameCommandCount # -1 => has.frameCommandCount = had.frameCommandCount

AcceptedIsKept ==
  [][\A p, q \in Players : \A f \in frame'[p] .. lastExec[q] : Keeps(p, q, f)]_vars

(* The message that brings cmd to p, through the packet router or not, has  *)
(* been sent.                                                               *)
IsSentTo(p, cmd) == \E m \in net : m.cmd = cmd /\ p \in m.relay /\ m.dst \in {p, PacketRouter}

(* Nobody waits in vain: what a machine needs to run its frame has been     *)
(* sent to it by everyone who is not behind it, whatever became of the run  *)
(* ahead: the count of that frame, and as many commands as it says          *)
(* (processFrameTick, sendLocalCommand).                                    *)
AllIsSent ==
  \A p, q \in Players : p # q /\ status[q] = "INGAME" /\ Ticked(q) /\ frame[p] <= frame[q] =>
    /\ \A c \in IssuedFor(q, frame[p]) : IsSentTo(p, c)
    /\ frame[p] >= InitialRunAhead =>
          \E m \in net : /\ m.cmd.type = "FRAMEINFO" /\ m.cmd.player = q
                          /\ m.cmd.frame = frame[p] /\ IsSentTo(p, m.cmd)

(* The commands a game can issue. *)
SentCommand == [type : {"GAMECOMMAND", "RUNAHEAD"}, player : Players, id : Nat,
                frame : Nat, arg : Nat]

Promise == INSTANCE FrameSync WITH closed <- lastDone, FirstOpenFrame <- InitialRunAhead,
                                   Command <- SentCommand

(* The whole of it keeps the promise of FrameSync: a frame is closed when   *)
(* its frame info is sent, and is run with what was given for it.           *)
KeepsPromise == Promise!Spec

(* Nobody waits for ever: every machine reaches the end of the exploration, *)
(* given that messages arrive and the game loops keep running.              *)
EveryFrameIsRun == \A p \in Players : <>(frame[p] = MaxFrame)
=============================================================================
