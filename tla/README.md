# Specifications of LibreSAGE's multiplayer layer and update loop

LibreSAGE is the engine of *Command & Conquer Generals* and *Zero Hour*. Its
multiplayer is lockstep: every machine simulates the whole game, and only the
players' commands travel. A game stays a game only if every machine executes
the same commands on the same logic frame in the same order. This directory
specifies the code that has to make that true, over UDP, with packets lost,
doubled and reordered, while the delay of the commands is being changed and
when the machine that relays them leaves the game. It also specifies what the
logic of a frame hangs on on each machine: the sleepy update list of
`GameLogic`, which decides what is updated when, and in which order.

The code is `src/Common/GameEngine/Source/GameNetwork/` (shared by both games),
`src/GeneralsMD/GameEngine/Source/GameNetwork/` (Zero Hour; `Generals/` has
an older copy of `ConnectionManager.cpp`) and, of the simulation, `GameLogic.cpp`
and `UpdateModule.h`.

Reading order: `FrameSync.tla` (what is promised), `Lockstep.tla` (how the code
keeps it), `LockstepProofs.tla`; then `AtLeastOnce.tla`, `Connection.tla`,
`ConnectionProofs.tla`; then `AckStages.tla`, `AckStagesProofs.tla`; then
`NetCommandList.tla`, `NetCommandListProofs.tla`. `Scheduler.tla`,
`SleepyUpdates.tla` and `SleepyUpdatesProofs.tla` stand by themselves.

## 1. The system

### Components

| Component | State | Operations | What makes it correct |
|---|---|---|---|
| `Network` | run ahead, last execution frame, last completed frame, local status | take commands and the frame tick from the message stream, test and run a frame, change the run ahead | a command's frame is not closed yet; a frame is run once, complete |
| `ConnectionManager` | one `Connection` and one `FrameDataManager` per slot, packet router slot, pending and relayed commands | send a local command, take packets apart (`doRelay`), acknowledge, relay, test whether a frame is ready, ask for a frame again | each command of each player reaches every player; nothing of use is dropped |
| `FrameDataManager`, `FrameData` | ring of command lists with an expected and an actual count | add a command, set the expected count, test, reset | a slot is about one frame; a command counts once |
| `NetCommandList` | sorted doubly linked list, cursor of the last insertion | add, remove, reset | the order does not depend on the order of arrival |
| `Connection` | send queue, retry times, quitting flag | queue, pack and send, process an ack, quit | at-least-once delivery; the queue empties |
| two-stage acks | lists of pending and of relayed commands | ack stage 1, 2, both; resend to a new router | a command is forgotten only when everyone has it |
| `NetPacket` | repeated fields of the previous command | encode, decode | decoding inverts encoding |
| `NetCommandWrapperList` | chunks of large commands | process a chunk, take what is complete | reassembly under repetition and reordering |
| `Transport`, `UDP` | in and out buffers of 128 messages | queue, send, receive | drops, never invents |
| `DisconnectManager` | timeouts, votes, disconnect frames, router state | keep alive, vote, choose a router, destroy a player | everybody removes the same player on the same frame |
| leaving | quit frames, local status | announce, wait for queues, delete | the leaver's last frame is known to everyone |
| sleepy update list (`GameLogic`) | heap of update modules, position and call frame of each module, the module being updated | enter, wake, erase, remake after loading, call what is due | modules are called when due, in the order of frame and phase |
| lobby (`LANAPI`), `NAT`, file transfer | slots, negotiation rounds, progress | join, accept, start; probe; send a map | the players agree on who plays |

`FrameMetrics`, `FirewallHelper`, GameSpy, the simulation, rendering, tools and
libraries are listed in `PROJECT.json` with the reason they are left out.

### How they interact

One thread per machine. `GameEngine::update` runs the client (which appends a
frame tick to the message stream), then `Network::update`, then, if
`isFrameDataReady`, the game logic, which executes the frame and increments
it. `Network::update`: take the commands and the tick from the stream, let the
router reconsider the run ahead, receive and relay, send, then test the current
frame. So the concurrency is between machines: everything a machine does in
one update is one thread, and between two updates any packets may arrive.

A command given at frame F is stamped F + run ahead, put into the machine's own
frame data, and handed to the `Connection` to the packet router, with a mask of
the slots it is for. The router relays it to them. When a machine can issue
nothing more for a frame it sends a frame info with the number of its commands.
A machine runs a frame when, for each player, it holds as many commands as
that player's frame info says. The sender keeps the command as pending until the
router says that everybody has it; the router keeps track of whose ack is
missing. When the router leaves, pending commands go to the next one.

Running a frame means `GameLogic::update`: scripts and commands, then the update
loop, which calls the modules that are due, then AI, partition and the
destruction of what has been doomed. A module's `update` may wake other modules,
create objects, whose modules are entered, and doom objects.

### What is hard here

 * Frame infos and commands of one frame come from different players by
   different ways, in any order and repeatedly.
 * A run ahead change is itself a command for a future frame, stamped while
   counts for frames beyond it may already have been sent. The comment in
   `updateRunAhead` (ConnectionManager.cpp:1259) tells of a bug of this kind.
 * The ring of frame data has no frame numbers: a late command for an old frame
   lands in a slot now used for another one (comment at ConnectionManager.cpp:442).
 * The relay: the router is both a player and a switch.
 * The queue of a `Connection` is shared by acks and commands, a command that
   does not fit is passed over, and the transport may refuse a packet after its
   contents have been marked as sent.
 * IDs are 16 bits and wrap.
 * The router leaves between acknowledging a command and passing it on; its acks
   are sent once, and some of them say two things at once.
 * With commands of two players at that router, each of them may end up waiting for the
   other's.
 * The update loop walks a heap that its own calls change. It gives the called
   module its next frame by rebalancing position 0, wherever that module is by
   then; erasing a module moves others, whose erasure may be next.

`PROJECT.json` lists each of these hazards, and others, at its line with the
properties that watch over it, or the reason why none does.

## 2. The modules

### Lockstep

All machines of one game together. State and code:

| TLA+ | code |
|---|---|
| `frame[p]` | `TheGameLogic->getFrame()` |
| `status`, `runAhead`, `lastFrame`, `lastExec`, `lastDone` | `m_localStatus`, `m_runAhead`, `m_lastFrame`, `m_lastExecutionFrame`, `m_lastFrameCompleted` |
| `frameData[p][q][s]` | slot `s` of `m_frameData[q]` on machine `p` |
| `net` | everything ever handed to a `Connection` |
| `resends` | frame resend requests sent |
| `issued`, `executed` | history: what was issued, what was run |

| action | code |
|---|---|
| `IssueCommand` | a transfer command in `GetCommandsFromCommandList`, through `sendLocalGameMessage` and `sendLocalCommand` |
| `FrameTick` | `processCommand` on the frame tick: start of the game, one frame info per frame up to the execution frame |
| `UpdateRunAhead` | `updateRunAhead` on the packet router |
| `Deliver` | `doRelay`, `processNetCommand`, `sendRemoteCommand` for one message, and `allCommandsReady` finding a frame overfull |
| `StartGame` | frame 0, run without waiting |
| `RunFrame` | `AllCommandsReady` true, `RelayCommandsToCommandList` with the run ahead commands, `getFrameCommandList` resetting an old slot, `m_frame++` |

Abstractions, and why they are harmless here:

 * The network is a set that only grows, and `Deliver` does not take a message
   out of it. That is at-least-once delivery with any reordering and
   repetition; `Connection` below is shown to give it as long as nobody quits.
 * A message of a frame that is over is dropped; the step would change nothing
   and is left out.
 * `Deliver` requires `Ticked`: an update processes the tick, which the
   client appends on every turn, before it receives.
 * An update receives any number of packets and then tests the frame once.
   In the model each `Deliver` is followed by the test of the current frame,
   after the test of the command's own frame that `sendRemoteCommand` makes for
   its metrics: that one, too, would drop an overfull frame and ask for it again.
 * The new run ahead is any value of its range. The router sends two copies of
   the command with the same ID and different frame rates, one for the slowest
   machine; only the frame rate differs, and it is left out.
 * A frame info's ID, used for acks only, is 0. The wrap of command IDs is not in
   this module; within one frame and one player IDs are unique anyway.
 * Chat, progress, file and disconnect commands do not touch this state.
 * The set of players is fixed; `AckStages` is about a player who leaves.
 * The answer to a resend request is not modelled, because `NoResend` shows that
   none is ever sent here.
 * `Finished` lets the exploration end at `MaxFrame` without counting as a
   deadlock; any other deadlock is reported.

`FrameSync` is the abstract specification: players issue for frames they have
not closed, close frames in order, and run a frame with all that was issued
for it when everybody has closed it. There are no messages, counts or rings.
The refinement maps `closed` to `lastDone`.

### Connection

The class `Connection` on both ends of the line between two machines, with
`doRelay` and `ackCommand` as far as they concern one line. The queue is two
sets, because the list is sorted by type and number: the acks come first. Time
is left out: `waiting` holds the commands sent less than `m_retryTime` ago.
A packet carries `PacketSize` entries; the entry after them is passed over,
as in the code. `Sending(p, TRUE)` is a send the transport refuses halfway.
`Receive` processes a packet's acks, then its commands, each of which is
acknowledged, however often it comes. `Lose` is the network, and the
transport's full receive buffer. `Quit` is `setQuitting`, `Flush` the 30 second
limit. One kind of ack stands for ACKBOTH and ACKSTAGE1, which this class
treats alike; an ack queued twice counts once; all entries are of one size.
`LifetimeAssumption` caps the commands a machine sends at the number of IDs, so that
no ID is given twice. The code has no such cap: a longer game needs in addition that
no packet and no queue still holds an ID when it comes round, which is not modelled.

`AtLeastOnce` is its abstract specification.

### AckStages

The two stages of acknowledgement among all players of a game, one of whom,
`Leaver`, leaves it after running frame `LeaveFrame`.

| TLA+ | code |
|---|---|
| `frame[p]`, `got[p]` | the logic frame, the commands in the frame data |
| `pending[p]` | `m_pendingCommands`: what p has sent to the router and would send to the next one |
| `relayed[p][c]` | the relay mask of c in `m_relayedCommands`: whose ack is missing |
| `queue[p]` | the send queues of p's connections; an entry is a command for one machine with a relay mask |
| `net`, `acks` | every packet, every ack that may still arrive |
| `Router(p)`, `Open(p)` | `m_packetRouterSlot`, the connections that are there and not quitting; both follow from p's frame |

| action | code |
|---|---|
| `sendLocalCommand` | the same: own frame data, to the router or, at the router, to all, pending |
| `doRelay` | `doRelay` for one command: `ackCommand`, then `processNetCommand`, then `sendRemoteCommand` |
| `processAck` | `processAck`: the connection's queue (stage 1), pending and relayed commands (stage 2), passing on an ack for another machine |
| `RunFrame` | a frame whose commands are all there is run |
| `LeaveGame` | `processPlayerLeave` at the leaver, with `clearCommandsExceptFrom` on each connection, which stops after the first thing it removes: a command, or an ack that sorts before it |
| `processPlayerLeave` | the same at the others: `disconnectPlayer`, the next packet router, `resendPendingCommands` |
| `sendFrameDataToPlayer` | `processDisconnectFrame`, `sendFrameDataToPlayer`, `sendSingleFrameToPlayer`: a machine that is ahead sends the frames it has kept |

Abstractions:

 * A queue keeps a command until it is acknowledged; what was ever queued may
   arrive at any time, repeatedly, or never. Packing and retry times are in
   `Connection`. Acks are sent once and may be lost.
 * Commands are those that need an ack and have a frame. In `AckStages.cfg` the
   leave command has arrived everywhere; in `AckStagesForgets.cfg` it is one of
   the commands.
 * When the frame data are asked for depends on the disconnect screen's timers,
   which are left out: a machine that is ahead may send at any time.
 * A quitting connection of the leaver stays; nothing is sent on it. In the code
   it is deleted once it is empty, and from then on the leaver's late commands
   are dropped in `processNetCommand`. They are out of date by then, and dropped
   for that in the model: the leaver gives nothing after its leave command
   (`LeaveAssumption`, Network.cpp:545-557). Acks of the leaver are processed
   before that test, in the code as in the model.
 * Before frame `FRAMES_TO_KEEP` no frame data are sent: the difference in
   `sendSingleFrameToPlayer` is unsigned and comes out large. The model does the
   same.

### NetCommandList

The list as a sequence with the cursor as an index, `addMessage` with its shortcut
after the cursor, its search and its comparison with one neighbour. The three
loops of the search are three uses of `SkipFrom`, each passing what is in a set.
`MCNetCommandList` has the command types with their numbers.

### SleepyUpdates

| TLA+ | code |
|---|---|
| `heap` | `m_sleepyUpdates`, positions counted from 1 |
| `index[u]` | `m_indexInLogic + 1`, 0 for none |
| `next[u]`, `Phase[u]` | `m_nextCallFrameAndPhase`, call frame and phase |
| `mode`, `pos`, `low` | which rebalancing loop is running, and how far it is |
| `frame`, `loc`, `cur` | `m_frame`, the part of `GameLogic::update`, `m_curUpdateModule` |
| `inList`, `doomed` | `m_objList`, `m_objectsToDestroy` |
| `pushing`, `erasing` | what the loops of `registerObject` and `processDestroyList` have still to do |
| `last`, `late` | ghosts: priority of the last call; modules made due after the loop |

| action | code |
|---|---|
| `registerObject`, `pushSleepyUpdate` | the same |
| `friend_awakenUpdateModule` | the same, with its special cases for the module being updated and the one already awake |
| `destroyObject`, `processDestroyList`, `eraseSleepyUpdate` | the same |
| `SiftUp`, `SiftDown` | one iteration of `rebalanceParentSleepyUpdate`, `rebalanceChildSleepyUpdate`, `remakeSleepyUpdate` |
| `CallUpdate`, `ReturnFromUpdate`, `SkipDisabled`, `EndLoop` | the update loop |
| `BeginDestroy` to `EndFrame` | the rest of the frame |
| `loadPostProcess` | the same: the heap is made again from the objects of a saved game |

The code is single-threaded, so while a rebalancing loop runs nothing else does.
What the rest of the simulation may do is narrowed in one place, `MayBeDueNow`:
only modules of the normal phase are made due in the frame that is running, which
is what all callers do (the modules of other phases are `AIUpdate`, `PhysicsUpdate`
and `FiringTracker`; the comment there names each call). Objects that are deleted in
`processDestroyList` may wake and doom others (`DestructorsRun`), which are then
destroyed in the same pass. `popSleepyUpdate` has no caller, the list of non-sleepy
updates is compiled out, and the cap of 256 modules per object at destruction is
left out.

`Scheduler` is the abstract specification: a timetable with a call frame for every
module, no heap and no positions. The refinement maps `due` to `next` of the
scheduled modules.

The comment in `UpdateModule.h` says that all modules of phase 0 are called before
all of phase 1 within a frame. A module registered or woken after the loop
for that very frame keeps its old call frame and is called at the head of the
next frame, ahead of that frame's phase 0. `late` and `OnTime` state exactly what
holds for it.

### MC modules

The modules whose name begins with `MC` only define small constants.
In the other modules a definition named `Mutant...` is a wrong form of the
definition after it, of the kind a slip in the code would be: with the mutant
in its place the property that `PROJECT.json` names with it fails in the same
run. They are how we know that the properties can fail.

## 3. The runs

| run | instance | what it shows |
|---|---|---|
| `LockstepRing` | 2 machines, `MAX_FRAMES_AHEAD` 2, six slots, 8 frames, 3 commands | frames 6 and 7 reuse slots 0 and 1 while anything older may still arrive: a slot never mixes frames, and what is dropped as out of date has been run, and what has been accepted stays until its frame is run; refinement of `FrameSync` |
| `LockstepRunAhead` | 2 machines, `MAX_FRAMES_AHEAD` 6, run ahead 1 to 3, 6 frames, one command each, of which the router's may change the run ahead | agreement across changes of the run ahead, and no command is stamped with a frame whose count has gone out |
| `LockstepRelay` | 3 machines, one command each | agreement through the router, no frame is ever asked for again, the machines stay within one run ahead, and what one of them lacks has been sent to it by everyone who is not behind it |
| `LockstepLive` | 3 machines, 3 frames, one order of one client, fairness | everybody gets to the last frame, which the client's order reaches only through the router |
| `NetCommandListFrame` | all 10 commands of two players and two types, with removals | the order is canonical; nothing is lost though only one neighbour is compared |
| `NetCommandListAcks` (violation) | a connection's queue with acks of two players | see findings |
| `ConnectionSafe` | 2 commands one way, 1 the other, packets of 1, doubling, both may quit | nothing is lost, a connection is deleted only empty, an acked command is off the queue; refinement of `AtLeastOnce` |
| `ConnectionLive` | 2 commands one way, IDs through 0, packets of 1, the sender may quit | everything arrives and leaves the queue; quitting ends |
| `ConnectionWrap` (violation) | as `ConnectionSafe`, IDs through 0 | see findings |
| `AckStages` | 3 players, the router leaves at frame 4, a command of player 2 for frame 3, frames 2 to 5, `FRAMES_TO_KEEP` 2, fairness | no command is forgotten while somebody lacks it and nobody sends it; a cleared bit is a player who has the command; what is pending reaches the next router; what is forgotten is not gone; the others go on |
| `AckStagesForgets` (violation) | 4 players, the leave command and one for the frame after it | see findings |
| `SleepyUpdates` | 4 modules of 3 phases in 2 objects, frames 0 to 2, delays 0 to 2, "forever" 3, fairness | heap, positions and root survive waking, entering, erasing and loading; calls are in order and on time; refinement of `Scheduler`; the loop ends |

The game's constants (128 frames ahead, run ahead 10 to 64) are scaled down with
their relations kept: the ring is `(MAX_FRAMES_AHEAD + 1) * 2` slots, the largest
run ahead half of `MAX_FRAMES_AHEAD`, and `FRAMES_TO_KEEP` one more than that.
`MAX_FRAMES_AHEAD` 2 gives the smallest ring that has all of it, and `MaxFrame` 8
is past its length by two. `MAX_FRAMES_AHEAD` 6 is the smallest that lets
the run ahead drop by two at once, from 3 to 1: decided at frame 1 and carried out
at frame 4, it would stamp a command of frame 5 with frame 6, which is closed,
if the execution frame could go back. Hence six frames. Three machines are the smallest game with a relay between
two clients. For the safety of the lockstep core and of a connection the proofs remove these bounds.
A packet of one entry makes every second entry a passed-over one; IDs modulo 4 or
2 wrap. The two `Connection` runs that let connections quit do not check
deadlock: when both ends are deleted the line has really ended.

In `AckStages.cfg` the command is given for the frame before the leave, so that all
of acknowledging, relaying, leaving, resending and frame data can overlap: three
players are the smallest game in which somebody depends on the router and somebody
else becomes the router. `FRAMES_TO_KEEP` 2 lets frames fall out of what is kept.
One player gives commands here, and `EveryoneGoesOn` says so (`OneGives`). With two
givers it fails: the router acknowledges a command of each, and then empties the queues
it was relaying them from (`clearCommandsExceptFrom`) and leaves. Each of the two lacks
the other's command for the same frame, has forgotten nothing, and waits; nobody is ahead
to send frame data. The code gets out of it by `DisconnectManager`'s query for the next
router, which makes pending commands be sent again and which is not modelled. The safety
properties need no such condition.
The four modules of `SleepyUpdates.cfg` give a heap of three levels, so a child has
a sibling and a grandparent, and include an object with three modules, whose
erasure moves its own; three phases are the first, the normal and the last. A delay
of 2 passes "forever" from frame 2, and so is cut. These runs end at a last frame,
which is why they do not check deadlock. The proofs remove the bounds of the safety
properties of all these runs.

### Fairness

`LockstepLive`: weak fairness of the frame tick, frame 0, running a frame (the game
loop runs all of them on every turn), and of some message's delivery, which is
what retransmission gives; because a delivered message is not removed from `net`
and delivering it again changes nothing, the fair step is one that still has an
effect. Nothing is assumed about issuing commands or changing the run ahead.

`ConnectionLive`: weak fairness of sending on a quitting connection, weak fairness
of the retry time, strong fairness of packing a given command or ack (an entry
may be passed over or refused again and again, but not for ever), and strong
fairness of the arrival of a given command or ack: what is sent for ever arrives
some time. Quitting and the 30 second flush are not fair. The network of this
run does not double packets: one packet repeated without end, whose acks always
take the place a command needs, would not be excluded by fairness.

`AckStages`: weak fairness of giving commands and running frames (the game loop), of
sending frame data (the disconnect screen comes up when the game stalls and
repeats), and of the arrival of what stays queued (retransmission). Nothing is
assumed of acks.

`SleepyUpdates`: weak fairness of the rebalancing loops, the entering and erasing loops
and the update loop, which are code that runs on; strong fairness of the return from
`update`, since an `update` makes finitely many calls. Nothing is assumed of what
modules wake. `EveryLoopEnds` therefore holds on the condition that modules do not for
ever wake each other for this very frame, which the code does not prevent.

## 4. The proofs

`LockstepProofs.tla` proves for every number of players, ring size, range of run
aheads, number of frames and of commands, from the assumptions named in
`Lockstep.tla` (players are a finite set of slot numbers with the router among
them; `1 <= MIN_RUNAHEAD <= MAX_FRAMES_AHEAD / 2`):

| theorem | says |
|---|---|
| `TypeCorrect` | `[]TypeOK` |
| `AgreementHolds` | `[]Agreement` |
| `CountsStayFinal` | `[]CountsAreFinal` |
| `OneFramePerSlot` | `[]SlotsHoldOneFrame` |
| `NeverResends` | `[]NoResend` |
| `DropsLoseNothing` | `[]DroppedWasRun` |
| `SkewIsBounded` | `[]BoundedSkew` |
| `NobodyWaitsInVain` | `[]AllIsSent` |
| `AcceptedStays` | `AcceptedIsKept` |
| `Refinement` | the core implements `FrameSync` |

All rest on `Invariant`, which says that `IInv` is inductive. `Agreement` is not
inductive by itself; `IInv` adds

 * `IssuedInv`: commands are numbered, and stamped no later than the last
   execution frame of their player;
 * `PaceInv`: in a started game nobody's next execution frame is closed, nobody
   has closed a frame more than the largest run ahead in front of itself, and
   nobody is at a frame that somebody has not closed up to the one before;
 * `NetInv`: a frame info in the network carries the number of all commands ever
   issued for its frame, which is closed; another message carries an issued
   command; nothing returns to its origin;
 * `RingInv`: a slot holds issued commands of one window of frames, and a known
   count is the count of a closed frame of that window.

The argument: `PaceInv` puts all frames a machine can keep or hear of into a window
of `FRAMES_TO_KEEP + 2 * MaxRunAhead + 1` frames, which is not longer than the ring
(`Constants`), so no two of them share a slot (`SameSlot`). Hence the commands in
the slot of a frame are some of those issued for it, and its count is the number
of all of them; equal numbers make equal sets (`ReadySlot`, `FullSubset`), which is
`Agreement`, and the number in the slot never exceeds the count, which is
`NoResend`. This is also why the ring needs no frame numbers, and it answers the
question the comment at NetworkDefs.h:43 leaves open.

`AcceptedStays` is proved action by action from `IInv`: running a frame resets a slot
that is `FRAMES_TO_KEEP` behind, which by `SameSlot` is not the slot of a frame in front,
and a delivery overwrites a count only with the same count and never refuses a frame. So
a message may be acknowledged, and forgotten by its sender, as soon as it is in the frame
data. `NobodyWaitsInVain` needs one more inductive invariant, `SentInv`: all that has
been issued and all counts of closed frames have been sent to every other player, to the
player itself or to the router with the player in the relay mask. It is what the liveness
of `LockstepLive` rests on: with `AcceptedStays`, a machine that waits lacks only
messages that are in the network, which retransmission brings.

`ConnectionProofs.tla` does the same for the line between two machines: any number of
commands on each side, any space of IDs with at most that many commands
(`LifetimeAssumption`: no ID is given twice), any
packet size, with and without doubling and quitting.

| theorem | says |
|---|---|
| `TypeCorrect` | `[]TypeOK` |
| `NothingIsLost` | `[]NothingLost` |
| `DeletedWhenEmpty` | `[]DeletedEmpty` |
| `Refinement` | the two ends implement `AtLeastOnce` |
| `AckedLeaves` | `[]AckedIsOff`, if no command gets the ID 0 (`NoCommandZero`) |

Its inductive invariant adds to `TypeOK`, `NothingLost` and `DeletedEmpty`

 * `AcksInv`: an ack, queued or in a packet, is for a command that has been received.
   With it an ack takes off only what has arrived, which is `NothingLost`;
 * `SentInv`: what is queued, in a packet, received or acknowledged has been sent;
 * `NumbersInv`: the IDs of a machine's commands are counted on from `FirstID` modulo
   `IDSpace`, and by `NewID` the next one is new. The refinement needs it, because
   `AtLeastOnce` hands over each command once, and `AckedLeaves` does.

`AckedLeaves` complements the finding of the run `ConnectionWrap`: `NoCommandZero` is
what the run breaks, and it is all that is missing.

`AckStagesProofs.tla` is for any number of players and commands, whoever leaves and
whenever; the fallback plan is only assumed to have a first player without the leaver.

| theorem | says |
|---|---|
| `TypeCorrect` | `[]TypeOK` |
| `NothingForgotten` | `[]SomeoneStillSends` |
| `NoWaitInVain` | `[]RelayedIsQueued` |
| `AcksAreSound` | `[]EveryoneElseHasIt` |
| `PendingIsPassedOn` | `[]PendingIsUnderway` |
| `NothingIsLost` | `[]NothingIsGone` |

All rest on `Invariant`. Its `IInv` adds to these properties

 * `GivenInv`, `RanInv`: who has a command got it from its giver, and a frame is run with
   all of its commands;
 * `PacketInv`: only a packet router is sent something to relay;
 * `AckInv`: an ack says that its sender has the command, a stage 2 ack that the first
   router has it, unless the router has changed;
 * `RelayInv`: only a router relays, what it has itself;
 * `RouterInv`: as long as the first router is there, a command its giver no longer keeps
   is at the router, which is sending it to whoever lacks it;
 * `LaterRouterInv`: after the leave a pending command is queued for the next router,
   until that one, which does not leave, has queued it for everyone.

Two exceptions are part of `SomeoneStillSends`, and the code has them: once the router
has changed (`RouterChanged`), and when the router has been sent the command as frame data
(`FrameDataForRouter`), a machine that answers a copy with nobody left to relay it to
acknowledges both stages at once. See the finding. `NothingIsLost` says what is left in
these cases. It rests on a second invariant, `HeldInv`, which is inductive beside `IInv`. A
command is held when the router there is without `Leaver` has it or somebody who stays has run
its frame; that is stable (`StaysHeld`). `LastHeld` says so of every command that has been sent to
the first router, if it is the one to leave, with nobody to relay to: such a copy is frame data,
from a player who stays and has run the frame, or the giver is the only other player. `FinalHeld` says so of every ack that
makes a giver forget, and `ForgottenHeld` of what has been forgotten. What is still pending
after the leave is queued or held by `LaterRouterInv`.

`SleepyUpdatesProofs.tla` is for any modules, objects, phases, delays and number of frames.

| theorem | says |
|---|---|
| `TypeCorrect` | `[]TypeOK` |
| `PositionsAgree` | `[]IndexMatches` |
| `HeapStaysOrdered` | `[]HeapOrdered` |
| `RootIsCurrent` | `[]CurrentIsRoot` |
| `NoneSleepsThrough` | `[]OnTime` |
| `InOrder` | `CallsInOrder` |
| `KeepsTimetable` | the heap under the loop implements `Scheduler` |

`HeapOrdered` speaks of the time between operations only. `HeapInv`, in `IInv`, says what holds
inside them: only the edges at the position of the loop may be out of order, and the
parent of that position comes before its children, so a swap moves the disorder by one
level. That the root of an ordered heap comes before every module is an induction over
positions (`RootIsFirst`); the library's induction theorems cannot be used, but the
well-foundedness of `<` gives induction for sets of numbers (`SetInduction`), and that is
enough. `CurInv` says that the called module is at the root, is due, and comes before all
others: with `OrderInv`, what is woken or entered meanwhile does not come before it, and
since the comparison is strict an equal one does not take its place. `EnteredInv` says
which modules are scheduled in the middle of entering and erasing.

`NetCommandListProofs.tla` is for lists of any length. `TypeCorrect` (`[]TypeOK`) holds for
commands of any kind. `Canonical` (`[]OrderIsCanonical`) and `NothingLost`
(`[]HoldsWhatWasOffered`) assume `CommandsAreNumbered`: all commands have IDs and a player
uses none twice, which is so for the data of a frame and not for a queue with acks, where
`NoDuplicates` fails. `OrderIsCanonical` and `HoldsWhatWasOffered` are inductive together
with `TypeOK`: in a sorted list the search stops where everything behind is smaller
(`SearchSplits`), the place after the cursor splits the list in the same way (`CursorFits`),
and so the one command compared is the only one that can be equal (`Splits`,
`RefusedIsThere`). `NumberedOnce` concludes `[]NoDuplicates` under the same assumption, so the acks
are all that breaks it in the run `NetCommandListAcks`. `SameOrderEverywhere` draws the conclusion for the game:
`[](list = InOrder(offered))`, the list is a function of the set of commands it was offered.
`Agreement` in `Lockstep` says that all machines run the same set for a frame; together they
run the same commands in the same order. It rests on `OneOrder`, which says that two strictly
sorted sequences of the same commands are equal.

`Modulo.tla` has the facts about remainders that the ring and the IDs share.

Only model-checked: the liveness properties `EveryFrameIsRun`, `EverythingArrives`,
`QuittingEnds`, `EveryoneGoesOn` and `EveryLoopEnds`, because the prover has no fairness.
`AllIsSent`, `AcceptedIsKept` and `NothingIsGone` are the safety part of the first and the
fourth, and are proved.
Every invariant and every refinement of a passing run is proved, `AckedIsOff` and the last two
invariants of `NetCommandList` under the hypotheses named with them.

## 5. Findings

 * `NetCommandListAcks`: `addMessage` says before each insertion "Make sure this
   command isn't already in the list", but compares with one neighbour. For
   commands that is enough (`HoldsWhatWasOffered`). Acks of equally numbered
   commands of two players sort alike, and one of them added twice gets in twice.
   The consequence is a superfluous ack.
 * `ConnectionWrap`: `processAck` looks for an entry with the acked ID and the local
   player. Queued acks have the local player and ID 0, and come first. After the
   16-bit counter, which starts at 64000, has passed 65535, the ack of command 0
   removes a queued ack; command 0 is sent once more, and the command whose ack was
   lost too.
 * `AckStagesForgets`: `NetCommandMsg.h` (line 151) says of a returned stage 2 ack that all
   players in the relay mask have received the command. `ackCommand` acknowledges both stages
   at once whenever the packet it answers has nobody left to relay to. After the router
   has left, the next one answers in this way a late copy that the old router
   had relayed to it alone. The giver then forgets the command, as pending and in its
   queue, though another player lacks it, and if the old router dropped the
   copy it was relaying, nobody sends it. The game stalls until the disconnect screen makes a
   machine that has the frame send it (`EveryoneGoesOn`). The command itself is not gone
   (`NothingIsGone`, which is proved).

## 6. Not modelled

 * `DisconnectManager` but for the exchange of kept frames: its timeouts, votes and its query
   for the next router decide by wall-clock times of three sizes and by the votes of
   people. A model would choose all of these freely, and what would be left is the
   order of messages on the disconnect screen.
 * Leaving: how `PLAYERLEAVE` gets its frame, and the deletion of the leaver's frame data
   `FRAMES_TO_KEEP` frames later. `AckStages` starts from a leave frame everybody knows.
 * `NetPacket`: the decoder fills in what the encoder left out because it repeats the previous
   command; a sequential function of one packet, best tested by decoding what was encoded.
 * `NetCommandWrapperList` and the splitting of large commands; the chunks are ordinary commands
   of `Connection`, and each has its own place and flag in the buffer.
 * `Transport` and `UDP` appear as the environment: loss, doubling, reordering, a refused
   packet.
 * LAN lobby, NAT negotiation, file transfer, GameSpy: they end before the lockstep begins and
   keep no state that it depends on but the list of players.
 * The simulation apart from its update list, the client, tools and libraries: sequential,
   numeric, data-driven or presentation. Most of the repository's code is of this kind, which is why
   the specifications stand beside a small share of its lines.
