---------------------------- MODULE SleepyUpdates ----------------------------
(***************************************************************************)
(* The sleepy update list of GameLogic: the binary heap m_sleepyUpdates of *)
(* update modules ordered by (call frame, phase), the position that every  *)
(* module keeps of itself, and the part of GameLogic::update that calls    *)
(* the modules that are due.  A module's update() may wake other modules,  *)
(* create objects and doom objects, so the heap changes under the loop.    *)
(*                                                                         *)
(* One iteration of a rebalancing loop is one step: while mode # "idle"    *)
(* no other action is enabled, as the code is single-threaded.             *)
(* Positions count from 1: position p is the code's index p - 1, and       *)
(* index[u] = 0 is the code's m_indexInLogic == -1.  A definition named     *)
(* Mutant... is a wrong form of the one after it, which breaks a property. *)
(***************************************************************************)
EXTENDS Integers, Sequences

CONSTANTS Modules,   \* update modules
          Objects,   \* game objects
          Owner,     \* the object of each module
          Phase,     \* getUpdatePhase() of each module: 0..3
          Delays,    \* sleep times that occur, in frames
          Forever,   \* UPDATE_SLEEP_FOREVER
          MaxFrame,  \* bound: the last logic frame
          None

PHASE_NORMAL == 2

ASSUME OwnerAssumption == Owner \in [Modules -> Objects]
ASSUME PhaseAssumption == Phase \in [Modules -> 0..3]
ASSUME DelaysAssumption == Delays \subseteq Nat \ {0}
ASSUME FrameAssumption == MaxFrame \in Nat /\ Forever \in Nat /\ MaxFrame < Forever
ASSUME NoneAssumption == None \notin Modules

VARIABLES heap,     \* m_sleepyUpdates
          index,    \* m_indexInLogic of every module
          next,     \* m_nextCallFrameAndPhase >> 2 of every module
          mode,     \* the rebalancing loop being run, or "idle"
          pos,      \* the position it has reached
          low,      \* remakeSleepyUpdate's parent
          frame,    \* m_frame
          loc,      \* the part of GameLogic::update being run
          cur,      \* m_curUpdateModule
          inList,   \* the objects in m_objList
          doomed,   \* m_objectsToDestroy
          pushing,  \* modules registerObject has still to push
          erasing,  \* sleepyUpdatesForThisObject: modules still to be erased
          last,     \* ghost: the priority of the last module called in this frame
          late      \* ghost: modules made due after the loop of the frame they are due in

heapVars == <<heap, index, next, mode, pos, low>>
clock == <<frame, loc, cur, last, late>>
world == <<inList, doomed, pushing, erasing>>
vars == <<heap, index, next, mode, pos, low, frame, loc, cur,
          inList, doomed, pushing, erasing, last, late>>

friend_getPriority(u) == 4 * next[u] + Phase[u]

MutantNotStrict(a, b) == friend_getPriority(a) >= friend_getPriority(b)
isLowerPriority(a, b) == friend_getPriority(a) > friend_getPriority(b)

\* friend_setNextCallFrame: anything greater than "forever" is still "forever".
MutantNoClamp(f) == f
Clamp(f) == IF f > Forever THEN Forever ELSE f

Scheduled == {u \in Modules : index[u] # 0}
ModulesOf(o) == {u \in Modules : Owner[u] = o}
Idle == mode = "idle" /\ pushing = {} /\ erasing = {}

-----------------------------------------------------------------------------
\* The rebalancing loops.

MutantOneIndex(p, q) == /\ heap' = [heap EXCEPT ![p] = heap[q], ![q] = heap[p]]
                        /\ index' = [index EXCEPT ![heap[p]] = q]
Swap(p, q) == /\ heap' = [heap EXCEPT ![p] = heap[q], ![q] = heap[p]]
              /\ index' = [index EXCEPT ![heap[p]] = q, ![heap[q]] = p]

Rebalance(m, p) == mode' = m /\ pos' = p

\* rebalanceParentSleepyUpdate; a push does not go on to rebalance the children.
SiftUp == /\ mode \in {"push", "up"}
          /\ IF pos > 1 /\ isLowerPriority(heap[pos \div 2], heap[pos])
             THEN /\ Swap(pos, pos \div 2)
                  /\ Rebalance(mode, pos \div 2)
             ELSE /\ Rebalance(IF mode = "push" THEN "idle" ELSE "down", pos)
                  /\ UNCHANGED <<heap, index>>
          /\ UNCHANGED <<next, low, clock, world>>

MutantLeftChild(p) == 2 * p
HigherPriorityChild(p) ==
    IF 2 * p < Len(heap) /\ isLowerPriority(heap[2 * p], heap[2 * p + 1])
    THEN 2 * p + 1
    ELSE 2 * p

\* remakeSleepyUpdate goes on to the root.
MutantSkipsRoot == low > 2
MoreParents == low > 1

\* rebalanceChildSleepyUpdate, and remakeSleepyUpdate's step to the next parent.
SiftDown == /\ mode \in {"down", "remake"}
            /\ IF 2 * pos <= Len(heap) /\ isLowerPriority(heap[pos], heap[HigherPriorityChild(pos)])
               THEN /\ Swap(pos, HigherPriorityChild(pos))
                    /\ Rebalance(mode, HigherPriorityChild(pos))
                    /\ UNCHANGED low
               ELSE /\ UNCHANGED <<heap, index>>
                    /\ IF mode = "remake" /\ MoreParents
                       THEN Rebalance("remake", low - 1) /\ low' = low - 1
                       ELSE Rebalance("idle", pos) /\ UNCHANGED low
            /\ UNCHANGED <<next, clock, world>>

-----------------------------------------------------------------------------
\* The operations.

\* Where the rest of the simulation runs: scripts and commands before the loop, a
\* module's update() in it, AI, building and partition after it, delayed damage at the end.
OthersRun == Idle /\ loc \in {"before", "update", "after", "tail"}
AfterLoop == loc \in {"after", "destroy", "tail"}

\* The deletions at the end of processDestroyList wake and doom further objects but create
\* none (what they do before the first deletion could as well be done in "after").
DestructorsRun == Idle /\ loc = "destroy"

\* Only a module of the normal phase leaves its first call frame 0 or asks for a delay of
\* 0: AIUpdate (the initial phase), PhysicsUpdate and FiringTracker (the last phase), the
\* only modules of another phase, give a delay of at least 1 in their constructors and
\* wherever they are woken (AIUpdate.cpp:299, PhysicsUpdate.cpp:230, 352, 402 and 435,
\* FiringTracker.cpp:51 and 174).
MayAskForNow(u) == Phase[u] = PHASE_NORMAL

\* A module may be made due in this very frame, but not by one of a later phase:
\* FiringTracker wakes and creates nothing in its update() (FiringTracker.cpp:178-214).
MayBeDueNow(u) == MayAskForNow(u) /\ (cur # None => Phase[cur] <= Phase[u])

\* registerObject, up to its loop; the constructors of the modules have asked for delay d.
registerObject(o, d) ==
    /\ OthersRun
    /\ o \notin inList
    /\ \A u \in ModulesOf(o) : d[u] = 0 => MayBeDueNow(u)
    /\ inList' = inList \cup {o}
    /\ pushing' = ModulesOf(o)
    /\ next' = [u \in Modules |-> IF u \notin ModulesOf(o) THEN next[u]
                                  ELSE IF d[u] = 0 THEN 0 ELSE Clamp(frame + d[u])]
    /\ UNCHANGED <<heap, index, mode, pos, low, doomed, erasing, clock>>

\* pushSleepyUpdate, after registerObject has given a module without a call frame this one.
pushSleepyUpdate(u) ==
    /\ mode = "idle"
    /\ u \in pushing
    /\ pushing' = pushing \ {u}
    /\ next' = [next EXCEPT ![u] = IF @ # 0 THEN @ ELSE IF frame = 0 THEN 1 ELSE frame]
    /\ heap' = Append(heap, u)
    /\ index' = [index EXCEPT ![u] = Len(heap) + 1]
    /\ Rebalance("push", Len(heap) + 1)
    /\ late' = IF AfterLoop /\ next'[u] = frame THEN late \cup {u} ELSE late
    /\ UNCHANGED <<low, frame, loc, cur, inList, doomed, erasing, last>>

\* What has been woken is rebalanced upwards and downwards.
MutantOnlyDown == "down"
AfterWake == "up"

\* friend_awakenUpdateModule for a module of an object in the list.
friend_awakenUpdateModule(u, d) ==
    LET whenToWakeUp == frame + d
    IN  /\ OthersRun \/ DestructorsRun
        /\ Owner[u] \in inList
        /\ u # cur
        /\ d = 0 => MayBeDueNow(u)
        /\ whenToWakeUp # next[u]
        /\ ~(frame > 0 /\ next[u] = frame /\ whenToWakeUp = frame + 1)
        /\ next' = [next EXCEPT ![u] = Clamp(whenToWakeUp)]
        /\ Rebalance(AfterWake, index[u])
        /\ late' = IF AfterLoop /\ d = 0 THEN late \cup {u} ELSE late \ {u}
        /\ UNCHANGED <<heap, index, low, frame, loc, cur, last, world>>

\* destroyObject only marks the object.
destroyObject(o) == /\ OthersRun \/ DestructorsRun
                    /\ o \in inList \ doomed
                    /\ doomed' = doomed \cup {o}
                    /\ UNCHANGED <<heapVars, clock, inList, pushing, erasing>>

-----------------------------------------------------------------------------
\* GameLogic::update.

BeginLoop == /\ Idle /\ loc = "before"
             /\ loc' = "loop"
             /\ last' = 0
             /\ UNCHANGED <<heapVars, world, frame, cur, late>>

\* The root is called if it is due.
RootIsDue == Idle /\ loc = "loop" /\ heap # <<>> /\ next[heap[1]] <= frame

CallUpdate == /\ RootIsDue
              /\ cur' = heap[1]
              /\ last' = friend_getPriority(heap[1])
              /\ loc' = "update"
              /\ UNCHANGED <<heapVars, world, frame, late>>

\* After the call u gets its next frame and whatever is at the root is rebalanced.
MutantStaysDue(u, sleepLen) ==
    /\ next' = [next EXCEPT ![u] = Clamp(frame + sleepLen)]
    /\ Rebalance("up", 1)
    /\ late' = late \ {u}
    /\ UNCHANGED <<heap, index, low, frame, last, world>>
Requeue(u, sleepLen) ==
    /\ next' = [next EXCEPT ![u] = Clamp(frame + (IF sleepLen < 1 THEN 1 ELSE sleepLen))]
    /\ Rebalance("up", 1)
    /\ late' = late \ {u}
    /\ UNCHANGED <<heap, index, low, frame, last, world>>

ReturnFromUpdate(sleepLen) == /\ Idle /\ loc = "update"
                              /\ Requeue(cur, sleepLen)
                              /\ cur' = None
                              /\ loc' = "loop"

\* A module whose object is disabled is put off to the next frame.
SkipDisabled == /\ RootIsDue
                /\ Requeue(heap[1], 1)
                /\ UNCHANGED <<cur, loc>>

MutantBreaksEarly == /\ Idle /\ loc = "loop"
                     /\ heap # <<>> => next[heap[1]] >= frame
                     /\ loc' = "after"
                     /\ late' = {}
                     /\ UNCHANGED <<heapVars, world, frame, cur, last>>
EndLoop == /\ Idle /\ loc = "loop"
           /\ heap # <<>> => next[heap[1]] > frame
           /\ loc' = "after"
           /\ late' = {}
           /\ UNCHANGED <<heapVars, world, frame, cur, last>>

BeginDestroy == /\ Idle /\ loc = "after"
                /\ loc' = "destroy"
                /\ UNCHANGED <<heapVars, world, frame, cur, last, late>>

\* processDestroyList for one object: first its modules are collected ...
processDestroyList(o) == /\ Idle /\ loc = "destroy"
                         /\ o \in doomed
                         /\ doomed' = doomed \ {o}
                         /\ inList' = inList \ {o}
                         /\ erasing' = {u \in ModulesOf(o) : u \in Scheduled}
                         /\ UNCHANGED <<heapVars, clock, pushing>>

\* ... then erased one by one; the last module takes the place of the erased one.  The
\* module is deleted, and its name free for a new one whose fields are zero.
eraseSleepyUpdate(u) ==
    LET final == Len(heap)
        i     == index[u]
    IN  /\ mode = "idle"
        /\ u \in erasing
        /\ erasing' = erasing \ {u}
        /\ heap' = [p \in 1..(final - 1) |-> IF p = i THEN heap[final] ELSE heap[p]]
        /\ IF i < final
           THEN /\ index' = [index EXCEPT ![heap[final]] = i, ![u] = 0]
                /\ Rebalance("up", i)
           ELSE /\ index' = [index EXCEPT ![u] = 0]
                /\ UNCHANGED <<mode, pos>>
        /\ next' = [next EXCEPT ![u] = 0]
        /\ late' = late \ {u}
        /\ UNCHANGED <<low, frame, loc, cur, last, inList, doomed, pushing>>

EndDestroy == /\ Idle /\ loc = "destroy" /\ doomed = {}
              /\ loc' = "tail"
              /\ UNCHANGED <<heapVars, world, frame, cur, last, late>>

EndFrame == /\ Idle /\ loc = "tail"
            /\ frame < MaxFrame
            /\ frame' = frame + 1
            /\ loc' = "before"
            /\ UNCHANGED <<heapVars, world, cur, last, late>>

\* loadPostProcess: the objects of the saved game, whose modules keep their call frames,
\* are entered in the order of the object list and the heap is made again.
loadPostProcess ==
    /\ Idle /\ loc = "before" /\ doomed = {}
    /\ heap # <<>>
    /\ \E order \in [1..Len(heap) -> Scheduled] :
          /\ \A u \in Scheduled : \E p \in 1..Len(heap) : order[p] = u
          /\ \A p, q \in 1..Len(heap) : order[p] = order[q] => p = q
          /\ heap' = order
          /\ index' = [u \in Modules |-> IF u \in Scheduled
                                         THEN CHOOSE p \in 1..Len(heap) : order[p] = u
                                         ELSE 0]
    /\ low' = (Len(heap) \div 2) + 1
    /\ Rebalance("remake", (Len(heap) \div 2) + 1)
    /\ UNCHANGED <<next, world, clock>>

-----------------------------------------------------------------------------
Init == /\ heap = <<>>
        /\ index = [u \in Modules |-> 0]
        /\ next = [u \in Modules |-> 0]
        /\ mode = "idle" /\ pos = 1 /\ low = 1
        /\ frame = 0 /\ loc = "before" /\ cur = None
        /\ inList = {} /\ doomed = {} /\ pushing = {} /\ erasing = {}
        /\ last = 0 /\ late = {}

Rebalancing == SiftUp \/ SiftDown

Others == \/ \E o \in Objects : \E d \in [ModulesOf(o) -> Delays \cup {0}] : registerObject(o, d)
          \/ \E u \in Modules, d \in Delays \cup {0} : friend_awakenUpdateModule(u, d)
          \/ \E o \in Objects : destroyObject(o)
          \/ loadPostProcess

Return == \E d \in Delays \cup {0} : ReturnFromUpdate(d)

Loop == CallUpdate \/ SkipDisabled \/ EndLoop

Cleanup == \/ BeginDestroy \/ EndDestroy \/ EndFrame
           \/ \E o \in Objects : processDestroyList(o)

Entries == \E u \in Modules : pushSleepyUpdate(u) \/ eraseSleepyUpdate(u)

Next == Rebalancing \/ Others \/ BeginLoop \/ Return \/ Loop \/ Cleanup \/ Entries

Spec == Init /\ [][Next]_vars

\* The thread runs on; an update() returns, and the rest of the simulation hands over to
\* the loop, after finitely many calls.
Fairness == /\ WF_vars(Rebalancing \/ Loop \/ Entries)
            /\ SF_vars(Return)

FairSpec == Spec /\ Fairness

-----------------------------------------------------------------------------
\* The types of the variables; a position is inside the heap or 0.
TypeOK == /\ heap \in Seq(Modules)
          /\ index \in [Modules -> 0..Len(heap)]
          /\ next \in [Modules -> 0..Forever]
          /\ mode \in {"idle", "push", "up", "down", "remake"}
          /\ pos \in Nat \ {0} /\ low \in Nat \ {0}
          /\ frame \in 0..MaxFrame
          /\ loc \in {"before", "loop", "update", "after", "destroy", "tail"}
          /\ cur \in Modules \cup {None}
          /\ doomed \subseteq Objects /\ inList \subseteq Objects
          /\ pushing \subseteq Modules /\ erasing \subseteq Modules
          /\ last \in Nat /\ late \subseteq Modules

\* Every scheduled module knows its position, and the module at a position is a scheduled
\* one that knows it ("fatal error! sleepy update module index mismatch").
IndexMatches == /\ \A u \in Scheduled : heap[index[u]] = u
                /\ \A p \in DOMAIN heap : index[heap[p]] = p

\* Between operations no module is above one that comes before it ("sleepyUpdates are
\* munged"), although update() wakes modules, and objects come and go, under the loop.
HeapOrdered == mode = "idle" =>
    \A p \in 2..Len(heap) : ~isLowerPriority(heap[p \div 2], heap[p])

\* The module being updated stays at the root, where the loop expects it when it gives it
\* its next frame and rebalances position 0, whatever update() wakes or creates.
CurrentIsRoot == cur # None => heap # <<>> /\ heap[1] = cur

\* No module sleeps through its frame: after the loop every module is due later, unless it
\* was made due after the loop, and such a one is due in the next frame's loop.
OnTime == \A u \in Scheduled :
    \/ next[u] >= (IF AfterLoop THEN frame + 1 ELSE frame)
    \/ u \in late /\ next[u] + 1 >= (IF AfterLoop THEN frame + 1 ELSE frame)

\* The calls of one frame are made in the order of frame and phase: what an update() wakes
\* or creates is never called ahead of its turn.
CallsInOrder == [][loc = "loop" /\ loc' = "update" => last' >= last]_vars

\* The update list keeps the promise of the timetable.
Abstract == INSTANCE Scheduler WITH
    Frames <- 0..Forever, running <- cur, due <- [u \in Scheduled |-> next[u]]
Timetable == Abstract!SSpec

\* The loop of a frame comes to its end, unless modules wake each other for this very
\* frame for ever.
EveryLoopEnds ==
    <>[][\A u \in Modules : ~friend_awakenUpdateModule(u, 0)]_vars =>
        (loc = "loop" ~> loc = "after")
=============================================================================
