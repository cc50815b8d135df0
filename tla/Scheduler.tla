------------------------------ MODULE Scheduler ------------------------------
(***************************************************************************)
(* What the sleepy update list of GameLogic promises to the simulation: a  *)
(* timetable of update modules in which every module has a call frame; of  *)
(* the modules that are due the one with the smallest (frame, phase) is    *)
(* called next, and no frame passes while a module of an earlier frame is  *)
(* waiting.  SleepyUpdates implements it with a binary heap.               *)
(***************************************************************************)
EXTENDS Integers

CONSTANTS Modules, Phase, Frames, None

VARIABLES frame,    \* the logic frame
          due,      \* call frame of every scheduled module
          running   \* the module whose update() is being executed, or None

sVars == <<frame, due, running>>

\* Modules are called in the order of their frame and, within it, of their phase.
Before(u, v) == 4 * due[u] + Phase[u] <= 4 * due[v] + Phase[v]

IsNext(u) == /\ running = None
             /\ u \in DOMAIN due
             /\ due[u] <= frame
             /\ \A v \in DOMAIN due : Before(u, v)

SInit == frame = 0 /\ due = [u \in {} |-> 0] /\ running = None

\* A new module is put on the timetable, not earlier than this frame.
Insert(u, f) == /\ u \notin DOMAIN due
                /\ f >= frame
                /\ due' = [v \in DOMAIN due \cup {u} |-> IF v = u THEN f ELSE due[v]]
                /\ UNCHANGED <<frame, running>>

\* A module that is not running gets another call frame.
Change(u, f) == /\ u \in DOMAIN due \ {running}
                /\ f >= frame
                /\ due' = [due EXCEPT ![u] = f]
                /\ UNCHANGED <<frame, running>>

Start(u) == /\ IsNext(u)
            /\ running' = u
            /\ UNCHANGED <<frame, due>>

\* The running module, or the next one if its object is disabled, is done for this frame.
Finish(u, f) == /\ IsNext(u) \/ (running = u /\ u \in DOMAIN due)
                /\ f > frame
                /\ due' = [due EXCEPT ![u] = f]
                /\ running' = None
                /\ UNCHANGED frame

Delete(u) == /\ running = None
             /\ u \in DOMAIN due
             /\ due' = [v \in DOMAIN due \ {u} |-> due[v]]
             /\ UNCHANGED <<frame, running>>

\* What was due before this frame has been called when the frame ends.
Tick == /\ running = None
        /\ \A u \in DOMAIN due : due[u] >= frame
        /\ frame' = frame + 1
        /\ UNCHANGED <<due, running>>

SNext == \/ Tick
         \/ \E u \in Modules : Start(u) \/ Delete(u)
         \/ \E u \in Modules, f \in Frames : Insert(u, f) \/ Change(u, f) \/ Finish(u, f)

SSpec == SInit /\ [][SNext]_sVars
=============================================================================
