------------------------------ MODULE FrameSync ------------------------------
(***************************************************************************)
(* What the lockstep core promises.  Every player gives commands for       *)
(* frames it has not closed, closes its frames in order, and runs a frame  *)
(* only when everybody has closed it, with exactly the commands everybody  *)
(* gave for it.  There are no messages, counts, rings or run aheads here.  *)
(***************************************************************************)
EXTENDS Integers

CONSTANTS
  Players,
  Command,        \* records with at least the fields player and frame
  MaxFrame,       \* bound: the frame where the exploration stops
  FirstOpenFrame  \* frames before it start closed and empty

VARIABLES
  frame,    \* the frame each player is about to run
  closed,   \* the last frame each player has closed
  issued,   \* the commands each player has given
  executed  \* what each player ran on each frame

vars == <<frame, closed, issued, executed>>

Init ==
  /\ frame    = [p \in Players |-> 0]
  /\ closed   = [p \in Players |-> FirstOpenFrame - 1]
  /\ issued   = [p \in Players |-> {}]
  /\ executed = [p \in Players |-> [f \in 0 .. MaxFrame |-> {}]]

Issue(p) ==
  /\ issued' = [issued EXCEPT ![p] = issued'[p]]
  /\ issued[p] \subseteq issued'[p]
  /\ \A c \in issued'[p] \ issued[p] :
       c \in Command /\ c.player = p /\ c.frame > closed[p]
  /\ UNCHANGED <<frame, closed, executed>>

Close(p) ==
  /\ closed'[p] \in Nat /\ closed'[p] > closed[p]
  /\ closed' = [closed EXCEPT ![p] = closed'[p]]
  /\ UNCHANGED <<frame, issued, executed>>

Given(f) == {c \in UNION {issued[q] : q \in Players} : c.frame = f}

Run(p) ==
  /\ frame[p] < MaxFrame
  /\ \A q \in Players : frame[p] <= closed[q]
  /\ executed' = [executed EXCEPT ![p][frame[p]] = Given(frame[p])]
  /\ frame'    = [frame EXCEPT ![p] = @ + 1]
  /\ UNCHANGED <<closed, issued>>

Next == \E p \in Players : Issue(p) \/ Close(p) \/ Run(p)

Spec == Init /\ [][Next]_vars
=============================================================================
