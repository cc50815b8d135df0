--------------------------- MODULE MCSleepyUpdates ---------------------------
(* Small instances of SleepyUpdates for TLC. *)
EXTENDS SleepyUpdates

CONSTANTS tank, shell, tankAI, tankGun, tankTracker, shellTimer

\* A tank has a module of the first, the normal and the last phase; the shell one.
MCOwner == [u \in Modules |-> IF u = shellTimer THEN shell ELSE tank]
MCPhase == [u \in Modules |-> CASE u = tankAI -> 0 [] u = tankTracker -> 3 [] OTHER -> 2]
=============================================================================
