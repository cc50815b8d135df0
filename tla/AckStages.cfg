\* Slot 0 routes and leaves a frame after the one that player 2 gave a command for.
SPECIFICATION FairSpec
CONSTANTS
  leave = leave
  early = early
  late = late
  Players = {0, 1, 2}
  Leaver = 0
  Commands = {early}
  Origin <- MCOrigin
  Frame <- MCFrame
  LeaveFrame = 4
  FirstFrame = 2
  LastFrame = 4
  FRAMES_TO_KEEP = 2
INVARIANTS TypeOK SomeoneStillSends RelayedIsQueued EveryoneElseHasIt PendingIsUnderway NothingIsGone
PROPERTY EveryoneGoesOn
CHECK_DEADLOCK FALSE
