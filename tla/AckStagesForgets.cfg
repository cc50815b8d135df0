\* Four players, so that two wait for what the router relays.
SPECIFICATION Spec
CONSTANTS
  leave = leave
  early = early
  late = late
  Players = {0, 1, 2, 3}
  Leaver = 0
  Commands = {leave, late}
  Origin <- MCOrigin
  Frame <- MCFrame
  LeaveFrame = 3
  FirstFrame = 2
  LastFrame = 4
  FRAMES_TO_KEEP = 2
INVARIANT ForgottenWhenReceived
CHECK_DEADLOCK FALSE
