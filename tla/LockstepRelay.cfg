\* Three machines: two clients whose messages the router relays.
SPECIFICATION Spec
CONSTANTS
  Players <- Trio
  PacketRouter = 1
  MAX_FRAMES_AHEAD = 2
  MIN_RUNAHEAD = 1
  DefaultRunAhead = 30
  MaxFrame = 3
  MaxCommands <- OneEach
INVARIANTS AllIsSent Agreement NoResend BoundedSkew
