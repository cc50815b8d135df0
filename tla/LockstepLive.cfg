\* Liveness: three machines, orders from one client.
SPECIFICATION FairSpec
CONSTANTS
  Players <- Trio
  PacketRouter = 1
  MAX_FRAMES_AHEAD = 2
  MIN_RUNAHEAD = 1
  DefaultRunAhead = 2
  MaxFrame = 3
  MaxCommands <- OneClientOrders
PROPERTY EveryFrameIsRun
