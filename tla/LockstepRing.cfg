\* Two machines and the smallest ring (six slots): frames 6 and 7 reuse slots 0 and 1.
SPECIFICATION Spec
CONSTANTS
  Players <- Both
  PacketRouter = 0
  MAX_FRAMES_AHEAD = 2
  MIN_RUNAHEAD = 1
  DefaultRunAhead = 30
  MaxFrame = 8
  MaxCommands <- RouterTwoClientOne
INVARIANTS TypeOK SlotsHoldOneFrame DroppedWasRun
PROPERTIES KeepsPromise AcceptedIsKept
