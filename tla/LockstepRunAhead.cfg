\* Two machines whose run ahead moves between one and three frames.
SPECIFICATION Spec
CONSTANTS
  Players <- Both
  PacketRouter = 0
  MAX_FRAMES_AHEAD = 6
  MIN_RUNAHEAD = 1
  DefaultRunAhead = 3
  MaxFrame = 6
  MaxCommands <- OneEach
INVARIANTS Agreement CountsAreFinal
