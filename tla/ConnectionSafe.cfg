\* Both sides send, may quit, and the network doubles; no command has ID 0.
SPECIFICATION Spec
CONSTANTS
  Left = "left"
  Right = "right"
  IDSpace = 4
  FirstID = 0
  MaxCommands <- TwoAndOne
  PacketSize = 1
  Doubles = TRUE
  Quitters <- BothQuit
INVARIANTS NothingLost DeletedEmpty AckedIsOff
PROPERTY DeliversAtLeastOnce
CHECK_DEADLOCK FALSE
