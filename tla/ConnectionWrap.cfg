\* The IDs run through 0, as they do after 1536 commands of a game.
SPECIFICATION Spec
CONSTANTS
  Left = "left"
  Right = "right"
  IDSpace = 4
  FirstID = 3
  MaxCommands <- TwoAndOne
  PacketSize = 2
  Doubles = TRUE
  Quitters <- NoQuitter
INVARIANT AckedIsOff
