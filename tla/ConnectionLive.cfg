\* Left sends two commands, one of them with ID 0, and may quit.
SPECIFICATION FairSpec
CONSTANTS
  Left = "left"
  Right = "right"
  IDSpace = 2
  FirstID = 1
  MaxCommands <- TwoAndNone
  PacketSize = 1
  Doubles = FALSE
  Quitters <- LeftQuits
INVARIANT TypeOK
PROPERTIES EverythingArrives QuittingEnds
CHECK_DEADLOCK FALSE
