\* The commands of a frame: two players, orders and run ahead commands.
SPECIFICATION Spec
CONSTANTS
  Commands <- FrameCommands
  NeedsID <- WithID
  MaxLength = 10
INVARIANTS TypeOK OrderIsCanonical HoldsWhatWasOffered
