\* A connection's queue, with acks of equally numbered commands of two players.
SPECIFICATION Spec
CONSTANTS
  Commands <- QueueCommands
  NeedsID <- WithID
  MaxLength = 6
INVARIANT NoDuplicates
