SPECIFICATION FairSpec
CONSTANTS
  None = None
  MaxCommands = 3
CHECK_DEADLOCK FALSE
INVARIANTS TypeOK OwnReply RunningCounted
PROPERTIES SyncIsComplete CommittedIsAnswered SyncReturnsWhileConnected
