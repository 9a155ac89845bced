SPECIFICATION FairSpec
CONSTANTS
  Sockets = {s1, s2, s3}
  NoSocket = NoSocket
  MaxAttempts = 3
  MaxQueue = 2
  MaxTimers = 3
  MaxRecords = 7
INVARIANTS
  LinesInOrder
  OneConnectionUnlessCrossed
  DisabledIsDisconnectedUnlessCrossed
PROPERTIES
  ImplementsLogQueue
  QueueDrains
CHECK_DEADLOCK FALSE
