CONSTANTS
  Datagrams <- OneFrame
  FecData = 2
  FecParity = 2
  QueueSize = 1
SPECIFICATION ReceiverSpec
INVARIANTS FramesAreComplete
CHECK_DEADLOCK FALSE
