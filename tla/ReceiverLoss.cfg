CONSTANTS
  Datagrams <- OneGroup
  FecData = 2
  FecParity = 1
  QueueSize = 1
SPECIFICATION ReceiverSpec
INVARIANTS LossIsRecovered
CHECK_DEADLOCK FALSE
