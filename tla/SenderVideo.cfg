CONSTANTS
  Tasks = {t1}
  Nobody = Nobody
  FecEnabled = TRUE
  DataShards = 2
  ParityShards = 1
  MaxFragments = 2
  MaxCalls = 3
SPECIFICATION FairSenderSpec
PROPERTIES VideoReturns
CHECK_DEADLOCK FALSE
