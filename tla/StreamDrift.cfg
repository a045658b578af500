CONSTANTS
  Fps = 30
  Tracks = 1
  MaxTime = 100
SPECIFICATION StreamingSpec
INVARIANTS StampsAgree
CHECK_DEADLOCK FALSE
