CONSTANTS
  Datagrams <- Arrivals
  FecData = 1
  FecParity = 1
  QueueSize = 1
  MaxPts = 5
  MaxReceived = 6
  MaxFrames = 3
  TargetDepth = 3
  MinDepth = 1
  None = None
  Nobody = None
  Tasks = {t1, t2}
  FecEnabled = TRUE
  DataShards = 2
  ParityShards = 1
  MaxFragments = 2
  MaxCalls = 5
  Skews <- FewSkews
  Steps <- FewSteps
  MaxSets = 1
  MaxTime = 2
  MaxInFlight = 2
  SampleCount = 3
  MinSamples = 2
  MaxDrift = 5
  Unknown = Unknown
  Packets <- Samples
  MaxPacketSize = 1472
  Padding = 20
SPECIFICATION LibrarySpec
INVARIANTS LibraryTypeOK NothingBufferedIsLate ProtectedOnce RepairFollowsData ClosedIsFlushed OffsetIsTrue ArrivesAsSent NeverMistaken FramesAreWhole EachFragmentOnce ParityRecovers
PROPERTIES ResumesAtTarget CallsReturnUnlessSelfLocked StopEnds
CHECK_DEADLOCK FALSE
