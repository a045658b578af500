CONSTANTS
  MaxPts = 5
  MaxReceived = 6
  MaxFrames = 3
  TargetDepth = 3
  MinDepth = 1
  None = None
SPECIFICATION Spec
PROPERTIES PlaybackAdvances
