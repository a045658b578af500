CONSTANTS
  Packets <- Samples
  MaxPacketSize = 1472
  Padding = 20
SPECIFICATION CodecSpec
INVARIANTS WhatIsSentArrives
CHECK_DEADLOCK FALSE
