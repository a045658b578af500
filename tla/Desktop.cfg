CONSTANTS
  MaxStarts = 2
  MaxStops = 2
  None = None
  Fps = 60
  Tracks = 2
  MaxTime = 20
  Calls = {c1, c2}
  MaxProcs = 2
  Configs = {g1, g2}
  Clicks = {k1, k2, k3}
  Urls = {u1, u2}
  NoServer = NoServer
SPECIFICATION DesktopSpec
INVARIANTS StudioTypeOK ShownIsTrue StampsFollowTime CameraReleased ServerIsManaged TokenFits
PROPERTIES NoOrphanStays StopsComplete DeathsAreNoticed ClicksReturn
CHECK_DEADLOCK FALSE
