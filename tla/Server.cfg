CONSTANTS
  p1 = p1  p2 = p2  p3 = p3  p4 = p4  idA = idA  idB = idB  idC = idC
  Parts = {p1, p2, p3, p4}
  Ids = {idA, idB, idC}
  IdOf <- SharedIdOf
  Tasks = {t1, t2}
  None = None
  MaxParticipants = 1
  AllowBackup = TRUE
  FailoverEnabled = TRUE
  Removals = {"api"}
  Handlers = {t1, t2}
  Nothing = None
  Rooms = {r1, r2}
  AutoRooms = {r2}
  Addrs = {a1}
  n1 = n1
  Pids = {n1, n2}
  PidOf <- LoopPids
  Media = Media
  MaxRooms = 1
  MaxObjects = 2
  Servers = {s1, s2}
  RoomIds = {r1, r2}
  LoopRooms = {r2}
  Requests = {t1, t2}
  RoomLimit = 1
  Nowhere = None
  ApiIds = {i1}
  Expiry = 0
  MaxNow = 1
  MaxTokens = 1
  AuthEnabled = TRUE
SPECIFICATION ServerSpec
SYMMETRY TwinsAndTasks
INVARIANTS ServerTypeOK SoleSender StateFollowsRegister BoundedOvershoot TablesAgree NoDeadEnds MembersAreHeard RoomsCounted ListedIsReachable
PROPERTIES HandsOver
CHECK_DEADLOCK FALSE
