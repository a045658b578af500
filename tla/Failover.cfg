CONSTANTS
  p1 = p1  p2 = p2  p3 = p3  p4 = p4  idA = idA  idB = idB  idC = idC  q1 = q1  q2 = q2
  Parts = {p1, p2, p3}
  Ids = {idA, idB}
  IdOf <- SharedIdOf
  Tasks = {t1, t2}
  None = None
  MaxParticipants = 2
  AllowBackup = TRUE
  FailoverEnabled = TRUE
  Removals = {"server"}
  Clients = {q1, q2}
  Calls = {c1}
  Workers = 1
  Nobody = None
  ShardOf <- OneShard
  Asks <- TwoRoles
SPECIFICATION FailoverSpec
INVARIANTS FailoverTypeOK SerialCoherent ReceiversHear
PROPERTIES PromotesOnlyBackups FailoversComplete WalksEnd
CHECK_DEADLOCK FALSE
