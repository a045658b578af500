CONSTANTS
  p1 = p1  p2 = p2  p3 = p3  p4 = p4  idA = idA  idB = idB  idC = idC
  Parts = {p1, p2}
  Ids = {p1, p2}
  IdOf <- OwnIdOf
  Tasks = {t1}
  None = None
  MaxParticipants = 2
  AllowBackup = TRUE
  FailoverEnabled = TRUE
  Removals = {"api"}
SPECIFICATION FairSpec
PROPERTIES FailoverResolves
CHECK_DEADLOCK FALSE
