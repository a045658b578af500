CONSTANTS
  p1 = p1  p2 = p2  p3 = p3  p4 = p4  idA = idA  idB = idB  idC = idC
  Parts = {p1, p2, p3}
  Ids = {p1, p2, p3}
  IdOf <- OwnIdOf
  Tasks = {t1}
  None = None
  MaxParticipants = 3
  AllowBackup = TRUE
  FailoverEnabled = TRUE
  Removals = {"server"}
SPECIFICATION Spec
PROPERTIES FailoverIfBackupExists
CHECK_DEADLOCK FALSE
