SPECIFICATION Spec
CONSTANTS
  m1 = m1
  Names = {m1}
  MutableNames = {m1}
  MaxThreshold = 2
  ReminderInterval = 2
  ChanCap = 2
  MaxFlips = 3
  MaxReloads = 2
  MaxBoots = 1
  MaxFaults = 2
INVARIANTS
  TypeOK
  IncidentsAgree
  NewOutageNotDeduplicated
  PhoneAgrees
