SPECIFICATION FairSpec
CONSTANTS
  m1 = m1
  m2 = m2
  Names = {m1, m2}
  MutableNames = {}
  MaxThreshold = 1
  ReminderInterval = 1
  ChanCap = 1
  MaxFlips = 1
  MaxReloads = 1
  MaxBoots = 1
  MaxFaults = 0
PROPERTIES
  OutageDetected
  RecoveryDetected
  ReloadFinishes
