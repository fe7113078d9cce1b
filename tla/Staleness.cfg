SPECIFICATION FairSpec
CONSTANTS
  host = host
  Host = host
  MaxSize = 3
  MaxAge = 2
  StaleAfter = 2
  MaxFaults = 1
  ReminderInterval = 1
INVARIANTS
  TypeOK
  OldestFirst
  TwoBuffered
  OneIncident
  AlertHasIncident
PROPERTIES
  DeathNoticed
  ReturnNoticed
