SPECIFICATION Spec
CONSTANTS
  host = host
  Host = host
  MaxSize = 3
  MaxAge = 2
  StaleAfter = 2
  MaxFaults = 0
  ReminderInterval = 1
PROPERTIES
  RemainingRebuffered
