SPECIFICATION FairSpec
CONSTANTS
  c1 = c1
  Clients = {c1}
  SendCap = 1
  BroadcastCap = 1
  MaxMessages = 3
PROPERTIES
  SlowClientEvicted
CHECK_DEADLOCK FALSE
