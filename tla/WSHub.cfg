SPECIFICATION FairSpec
CONSTANTS
  c1 = c1
  c2 = c2
  Clients = {c1, c2}
  SendCap = 1
  BroadcastCap = 1
  MaxMessages = 2
INVARIANTS
  TypeOK
  ChannelsOpen
  NoGaps
PROPERTIES
  ImplementsBroadcastLog
  LeaversUnregistered
  ClosedMeansClosed
CHECK_DEADLOCK FALSE
