SPECIFICATION FairSpec
CONSTANTS
  r1 = r1
  r2 = r2
  r3 = r3
  Requests = {r1, r2, r3}
  MaxOverlap = 2
  Invalid = {r3}
INVARIANTS
  TypeOK
  OldSchedulersStopped
  NoHalfReload
PROPERTIES
  AloneApplied
  RequestsEnd
CHECK_DEADLOCK FALSE
