SPECIFICATION Spec
CONSTANTS
  r1 = r1
  r2 = r2
  Requests = {r1, r2}
  t1 = t1
  t2 = t2
  Tokens = {t1, t2}
  plex = plex
  Names = {plex}
  Limit = 2
  Window = 2
  Threshold = 3
  Lockout = 3
  SessionTTL = 1
  MaxFaults = 1
SYMMETRY Symmetric
CHECK_DEADLOCK FALSE
INVARIANTS
  TypeOK
  RateLimited
  EndedStaysEnded
  MutesAgree
