SPECIFICATION FairSpec
CONSTANTS
  p1 = p1
  p2 = p2
  Ports = {p1, p2}
  Hysteresis = 2
  MaxFlips = 3
  MaxMisses = 1
  MaxAccepts = 1
  MaxFaults = 2
INVARIANTS
  TypeOK
  BaselineIsKnown
  AlertsOnce
  NoFalseAlarm
PROPERTIES
  BaselineConverges
