SPECIFICATION Spec
CONSTANTS
  t1 = t1
  t2 = t2
  Thread <- MCThread
  Clock <- MCClock
  Given <- MCGiven
  Offset <- MCOffset
  Later <- MCLater
  Zone <- MCZone
  MaxCalls = 3
SYMMETRY Symmetric
INVARIANTS
  ShowsItsInstant
  CountsItsInstant
  ZoneNamesNow
  LocalIsWall
