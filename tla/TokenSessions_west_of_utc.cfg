SPECIFICATION Spec
CONSTANTS
  Refresh = {t1, t2, t3}
  Requests = {r1, r2}
  AccessTTL = 1
  RefreshTTL = 1
  ZoneOffset <- MCWest
  MaxTime = 2
INVARIANTS OneUse
