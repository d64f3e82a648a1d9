SPECIFICATION Spec
CONSTANTS
  Refresh = {t1, t2, t3}
  Requests = {r1, r2}
  AccessTTL = 1
  RefreshTTL = 2
  ZoneOffset <- MCUTC
  MaxTime = 4
SYMMETRY MCSymmetry
INVARIANTS OneUse LogoutIsFinal
PROPERTIES RevokedIsRefused RotatesAtomically
