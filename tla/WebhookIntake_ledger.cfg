SPECIFICATION FairSpec
CONSTANTS
  e1 = e1  d1 = d1  d2 = d2  b1 = b1  b2 = b2
  Requests = {r1, r2}
  Messages <- MCMessages
  None = None
  UseLedger = TRUE
INVARIANT AcceptedHasJob
PROPERTIES Answered JudgesAtomically
CHECK_DEADLOCK FALSE
