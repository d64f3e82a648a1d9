\* Two requests at a time on one post, two versions, one tick of expiry.
CONSTANTS
  Requests = {r1, r2}
  Posts = {p1}
  MaxVersion = 2
  Lifetime = 1
  Limits = {2}
  DefaultLimit = 1
SPECIFICATION Spec
INVARIANTS StaleHasCause WithinLimit
PROPERTY Converges
