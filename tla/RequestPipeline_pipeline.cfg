\* Bound: up to two variables beside each deployment.
SPECIFICATION Spec
CONSTANT MaxGiven = 2
INVARIANTS
  LoadedIsSound
  EffectsAuthorized
  RefusedUntouched
  Correlated
  OneAnswer
  LimiterCountsCaller
  Redacted
\* A process whose settings are refused stops.
CHECK_DEADLOCK FALSE
