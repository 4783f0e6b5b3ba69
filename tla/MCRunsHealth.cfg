SPECIFICATION Spec
CONSTANTS
  Process = {p}
  Source = {s, t}
  Simple <- MCSimple
  Strict = TRUE
  MaxRows = 2
  MaxFaults = 0
INVARIANTS HealthSeesFailure
