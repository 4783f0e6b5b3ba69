SPECIFICATION Spec
CONSTANTS
  Process = {p, q}
  Source = {s, t}
  Simple <- MCSimple
  Strict = TRUE
  MaxRows = 2
  MaxFaults = 1
SYMMETRY MCSymmetry
INVARIANTS TypeOK StatusHonest OrphansOfFaults
PROPERTIES ClosedForever
