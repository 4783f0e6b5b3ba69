SPECIFICATION Spec
CONSTANTS
  a = a
  b = b
  c = c
  noMeter = noMeter
  noKey = noKey
  Record <- MCRecord
  KeyOf <- MCKeyOf
  NoKey = noKey
  Contracts <- MCContracts
  Job = {p, q}
  OneAtATime = TRUE
  MaxAttempts = 3
  Limit = 1
  MaxFailures = 2
INVARIANTS TypeOK Kept ResolvedLanded BudgetDecides
PROPERTIES PoisonEnds
