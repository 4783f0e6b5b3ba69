SPECIFICATION Spec
CONSTANTS
  Record <- MCRecord
  Valid <- MCValid
  Scheduler = {s}
  Operator = {o}
  BackfillFrom = {3}
  CarefulOperator = FALSE
  Grace = 2
  Lag = 1
  RunSpan = 1
  PageSize = 1
  ChunkSize = 2
  MaxNow = 4
  MaxFailures = 1
INVARIANTS NoLoss
