SPECIFICATION Spec
CONSTANTS
  Record <- MCRecord
  Valid <- MCValid
  Scheduler = {s}
  Operator = {o}
  BackfillFrom = {1}
  CarefulOperator = TRUE
  Grace = 2
  Lag = 1
  RunSpan = 1
  PageSize = 1
  ChunkSize = 2
  MaxNow = 4
  MaxFailures = 1
INVARIANTS TypeOK NoLoss JobCovers WatermarkLanded
PROPERTIES WatermarkMonotone ImplementsFeed
