SPECIFICATION FairSpec
CONSTANTS
  Record <- MCRecord
  Valid <- MCValid
  Scheduler = {s}
  Operator = {}
  BackfillFrom = {}
  CarefulOperator = TRUE
  Grace = 2
  Lag = 1
  RunSpan = 1
  PageSize = 1
  ChunkSize = 2
  MaxNow = 4
  MaxFailures = 2
PROPERTIES EventuallyAccounted
