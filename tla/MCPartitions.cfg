SPECIFICATION FairSpec
CONSTANTS
  Reading = {1, 2, 3, 4}
  Day <- MCDay
  LastMonth = 3
  First <- MCFirst
  Scheduled = {s}
  Operator = {o}
  Careful = TRUE
  MaxFaults = 1
INVARIANTS TypeOK NothingStray
PROPERTIES EventuallyPromoted
