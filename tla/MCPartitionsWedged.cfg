SPECIFICATION FairSpec
CONSTANTS
  Reading = {1, 2, 3, 4}
  Day <- MCDay
  LastMonth = 3
  First <- MCFirst
  Scheduled = {s}
  Operator = {o}
  Careful = FALSE
  MaxFaults = 1
PROPERTIES EventuallyPromoted
