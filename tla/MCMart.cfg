SPECIFICATION Spec
CONSTANTS
  Reading = {1, 2}
  Time <- MCTime
  DayLength = 4
  Offset = 1
  FirstDay = 2
  LastDay = 3
  Scheduled = {s}
  Operator = {o}
  Requests <- MCRequests
  MaxClock = 3
  MaxRequests = 1
  MaxFaults = 1
INVARIANTS TypeOK RefreshCovers
PROPERTIES ImplementsLayer EventuallyExact
