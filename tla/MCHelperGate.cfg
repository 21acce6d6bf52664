SPECIFICATION FirstUseSpec
CONSTANTS
  MaxRequests = 2
  MaxRestarts = 1
  MaxEvents = 1
  Pages = {p1}
INVARIANTS StopReachesThePage SettledPageIsAllowed
CHECK_DEADLOCK FALSE
