SPECIFICATION GateFairSpec
CONSTANTS
  MaxRequests = 1
  MaxRestarts = 1
  MaxEvents = 1
  Pages = {p1}
PROPERTY StopClosesEveryPage
CHECK_DEADLOCK FALSE
