SPECIFICATION FairSpec
CONSTANTS
  MaxRequests = 3
  MaxRestarts = 1
INVARIANTS AcknowledgedStopIsDurable StopIsInForce
PROPERTY StopNeverWaitsForTheQueue
CHECK_DEADLOCK FALSE
