SPECIFICATION TogetherSpec
CONSTANTS
    MaxEvents = 2
    MaxChoices = 2
    MaxReadings = 1
    MaxMessages = 2
INVARIANTS ConsentPerPress HoldIsReal ChildFollowsTop
PROPERTIES FreshConfirmation
CHECK_DEADLOCK FALSE
