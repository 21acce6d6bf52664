SPECIFICATION Spec
CONSTANTS
  ItemIds <- MCItemIds
  PageItems <- MCPageItems
  PracticeItems <- MCPracticeItems
  MaxEpoch = 3
  MaxSelections = 3
INVARIANTS OnlyTheOwnerRuns WaitIsAnswerable AcceptedOnce
PROPERTIES WholePressSelects PressWhileWaitingStops StopIsFinal
CHECK_DEADLOCK FALSE
