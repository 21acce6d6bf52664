SPECIFICATION Spec
CONSTANTS
  MaxPresses = 2
  MaxChanges = 1
INVARIANTS PanelIsTrue ClosesOverARunningHelper
CHECK_DEADLOCK FALSE
