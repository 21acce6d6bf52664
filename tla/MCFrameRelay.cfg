SPECIFICATION SmallSpec
CONSTANTS
  Iframes = {a, b, c}
  Top = top
  MaxSiblings = 2
  MaxDepth = 3
  MaxQueue = 1
  MaxChanges = 2
  MaxRestarts = 1
SYMMETRY Same
INVARIANTS ReportsAreCurrent TreeIsThePage
CHECK_DEADLOCK FALSE
