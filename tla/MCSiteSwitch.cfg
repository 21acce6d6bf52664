SPECIFICATION SiteSpec
CONSTANTS
  Origins = {a, b}
  NoOrigin = none
  MaxDocuments = 2
  MaxChanges = 1
  MaxPresses = 2
  MaxRestarts = 1
INVARIANTS OwnSite FrameFollowsSite CardFollowsSite
PROPERTY EveryFrameLearns
CHECK_DEADLOCK FALSE
