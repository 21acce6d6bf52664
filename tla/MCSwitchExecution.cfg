SPECIFICATION MCSpec
CONSTANTS
    Children = {a, b}
    MaxCalls = 2
    MaxGen = 3
    MaxSeq = 3
    MaxDocs = 1
    MaxRestarts = 1
SYMMETRY Alike
INVARIANTS InSelectionOrder HonestResult ReloadSparesOpenWork
PROPERTIES PressMeetsItsDocument WithdrawalIsUnderWay
CHECK_DEADLOCK FALSE
