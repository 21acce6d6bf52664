SPECIFICATION AlikeSpec
CONSTANTS
    page = page
    settings = settings
    disabled = disabled
    rest = rest
    Keys <- MCKeys
    Settings = settings
    Fields <- MCFields
    SiteField = disabled
    Values = {0, 1}
    Default = 0
    Foreign <- MCForeign
    MaxRequests = 3
    MaxFaults = 1
    SYNC_WRITE_LIMIT = 2
INVARIANTS NewestWins QuotaKept
PROPERTIES IsAtomic EveryRequestAnswered
CHECK_DEADLOCK FALSE
