SPECIFICATION RecordsSpec
CONSTANTS
    Ids <- MCIds
    Copies <- OneCopy
    Timestamps <- MCTimes
    NoTime = NoTime
    MaxDeals = 3
    MaxOrders = 2
    PageSize = 1
    Limits <- MCLimits
    NoLimit = NoLimit
INVARIANTS
    AllRecordsReturned
CHECK_DEADLOCK FALSE
