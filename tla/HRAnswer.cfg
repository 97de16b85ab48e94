SPECIFICATION RecordsSpec
CONSTANTS
    Ids <- MCIds
    Copies <- MCCopies
    Timestamps <- MCTimes
    NoTime = NoTime
    MaxDeals = 3
    MaxOrders = 2
    PageSize = 3
    Limits <- MCLimits
    NoLimit = NoLimit
INVARIANTS
    RecordsTypeOK
    AnswerIsReference
    FirstCopySurvives
CHECK_DEADLOCK FALSE
