SPECIFICATION FairSpec
CONSTANTS
    empty = empty
    open = open
    Period = 3
    Portfolios <- MCPortfolios
    Empty = empty
    Unreadable <- MCUnreadable
INVARIANTS
    FullEveryPeriod
PROPERTIES
    PublicationRecovers
