SPECIFICATION Spec
CONSTANTS
    empty = empty
    open = open
    Period = 3
    Portfolios <- MCPortfolios
    Empty = empty
    Unreadable <- MCReadable
PROPERTIES
    PublishedPortfolioIsReal
