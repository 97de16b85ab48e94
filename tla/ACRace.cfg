SPECIFICATION Spec
CONSTANTS
    s1 = s1
    s2 = s2
    r1 = r1
    h1 = h1
    h2 = h2
    h3 = h3
    h4 = h4
    london = london
    newYork = newYork
    Nobody = Nobody
    NoHandle = NoHandle
    NoRegion = NoRegion
    ExplicitUrl = ExplicitUrl
    NoUrl = NoUrl
    Sessions <- TwoSessions
    Readers <- OneReader
    Handles <- FourHandles
    Regions <- MCRegions
    AccountRegion = london
    DefaultRegion = newYork
    ConfiguredUrl = NoUrl
    RetryCount = 1
    Overlap = TRUE
SYMMETRY Interchangeable
INVARIANTS
    NoHandleLeaks
    LockedCallsKeepTheirHandle
PROPERTIES
    ImplementsSession
