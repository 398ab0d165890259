SPECIFICATION FairSpec
CONSTANTS
    u1 = u1  u2 = u2  u3 = u3  a = a  b = b
    Urls = {u1, u2, u3}
    Sites = {a, b}
    Arrivals <- MCArrivals
    Fds = {3, 4}
    SiteOf <- MCSiteOf
    UintMax = 9999
    MaxRetries = 2
    Responses <- All
    NoUrl = nourl
    NoFd = nofd
    NoSite = nosite
INVARIANTS PagesAreOfTheirSite NoLeakedSocket BufferReturned
PROPERTIES ImplementsStage EveryUrlSettles BodiesAreFramed
CHECK_DEADLOCK FALSE
