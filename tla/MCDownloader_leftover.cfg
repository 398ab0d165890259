SPECIFICATION Spec
CONSTANTS
    u1 = u1  u2 = u2  u3 = u3  a = a  b = b
    Urls = {u1, u2, u3}
    Sites = {a, b}
    Arrivals <- MCArrivals
    Fds = {3, 4, 5}
    SiteOf <- OneSite
    UintMax = 9999
    MaxRetries = 3
    Responses <- Errors
    NoUrl = nourl
    NoFd = nofd
    NoSite = nosite
INVARIANT PageIsTheRequestedOne
CHECK_DEADLOCK FALSE
