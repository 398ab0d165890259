SPECIFICATION Spec
CONSTANTS
    d1 = d1  d2 = d2  k1 = k1
    u1 = u1  u2 = u2  u3 = u3  u4 = u4
    a = a  b = b  c = c  e = e  f = f
    Dnsers = {d1, d2}
    Schedulers = {k1}
    Urls = {u1, u2, u3, u4}
    Sites = {a, b}
    Ips = {1, 2, 3}
    Names = {a, b, c, e, f}
    Aliases <- MCAliases
    Seeds <- MCSeeds
    SiteOf <- MCSiteOf
    Home <- MCHome
    Target <- MCTarget
    Answers <- MCAnswers
    NoUrl = nourl
    NoSite = nosite
INVARIANT JoinedQueryInFlight
CHECK_DEADLOCK FALSE
