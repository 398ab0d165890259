SPECIFICATION Spec
CONSTANTS
    e1 = e1  e2 = e2  e3 = e3  e4 = e4  s = s  t = t  u = u  v = v  w = w
    p1 = p1  p2 = p2  p3 = p3  p4 = p4  p5 = p5  p6 = p6  p7 = p7  p8 = p8  p9 = p9  q1 = q1  q2 = q2  r1 = r1  r2 = r2  r3 = r3  r4 = r4
    Extractors = {e1, e2}
    Pages = {p1, p2}
    NoPage = nopage
    Queued <- TwoQueues
    Encoding <- TwoEncodings
    Data <- TwoData
    Size <- TwoSizes
    Site <- TwoSites
    FileText <- TwoFiles
    Path <- TwoPaths
INVARIANT PagesAreSaved
CHECK_DEADLOCK FALSE
