CONSTANTS
  r = r
  a = a
  b = b
  c = c
  x = x
  j1 = j1
  j2 = j2
  m1 = m1
  m2 = m2
  Pages = {r, a, b, c, x}
  Sitemaps = {m1, m2}
  Conventional = m2
  MaxSitemaps = 2
  MaxMapLimit = 9
  Jobs = {j1, j2}
  Requests <- MCRequests
  Root = r
  LinksOf <- MCLinksOf
  Allowed = {r, a, b, c}
  Disallowed = {a}
  Site <- MCSite
  SizeOf <- MCSizeOf
  MaxCrawlLimit = 4
  MaxCrawlDepth = 2
  MaxConcurrency = 2
  MaxJobs = 1
  MaxActive = 1
  MaxJobBytes = 3
  Ttl = 2
  CrawlTimeout = 1
  PageSize = 1
  MaxTime = 2
  None = None
SPECIFICATION FairSpec
INVARIANTS CountersAgree ReaderHasAll FollowsLinks
PROPERTY CrawlsEnd
CHECK_DEADLOCK FALSE
