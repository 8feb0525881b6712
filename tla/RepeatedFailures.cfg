CONSTANTS
  s1 = s1
  s2 = s2
  Searches = {s1, s2}
  Deployments <- OneByOne
  Replies <- MCReplies
  CollectionWindow = 1
  OverallTimeout = 2
  RequestTimeout = 1
  CacheTtl = 1
  MaxCacheEntries = 1
  FailureThreshold = 2
  EngineCooldown = 1
  RateLimitCooldown = 2
  MaxQuery = 1
  MaxLimit = 2
  MaxTime = 4
  None = None
SPECIFICATION CountingSpec
INVARIANT RepeatedFailuresTrip
CHECK_DEADLOCK FALSE
