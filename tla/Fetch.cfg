CONSTANTS
  u1 = u1
  u2 = u2
  u3 = u3
  u4 = u4
  h1 = h1
  h2 = h2
  Fetches = {f1}
  Proxied = {p1, p2}
  Hosts = {h1, h2}
  Gates = {g1, g2}
  DnsTtl = 1
  DnsCapacity = 1
  MaxTime = 1
  None = None
  Urls = {u1, u2, u3, u4}
  Target <- MCTarget
  Literal = Literal
  Refused = Refused
  MaxConcurrency = 1
  MaxRedirects = 1
SPECIFICATION Spec
SYMMETRY Symmetric
INVARIANTS OneLookup GatesReleased OnlyPublicReached
CHECK_DEADLOCK FALSE
