CONSTANTS
  fk1 = fk1
  fk2 = fk2
  k1 = k1
  k2 = k2
  None = None
  Callers = {c1, c2}
  FlightKeys = {fk1, fk2}
  Flights = {f1, f2}
  MaxRenderFlights = 2
  Keys = {k1, k2}
  Hashes = {k1, k2}
  HashOf <- MCHashOf
  Responses <- MCResponses
  Requests <- TwoRequests
  Formats = {html}
  CacheTtl = 1
  MaxEntries = 2
  MaxBytes = 2
  MaxEntryBytes = 1
  MaxTombstones = 2
  DocumentSize = 1
  PageBytes = 1
  WarmCapacity = 1
  MaxWarmBytes = 2
  MaxTime = 1
SPECIFICATION Spec
PROPERTY OlderPageReplacesNothingNewer
CHECK_DEADLOCK FALSE
