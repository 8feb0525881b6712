CONSTANTS
  Callers = {c1, c2, c3}
  FlightKeys = {k1}
  Flights = {f1, f2, f3}
  MaxRenderFlights = 1
  None = None
SPECIFICATION FairSpec
PROPERTY WaitersAnswered
CHECK_DEADLOCK FALSE
