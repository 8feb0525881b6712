CONSTANTS
  Callers = {c1, c2, c3}
  FlightKeys = {k1, k2}
  Flights = {f1, f2, f3}
  MaxRenderFlights = 2
  None = None
SPECIFICATION Spec
SYMMETRY Symmetric
INVARIANTS TypeOK LeasesCounted RegisteredIsHeld CancelledIsAbandoned OneLiveRender WaiterHasSource
PROPERTIES OneOutcome SharedSpec
CHECK_DEADLOCK FALSE
