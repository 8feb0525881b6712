CONSTANTS
  Calls = {w, c1, c2, c3, c4}
  WarmUp = w
  Slots = {s1, s2}
  None = None
SPECIFICATION FairSpec
INVARIANTS TypeOK PermitsConserved PermitFindsSlot PoppedHasRoom
PROPERTY CallsEnd
CHECK_DEADLOCK FALSE
