CONSTANTS
  Calls = {w, c1, c2, c3}
  WarmUp = w
  Slots = {s1, s2}
  None = None
SPECIFICATION Spec
INVARIANT ColdRenderAlone
CHECK_DEADLOCK FALSE
