SPECIFICATION Spec
CONSTANTS
  Conn = {c1, c2}
  None = none
INVARIANT
  ClosedStreamUnused
CHECK_DEADLOCK FALSE
