SPECIFICATION FairPartsSpec

CONSTANTS
  Conn = {c1, c2}
  None = none
  Programs = {"headless", "gui"}

INVARIANTS
  ConnectionRight
  ProgramsSafe
PROPERTIES
  ClosedInTheEnd
  ProgramsEnd

CHECK_DEADLOCK FALSE
