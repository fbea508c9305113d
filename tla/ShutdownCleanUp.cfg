SPECIFICATION Spec
CONSTANTS
  Conns = {c1, c2}
  Programs = {"headless"}
INVARIANT
  CleanedUpSafely
