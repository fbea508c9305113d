SPECIFICATION FairPartsSpec

CONSTANTS
  Places <- ThePlaces
  Moves <- TheMoves
  MaxMoves = 2
  Norm = 11
  o1 = o1
  p1 = p1
  Objects <- TheObjects
  Players <- ThePlayers
  Window = 2
  Stride = 8
  MaxPackets = 3
  MaxTime = 3

INVARIANTS
  PositionKept
  LagBounded
  RotationRight
  NeverAhead
PROPERTIES
  NeverWorse
  SmoothUnlessMixed
  PosesSettle
