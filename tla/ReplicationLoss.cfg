SPECIFICATION Spec
CONSTANTS
  Plane = plane
  Cube = {c1, c2}
  Batch = 1
  Pos = {3}
  Held = {0, 1, 2, 3}
  Grid <- CoarseGrid
  Quant <- Saturating
  Lossy = TRUE
  MaxWire = 1
PROPERTY
  StrictCheck
