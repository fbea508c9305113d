SPECIFICATION FairSpec

CONSTANTS
  Plane = plane
  Cube = {c1, c2}
  Batch = 2
  Pos = {3}
  Held = {0, 1, 2, 3}
  Grid <- CoarseGrid
  Quant <- Saturating
  Lossy = FALSE
  MaxWire = 3

INVARIANTS
  ClientStays
  NeverWakes
  EntriesAgree
PROPERTIES
  MirrorsWorld
  Converges
