SPECIFICATION FairSpec

CONSTANTS
  Obj = {o1, o2, o3}
  Handle = {h1}
  Ids = {i1, i2, i3}
  TotalObj = 1
  Batch = 1
  MaxSkips = 0

INVARIANT IdsSuffice
PROPERTY Reclaimed
