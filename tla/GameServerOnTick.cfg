SPECIFICATION Spec
CONSTANTS
  Obj = {o1, o2}
  Handle = {h1}
  Ids = {i1, i2}
  TotalObj = 1
  Batch = 1
  MaxSkips = 0
INVARIANT OnTickAccess
