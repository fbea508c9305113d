SPECIFICATION Spec
CONSTANTS
  Obj = {o1, o2, o3}
  Handle = {h1, h2}
  Ids = {i1, i2, i3}
  TotalObj = 1
  Batch = 2
  MaxSkips = 1
SYMMETRY Symmetry
INVARIANTS
  TypeOK
  PointersValid
  IdsAgree
  NetViewComplete
  CountExact
  PidsDistinct
