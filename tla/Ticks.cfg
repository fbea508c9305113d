SPECIFICATION FairPartsSpec

CONSTANTS
  Ms = 2
  TickInterval = 8
  NetInterval = 16
  MaxBusy = 9
  MaxLate = 2
  MaxLag = 36
  JumpSpeed = 9
  Gravity = 2
  Dts <- TheDts
  Floors <- TheFloors
  SpawnHeight = 10
  Headings <- TheHeadings
  MaxWait = 2
  MaxAir = 40
  Letters = {"w"}
  Others = {"space"}
  Arrows = {"up"}
  Esc = "esc"
  FlagOf <- TheFlagOf
  MaxEvents = 8
  MaxWire = 2
  Conns = {h1}
  Free = Free

INVARIANTS
  TicksBounded
  MotionRight
  KeysRight
  LocksRight
PROPERTIES
  KeepsTime
  PlayersServed
  LocksGo
