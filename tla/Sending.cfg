SPECIFICATION FairPartsSpec

CONSTANTS
  Conn = {c1, c2, c3}
  Req = {r1, r2}
  None = none
  Conns = {h1, h2}
  MaxWire = 2
  MaxJoins = 5

INVARIANTS
  RequestsCounted
  RosterRight
PROPERTIES
  LeaksOnlyOnFailure
  Freed
  OnceRight
  AllShown

CHECK_DEADLOCK FALSE
