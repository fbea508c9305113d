SPECIFICATION FairSpec

CONSTANTS
  H = 3
  MaxRecv = 3
  MaxLen = 4
  Kind <- EveryKind
  MaxSent = 2

INVARIANTS
  RecvCorrect
PROPERTIES
  RefinesChannel
  MessagesArrive
