SPECIFICATION FairSpec
CONSTANTS
  Request = {r1, r2}
  Ranges <- MCRanges
  PieceSize = 3
  Pieces = 2
  Prefetch = 1
  Removable = TRUE
INVARIANTS
  TypeOK
  DoneOnce
  Awaited
PROPERTIES
  StreamsInOrder
  RequestsEnd
