SPECIFICATION Spec
CONSTANTS
  Torrent = {t1, t2}
  Bits <- MCBits
  Other <- MCOther
  TagBit = {b1}
  MaxTombstones = 1
  MaxFrame = 3
  Client = {c1}
SYMMETRY Symmetry
INVARIANTS
  TypeOK
  InOrder
  CopiesComplete
  ClientsInSync
  RemovedAreKnown
