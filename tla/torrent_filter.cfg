SPECIFICATION Spec
CONSTANTS
  Torrent = {t1, t2}
  Bits <- MCBits
  Other <- MCOther
  TagBit = {b1}
  MaxTombstones = 1
  MaxFrame = 3
  Filter <- MCFilter
  MaxInFlight = 1
  Removable = {t2}
INVARIANTS
  NothingMissing
  ExitsReported
