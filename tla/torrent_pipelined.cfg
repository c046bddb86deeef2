SPECIFICATION Spec
CONSTANTS
  Torrent = {t1}
  Bits <- MCBits
  Other <- MCOther
  TagBit = {b1}
  MaxTombstones = 1
  MaxFrame = 4
  Filter <- Unfiltered
  MaxInFlight = 2
  Removable = {t1}
INVARIANTS
  ViewIsList
