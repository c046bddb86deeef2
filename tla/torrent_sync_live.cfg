SPECIFICATION FairSpec
CONSTANTS
  Torrent = {t1}
  Bits <- MCBits
  Other <- MCOther
  TagBit = {b1}
  MaxTombstones = 1
  MaxFrame = 3
  Client = {c1, c2}
PROPERTY Convergence
