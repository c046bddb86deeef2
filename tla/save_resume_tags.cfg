SPECIFICATION Spec
CONSTANTS
  Torrent <- One
  Removable <- None
  Changing <- One
  TagValue <- Tags
  MaxVersion = 1
  MaxInFlight = 2
  MaxStarts = 1
INVARIANTS
  TagsPersist
