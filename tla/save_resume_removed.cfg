SPECIFICATION Spec
CONSTANTS
  Torrent <- One
  Removable <- One
  Changing <- One
  TagValue <- Tags
  MaxVersion = 1
  MaxInFlight = 2
  MaxStarts = 2
INVARIANTS
  RemovedStaysRemoved
