SPECIFICATION FairSpec
CONSTANTS
  Torrent <- Two
  Removable <- Second
  Changing <- Second
  TagValue <- NoTags
  MaxVersion = 1
  MaxInFlight = 1
  MaxStarts = 1
INVARIANTS
  TypeOK
  InFlightAccounted
  CleanExitSaves
PROPERTIES
  ChangesAreSaved
