SPECIFICATION Spec
CONSTANTS
  Torrent <- One
  Removable <- One
  Changing <- One
  TagValue <- NoTags
  MaxVersion = 1
  MaxInFlight = 1
  MaxStarts = 1
INVARIANTS
  AnswersAreCounted
