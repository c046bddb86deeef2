SPECIFICATION Spec
CONSTANTS
  t1 = t1
  t2 = t2
  Tab = {"peers"}
  Torrent <- MCTorrent
  Active = {t1}
  Client = {c1}
  CacheSize = 1
  MaxTombstones = 1
  MaxPolls <- AlonePolls
  Piece = {1, 2}
  Blocks <- MCBlocks
  BlockState = {0, 1}
  MaxStarts <- MCMaxStarts
  MaxBlockChanges = 3
  IdBits = 2
  Peer = {1, 2}
  PeerField = {"flags", "rate"}
  PeerMask <- MCPeerMask
  MaxConnects <- MCMaxConnects
  MaxPeerChanges = 1
  File = {1, 2}
  FileMasks <- MCFileMasks
  MaxFileChanges = 2
  HavePiece = {1, 2}
  MaxQueue = 1
  MaxEvents = 4
SYMMETRY Symmetry
CHECK_DEADLOCK FALSE
PROPERTY RowsArePeers
