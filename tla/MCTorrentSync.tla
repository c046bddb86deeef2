--------------------------- MODULE MCTorrentSync ----------------------------
\* Two torrents, two status-bit values, one tag bit.
EXTENDS TorrentSync, TLC

MCBits == {{}, {1}}
MCOther == {0}
Symmetry == Permutations(Torrent)
=============================================================================
