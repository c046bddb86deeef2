---------------------------- MODULE MCTorrentTabs ----------------------------
\* Two clients of a torrent that something happens to; another one can take its
\* place in the cache.  The last piece has one block and enters the queue once;
\* the second peer has an identifier that is negative as a number.
EXTENDS TorrentTabs, TLC

CONSTANTS t1, t2
MCTorrent == {t1, t2}
MCBlocks == <<2, 1>>
MCMaxStarts == <<2, 1>>
MCMaxPolls == [t \in MCTorrent |-> IF t = t1 THEN 3 ELSE 1]
MCPeerMask == [c \in Client |-> PeerField]
MCMaxConnects == [p \in Peer |-> 1]
MCFileMasks == {FileField, {"name", "progress"}}

\* For the counterexamples: one poll more, and the other torrent is left alone.
AlonePolls == [t \in MCTorrent |-> IF t = t1 THEN 4 ELSE 0]

Symmetry == Permutations(Client)
=============================================================================
