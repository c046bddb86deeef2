-------------------------- MODULE MCTorrentFilter ---------------------------
\* One status bit and one tag bit, and a filter that looks at both.
EXTENDS TorrentFilter

MCBits == {{}, {1}}
MCOther == {0}
Tagged == [mask |-> {1}, value |-> {1}, tags |-> TagBit]
MCFilter == {NoFilter, Tagged}
Unfiltered == {NoFilter}
=============================================================================
