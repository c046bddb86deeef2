-------------------------- MODULE MCFileDownloader --------------------------
\* Pieces of three bytes: a range that starts within a piece and ends within
\* the next, and an empty one at a piece's start.
EXTENDS FileDownloader, TLC

MCRanges == {[first |-> 1, total |-> 4], [first |-> 3, total |-> 0]}
=============================================================================
