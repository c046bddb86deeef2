---------------------------- MODULE MCSaveResume ----------------------------
\* Torrents in the order of their handles.
EXTENDS SaveResume

One == {1}
Two == {1, 2}
None == {}
Second == {2}
Tags == {0, 1}
NoTags == {0}
=============================================================================
