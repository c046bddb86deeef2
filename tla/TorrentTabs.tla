----------------------------- MODULE TorrentTabs -----------------------------
(***************************************************************************)
(* The pages about one torrent: the clients have one of them open.  The    *)
(* calls behind them keep caches of their own under mutexes of their own,  *)
(* and share the protocol of HistoryCache.                                 *)
(***************************************************************************)
EXTENDS PieceUpdates, PeerUpdates, FileUpdates, PieceStates

CONSTANT Tab    \* the pages that are looked at, of those below

ASSUME TorrentTabsAssumption == Tab \subseteq {"pieces", "peers", "files", "states"}

VARIABLE tab    \* the page that is open

tabsVars == <<tab, pieceOwn, peerOwn, fileOwn, stateOwn, pollVars>>

Init ==
  /\ tab \in Tab /\ PieceInit /\ PeerInit /\ FileInit /\ StateInit
  /\ tab # "files" => \A c \in Client : fileMask[c] = FileField

Next ==
  /\ UNCHANGED tab
  /\ \/ tab = "pieces" /\ PieceNext /\ UNCHANGED <<peerOwn, fileOwn, stateOwn>>
     \/ tab = "peers" /\ PeerNext /\ UNCHANGED <<pieceOwn, fileOwn, stateOwn>>
     \/ tab = "files" /\ FileNext /\ UNCHANGED <<pieceOwn, peerOwn, stateOwn>>
     \/ tab = "states" /\ StateNext /\ UNCHANGED <<pieceOwn, peerOwn, fileOwn>>

Spec == Init /\ [][Next]_tabsVars

TypeOK == tab \in Tab /\ PieceTypeOK /\ PeerTypeOK /\ FileTypeOK /\ StateTypeOK
=============================================================================
