---------------------------- MODULE TorrentSync -----------------------------
(***************************************************************************)
(* The torrent list and the clients that keep a copy of it by polling      *)
(* get-torrent-updates without a filter.  A poll runs query() under the    *)
(* history's lock, serializes the copied entries after the lock is         *)
(* released, and the client applies the response; alerts and set-tag calls *)
(* may come in between.  A client polls again only once it has applied the *)
(* previous response, as the pages under bt/ do.                           *)
(***************************************************************************)
EXTENDS TorrentHistory

CONSTANT Client

VARIABLES
  view,     \* each client's copy of the list
  anchor,   \* the frame its copy is of: _frame, 0 before the first response
  response  \* what query() returned for a poll not yet applied, or Idle

clientVars == <<view, anchor, response>>
vars == <<historyVars, clientVars>>

Idle == [frame |-> 0, snapshot |-> FALSE, updated |-> NoTorrents, removed |-> {}]
IsIdle(c) == response[c] = Idle

ClientTypeOK ==
  /\ view = [c \in Client |-> view[c]]
  /\ \A c \in Client :
       /\ IsFcn(view[c]) /\ DOMAIN view[c] \subseteq Torrent
       /\ \A t \in DOMAIN view[c] : IsFcn(view[c][t]) /\ DOMAIN view[c][t] \subseteq Field
  /\ anchor \in [Client -> Nat]
  /\ response = [c \in Client |-> response[c]]
  /\ \A c \in Client :
       /\ response[c].frame \in Nat
       /\ response[c].snapshot \in BOOLEAN
       /\ DOMAIN response[c].updated \subseteq Torrent
       /\ response[c].updated \in [DOMAIN response[c].updated -> Copy]
       /\ response[c].removed \subseteq Torrent

TypeOK == HistoryTypeOK /\ ClientTypeOK

Init ==
  /\ HistoryInit
  /\ view = [c \in Client |-> NoTorrents]
  /\ anchor = [c \in Client |-> 0]
  /\ response = [c \in Client |-> Idle]

-----------------------------------------------------------------------------

AddTorrent(t, s) == HandleAdd(t, s) /\ UNCHANGED clientVars

\* A response being serialized holds copies of the entries, not the torrent.
RemoveTorrent(t) ==
  /\ HandleRemoved(t)
  /\ response' = [c \in Client |-> Orphaned(response[c], t)]
  /\ UNCHANGED <<view, anchor>>

UpdateTorrents(U, s, ord) == HandleStateUpdate(U, s, ord) /\ UNCHANGED clientVars

SetTorrentTag(t, value, mask) == SetTag(t, value, mask) /\ UNCHANGED clientVars

\* get_torrent_updates up to the release of the history's lock
Poll(c) ==
  /\ IsIdle(c)
  /\ response' = [response EXCEPT ![c] = Query(anchor[c])]
  /\ CurrentFrameLocked
  /\ UNCHANGED <<view, anchor>>

\* The rest of it, and the client's handler of the response.
Apply(c) ==
  /\ ~IsIdle(c)
  /\ view' = [view EXCEPT ![c] = Applied(view[c], Serialized(response[c], anchor[c]))]
  /\ anchor' = [anchor EXCEPT ![c] = response[c].frame]
  /\ response' = [response EXCEPT ![c] = Idle]
  /\ UNCHANGED historyVars

SessionStep ==
  \/ \E t \in Torrent, s \in Status : AddTorrent(t, s)
  \/ \E t \in Torrent : RemoveTorrent(t)
  \/ \E U \in SUBSET Torrent : \E s \in [U -> Status], ord \in TotalOrders(U \cap Live) :
       UpdateTorrents(U, s, ord)
  \/ \E t \in Torrent, value \in Tag, mask \in Tag : SetTorrentTag(t, value, mask)

ClientStep(c) == Poll(c) \/ Apply(c)

Next == SessionStep \/ \E c \in Client : ClientStep(c)

Spec == Init /\ [][Next]_vars

\* The pages poll on a timer and the server answers every request.
FairSpec == Spec /\ \A c \in Client : WF_vars(ClientStep(c))

-----------------------------------------------------------------------------
(* What the scans with an early break rest on: FramesOrdered, NewestFirst.  *)

\* No client is ahead of the frame counter, the slot being filled excluded.
ClientsBehind ==
  \A c \in Client : anchor[c] <= m_frame /\ response[c].frame <= m_frame

\* The three together: an early break of query() or append_removed() hides
\* nothing that is newer than the frame of the client that asks.
InOrder == FramesOrdered /\ NewestFirst /\ ClientsBehind

(* What the protocol promises a client.                                    *)

\* The copy of client c once it has applied what it has been sent.
CopyOf(c)  == IF IsIdle(c) THEN view[c] ELSE Applied(view[c], Serialized(response[c], anchor[c]))
FrameOf(c) == IF IsIdle(c) THEN anchor[c] ELSE response[c].frame

CopiesCurrent == \A c \in Client : Current(CopyOf(c), FrameOf(c))
CopiesDroppable == \A c \in Client : Droppable(CopyOf(c), FrameOf(c))

\* The next delta from its frame completes the copy of every client, whatever
\* the server forgets before the client asks for it.
CopiesComplete == CopiesCurrent /\ CopiesDroppable

\* A client whose copy is of the current frame, with no event waiting for the
\* next one, holds exactly the torrents of the session and their values: no
\* update, tag or removal was lost on the way, whatever was interleaved.
InSync(c) ==
  anchor[c] = m_frame /\ ~m_deferred_frame_count /\ IsIdle(c) => view[c] = LiveList

ClientsInSync == \A c \in Client : InSync(c)

\* Without a filter the server names a torrent as removed only to a client
\* that has it: bt/test.html dereferences the row of every removed torrent.
RemovedAreKnown ==
  \A c \in Client : response[c].removed \subseteq DOMAIN view[c]

\* Once the session is quiet, every client ends up with its list for good.
Convergence ==
  <>[][~SessionStep]_vars => \A c \in Client : <>[](view[c] = LiveList)
=============================================================================
