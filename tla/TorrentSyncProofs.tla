------------------------- MODULE TorrentSyncProofs --------------------------
(***************************************************************************)
(* Theorems about TorrentSync, for any set of torrents, clients, statuses  *)
(* and tags, any tombstone limit and any bound on the frames: its types,   *)
(* the order of its frames, and that no interleaving of events, polls and  *)
(* applied responses leaves a client with a copy that the next response    *)
(* does not complete.                                                      *)
(***************************************************************************)
EXTENDS TorrentSync, TorrentHistoryProofs

-----------------------------------------------------------------------------
(* Types and order.                                                        *)

\* TorrentSync's variables keep their types.
THEOREM TypeCorrect == Spec => []TypeOK
<1>1. Init => TypeOK
  <2> SUFFICES ASSUME Init PROVE TypeOK
    OBVIOUS
  <2>1. HistoryTypeOK
    BY HistoryStarts DEF Init
  <2>2. ClientTypeOK
    BY DEF Init, ClientTypeOK, IsFcn, NoTorrents, Idle
  <2>. QED
    BY <2>1, <2>2 DEF TypeOK
<1>2. TypeOK /\ [Next]_vars => TypeOK'
  <2> SUFFICES ASSUME TypeOK, [Next]_vars PROVE TypeOK'
    OBVIOUS
  <2>. USE DEF TypeOK
  <2>1. ASSUME NEW t \in Torrent, NEW s \in Status, AddTorrent(t, s) PROVE TypeOK'
    BY <2>1, AddType DEF AddTorrent, ClientTypeOK, clientVars
  <2>2. ASSUME NEW t \in Torrent, RemoveTorrent(t) PROVE TypeOK'
    <3>1. HistoryTypeOK'
      BY <2>2, RemovedType DEF RemoveTorrent
    <3>2. \A c \in Client :
            /\ Orphaned(response[c], t).frame = response[c].frame
            /\ Orphaned(response[c], t).snapshot = response[c].snapshot
            /\ Orphaned(response[c], t).removed = response[c].removed
            /\ DOMAIN Orphaned(response[c], t).updated = DOMAIN response[c].updated
            /\ Orphaned(response[c], t).updated \in [DOMAIN response[c].updated -> Copy]
      <4>1. \A e \in Copy, b \in BOOLEAN : [e EXCEPT !.handle = b] \in Copy
        BY DEF Copy
      <4>2. \A e \in Copy : \A u : (e.handle /\ u # t) \in BOOLEAN
        OBVIOUS
      <4>3. \A c \in Client : response[c].updated \in [DOMAIN response[c].updated -> Copy]
        BY DEF ClientTypeOK
      <4>. QED
        BY <4>1, <4>2, <4>3 DEF Orphaned
    <3>3. ClientTypeOK'
      BY <2>2, <3>2 DEF RemoveTorrent, ClientTypeOK
    <3>. QED
      BY <3>1, <3>3
  <2>3. ASSUME NEW U \in SUBSET Torrent, NEW s \in [U -> Status],
               NEW ord \in TotalOrders(U \cap Live), UpdateTorrents(U, s, ord)
        PROVE TypeOK'
    BY <2>3, StateUpdateType DEF UpdateTorrents, ClientTypeOK, clientVars
  <2>4. ASSUME NEW t \in Torrent, NEW value \in Tag, NEW mask \in Tag,
               SetTorrentTag(t, value, mask)
        PROVE TypeOK'
    BY <2>4, SetTagType DEF SetTorrentTag, ClientTypeOK, clientVars
  <2>5. ASSUME NEW c \in Client, Poll(c) PROVE TypeOK'
    <3>1. anchor[c] \in Nat
      BY DEF ClientTypeOK
    <3>2. ClientTypeOK'
      BY <2>5, <3>1, QueryType DEF Poll, ClientTypeOK
    <3>. QED
      BY <2>5, <3>2, PollHistoryType DEF Poll
  <2>6. ASSUME NEW c \in Client, Apply(c) PROVE TypeOK'
    <3>1. HistoryTypeOK'
      BY <2>6 DEF Apply, historyVars, HistoryTypeOK, Live
    <3>. DEFINE new == Applied(view[c], Serialized(response[c], anchor[c]))
    <3>2. /\ IsFcn(new) /\ DOMAIN new \subseteq Torrent
          /\ \A t \in DOMAIN new : IsFcn(new[t]) /\ DOMAIN new[t] \subseteq Field
      BY AppliedType, SerializedType DEF ClientTypeOK
    <3>. HIDE DEF new
    <3>3. view' = [view EXCEPT ![c] = new]
      BY <2>6 DEF Apply, new
    <3>4. ClientTypeOK'
      BY <2>6, <3>2, <3>3 DEF Apply, ClientTypeOK, Idle, NoTorrents
    <3>. QED
      BY <3>1, <3>4
  <2>7. CASE UNCHANGED vars
    BY <2>7 DEF vars, historyVars, clientVars, HistoryTypeOK, ClientTypeOK, Live
  <2>. QED
    BY <2>1, <2>2, <2>3, <2>4, <2>5, <2>6, <2>7 DEF Next, SessionStep, ClientStep
<1>. QED
  BY <1>1, <1>2, PTL DEF Spec

\* The list and the tombstones are newest-first, and every frame recorded lies
\* between the add of its torrent and the slot being filled.
THEOREM ListInOrder == Spec => []Ordered
<1>1. Init => Ordered
  BY HistoryStarts DEF Init
<1>2. TypeOK /\ Ordered /\ [Next]_vars => Ordered'
  <2> SUFFICES ASSUME TypeOK, Ordered, [Next]_vars PROVE Ordered'
    OBVIOUS
  <2>. USE DEF TypeOK
  <2>1. ASSUME NEW t \in Torrent, NEW s \in Status, AddTorrent(t, s) PROVE Ordered'
    BY <2>1, AddOrdered DEF AddTorrent
  <2>2. ASSUME NEW t \in Torrent, RemoveTorrent(t) PROVE Ordered'
    BY <2>2, RemovedOrdered DEF RemoveTorrent
  <2>3. ASSUME NEW U \in SUBSET Torrent, NEW s \in [U -> Status],
               NEW ord \in TotalOrders(U \cap Live), UpdateTorrents(U, s, ord)
        PROVE Ordered'
    BY <2>3, StateUpdateOrdered DEF UpdateTorrents
  <2>4. ASSUME NEW t \in Torrent, NEW value \in Tag, NEW mask \in Tag,
               SetTorrentTag(t, value, mask)
        PROVE Ordered'
    BY <2>4, SetTagOrdered DEF SetTorrentTag
  <2>5. ASSUME NEW c \in Client, Poll(c) PROVE Ordered'
    BY <2>5, PollOrdered DEF Poll
  <2>6. CASE UNCHANGED historyVars
    BY <2>6 DEF historyVars, Ordered, FramesOrdered, NewestFirst, EntryOrdered,
                TombstoneOrdered, Live, CurrentFrame, NextFrame
  <2>. QED
    BY <2>1, <2>2, <2>3, <2>4, <2>5, <2>6
       DEF Next, SessionStep, ClientStep, Apply, vars
<1>. QED
  BY <1>1, <1>2, TypeCorrect, PTL DEF Spec

\* No response carries a frame the server has not reached.
THEOREM NoClientAhead == Spec => []ClientsBehind
<1>1. Init => ClientsBehind
  BY DEF Init, HistoryInit, ClientsBehind, Idle
<1>2. TypeOK /\ ClientsBehind /\ [Next]_vars => ClientsBehind'
  <2> SUFFICES ASSUME TypeOK, ClientsBehind, [Next]_vars PROVE ClientsBehind'
    OBVIOUS
  <2>. USE FrameTypes DEF TypeOK
  <2>1. \A c \in Client : anchor[c] \in Nat /\ response[c].frame \in Nat
    BY DEF ClientTypeOK
  <2>2. CASE SessionStep
    <3>. DEFINE SameFrames == \A c \in Client : response'[c].frame = response[c].frame
    <3>a. ASSUME NEW t \in Torrent, NEW s \in Status, AddTorrent(t, s)
          PROVE  m_frame' = m_frame /\ anchor' = anchor /\ SameFrames
      BY <3>a DEF AddTorrent, HandleAdd, clientVars
    <3>b. ASSUME NEW t \in Torrent, RemoveTorrent(t)
          PROVE  m_frame' = m_frame /\ anchor' = anchor /\ SameFrames
      <4>1. \A r : Orphaned(r, t).frame = r.frame
        BY DEF Orphaned
      <4>. QED
        BY <3>b, <4>1 DEF RemoveTorrent, HandleRemoved
    <3>c. ASSUME NEW U \in SUBSET Torrent, NEW s \in [U -> Status],
                 NEW ord \in TotalOrders(U \cap Live), UpdateTorrents(U, s, ord)
          PROVE  m_frame' = NextFrame /\ anchor' = anchor /\ SameFrames
      BY <3>c DEF UpdateTorrents, HandleStateUpdate, clientVars
    <3>d. ASSUME NEW t \in Torrent, NEW value \in Tag, NEW mask \in Tag,
                 SetTorrentTag(t, value, mask)
          PROVE  m_frame' = m_frame /\ anchor' = anchor /\ SameFrames
      BY <3>d DEF SetTorrentTag, SetTag, clientVars
    <3>. HIDE DEF SameFrames
    <3>0. (m_frame' = m_frame \/ m_frame' = NextFrame) /\ anchor' = anchor /\ SameFrames
      BY <2>2, <3>a, <3>b, <3>c, <3>d DEF SessionStep
    <3>1. m_frame' \in Nat /\ m_frame <= m_frame'
      BY <3>0
    <3>2. anchor' = anchor /\ \A c \in Client : response'[c].frame = response[c].frame
      BY <3>0 DEF SameFrames
    <3>. QED
      BY <2>1, <3>1, <3>2 DEF ClientsBehind
  <2>3. ASSUME NEW c \in Client, Poll(c) PROVE ClientsBehind'
    <3>1. m_frame' = CurrentFrame /\ anchor' = anchor
      BY <2>3 DEF Poll, CurrentFrameLocked
    <3>2. \A d \in Client : response'[d].frame \in {response[d].frame, CurrentFrame}
      BY <2>3 DEF Poll, Query, ClientTypeOK
    <3>. QED
      BY <2>1, <3>1, <3>2 DEF ClientsBehind
  <2>4. ASSUME NEW c \in Client, Apply(c) PROVE ClientsBehind'
    <3>1. m_frame' = m_frame
      BY <2>4 DEF Apply, historyVars
    <3>2. \A d \in Client : /\ anchor'[d] \in {anchor[d], response[d].frame}
                            /\ response'[d].frame \in {response[d].frame, 0}
      BY <2>4 DEF Apply, Idle, ClientTypeOK
    <3>. QED
      BY <2>1, <3>1, <3>2 DEF ClientsBehind
  <2>5. CASE UNCHANGED vars
    BY <2>5 DEF vars, historyVars, clientVars, ClientsBehind
  <2>. QED
    BY <2>2, <2>3, <2>4, <2>5 DEF Next, ClientStep
<1>. QED
  BY <1>1, <1>2, TypeCorrect, PTL DEF Spec

\* What the early break of query(), and of append_removed(), relies on: with the
\* frames ordered and no client ahead of them, nothing behind the first entry
\* the client has seen is new to it.
THEOREM FramesInOrder == Spec => []InOrder
<1>1. Ordered /\ ClientsBehind => InOrder
  BY DEF Ordered, InOrder
<1>. QED
  BY <1>1, ListInOrder, NoClientAhead, PTL

-----------------------------------------------------------------------------
(* The theorems.                                                           *)

\* A response under way is told from none by its frame.
Framed == \A c \in Client : IsIdle(c) \/ response[c].frame >= 1

CopiesInv == Framed /\ \A c \in Client : Complete(CopyOf(c), FrameOf(c))

\* The frame of a client is one the server has reached.
LEMMA FrameOfType ==
  ASSUME TypeOK, ClientsBehind, NEW c \in Client
  PROVE  FrameOf(c) \in Nat /\ FrameOf(c) <= m_frame
BY DEF FrameOf, TypeOK, ClientTypeOK, ClientsBehind

\* Orphaning a response touches nothing the protocol numbers it by.
LEMMA OrphanedSame ==
  ASSUME NEW r, NEW t
  PROVE  /\ Orphaned(r, t).frame = r.frame
         /\ Orphaned(r, t).removed = r.removed
         /\ Orphaned(Idle, t) = Idle
BY DEF Orphaned, Idle, NoTorrents

\* What the steps that are not of client c do to its copy.
LEMMA CopyAfterEvent ==
  ASSUME TypeOK, Framed, NEW c \in Client, NEW t,
         \/ UNCHANGED <<view, anchor, response>>
         \/ /\ UNCHANGED <<view, anchor>>
            /\ response' = [d \in Client |-> Orphaned(response[d], t)],
         \A u : u # t => m_tags'[u] = m_tags[u]
  PROVE  /\ SameButTag(CopyOf(c), CopyOf(c)', t)
         /\ FrameOf(c)' = FrameOf(c)
         /\ IsIdle(c)' \/ response'[c].frame >= 1
<1>1. /\ view' = view /\ anchor' = anchor
      /\ response'[c] = response[c] \/ response'[c] = Orphaned(response[c], t)
  OBVIOUS
<1>2. CASE IsIdle(c)
  <2>1. IsIdle(c)'
    BY <1>1, <1>2, OrphanedSame DEF IsIdle
  <2>. QED
    BY <1>1, <1>2, <2>1 DEF CopyOf, FrameOf, SameButTag
<1>3. CASE ~IsIdle(c)
  <2>1. response'[c].frame = response[c].frame /\ response[c].frame >= 1
    BY <1>1, <1>3, OrphanedSame DEF Framed
  <2>2. ~IsIdle(c)'
    BY <2>1 DEF IsIdle, Idle
  <2>3. response[c].updated \in [DOMAIN response[c].updated -> Copy]
    BY DEF TypeOK, ClientTypeOK
  <2>4. PICK v, r, q, K : v = view[c] /\ r = response[c] /\ q = response'[c] /\ K = anchor[c]
    OBVIOUS
  <2>5. PICK V : V = Applied(v, Serialized(r, K))
    OBVIOUS
  <2>6. PICK W : W = Applied(v, Serialized(q, K))'
    OBVIOUS
  <2>7. SameButTag(V, W, t)
    BY <1>1, <2>3, <2>4, <2>5, <2>6, TagReadLate
  <2>8. CopyOf(c) = V
    BY <1>3, <2>4, <2>5 DEF CopyOf
  <2>9. CopyOf(c)' = W
    BY <1>1, <2>2, <2>4, <2>6 DEF CopyOf
  <2>. QED
    BY <1>1, <1>3, <2>1, <2>2, <2>7, <2>8, <2>9 DEF FrameOf
<1>. QED
  BY <1>2, <1>3

\* What a response makes of a copy depends on the tags and nothing else.
LEMMA AppliedSame ==
  ASSUME m_tags' = m_tags, NEW v, NEW r, NEW K
  PROVE  Applied(v, Serialized(r, K))' = Applied(v, Serialized(r, K))
<1>1. \A t, f : FieldValue(r, t, f)' = FieldValue(r, t, f)
  BY DEF FieldValue
<1>2. Serialized(r, K)' = Serialized(r, K)
  BY <1>1 DEF Serialized
<1>3. PICK msg : msg = Serialized(r, K)
  OBVIOUS
<1>. QED
  BY <1>2, <1>3

\* A step of another client, or one that changes no variable, leaves a copy,
\* and what completes it, as they were.
LEMMA CopyUntouched ==
  ASSUME NEW c \in Client, view'[c] = view[c], anchor'[c] = anchor[c],
         response'[c] = response[c], UNCHANGED <<m_queue, m_tags, m_removed, m_horizon>>,
         Complete(CopyOf(c), FrameOf(c)), IsIdle(c) \/ response[c].frame >= 1
  PROVE  Complete(CopyOf(c), FrameOf(c))' /\ (IsIdle(c) \/ response[c].frame >= 1)'
<1>1. IsIdle(c)' = IsIdle(c)
  BY DEF IsIdle
<1>2. CopyOf(c)' = CopyOf(c) /\ FrameOf(c)' = FrameOf(c)
  <2>1. PICK v, r, K : v = view[c] /\ r = response[c] /\ K = anchor[c]
    OBVIOUS
  <2>2. Applied(v, Serialized(r, K))' = Applied(v, Serialized(r, K))
    BY AppliedSame
  <2>. QED
    BY <1>1, <2>1, <2>2 DEF CopyOf, FrameOf
<1>. QED
  BY <1>1, <1>2 DEF Complete, Current, Droppable, KnownTo, WillBeRemoved, Live

\* A poll leaves its client with a copy of the list as it is now.
LEMMA PollCompletes ==
  ASSUME TypeOK, InOrder, NEW c \in Client, Complete(CopyOf(c), FrameOf(c)), Poll(c)
  PROVE  Complete(CopyOf(c), FrameOf(c))' /\ response'[c].frame >= 1
<1>. USE FrameTypes DEF TypeOK
<1>1. PICK v, K : v = view[c] /\ K = anchor[c]
  OBVIOUS
<1>2. PICK r : r = Query(K)
  OBVIOUS
<1>3. PICK L, F : L = LiveList /\ F = CurrentFrame
  OBVIOUS
<1>4. Ordered
  BY DEF InOrder, Ordered
<1>5. K \in Nat /\ Current(v, K) /\ Droppable(v, K)
  BY <1>1 DEF Poll, CopyOf, FrameOf, Complete, ClientTypeOK
<1>6. Applied(v, Serialized(r, K)) = L
  BY <1>2, <1>3, <1>4, <1>5, ResponseCompletes
<1>7. /\ response'[c] = r /\ view' = view /\ anchor' = anchor /\ m_tags' = m_tags
      /\ r.frame = F
  BY <1>1, <1>2, <1>3 DEF Poll, Query, CurrentFrameLocked, ClientTypeOK
<1>8. F >= 1
  BY <1>3, <1>4 DEF Ordered, FramesOrdered
<1>9. ~IsIdle(c)'
  BY <1>7, <1>8 DEF IsIdle, Idle
<1>10. Applied(v, Serialized(r, K))' = L
  BY <1>6, <1>7, AppliedSame
<1>11. CopyOf(c)' = L /\ FrameOf(c)' = F
  BY <1>1, <1>7, <1>9, <1>10 DEF CopyOf, FrameOf
<1>12. Complete(L, F)
  <2>1. KnownTo(L, F)
    BY <1>3, <1>4 DEF KnownTo, Ordered, FramesOrdered, TombstoneOrdered
  <2>. QED
    BY <1>3, <1>4, <2>1, LiveIsComplete DEF Complete
<1>13. Complete(L, F)'
  BY <1>12 DEF Poll, CurrentFrameLocked, Complete, Current, Droppable, KnownTo, WillBeRemoved,
               Live
<1>. QED
  BY <1>7, <1>8, <1>11, <1>13

\* Applying a response turns what the copy was going to be into what it is.
LEMMA ApplyCompletes ==
  ASSUME TypeOK, NEW c \in Client, Complete(CopyOf(c), FrameOf(c)), Apply(c)
  PROVE  Complete(CopyOf(c), FrameOf(c))' /\ IsIdle(c)'
<1>1. PICK V, F : V = CopyOf(c) /\ F = FrameOf(c)
  OBVIOUS
<1>2. IsIdle(c)' /\ view'[c] = V /\ anchor'[c] = F
  BY <1>1 DEF Apply, IsIdle, CopyOf, FrameOf, TypeOK, ClientTypeOK
<1>3. CopyOf(c)' = V /\ FrameOf(c)' = F
  BY <1>2 DEF CopyOf, FrameOf
<1>4. Complete(V, F)'
  BY <1>1 DEF Apply, historyVars, Complete, Current, Droppable, KnownTo, WillBeRemoved, Live
<1>. QED
  BY <1>2, <1>3, <1>4

\* The same of every client after an event of the session.
LEMMA EventCompletes ==
  ASSUME TypeOK, InOrder, CopiesInv, SessionStep
  PROVE  CopiesInv'
<1>. USE DEF TypeOK
<1>1. Ordered /\ ClientsBehind
  BY DEF InOrder, Ordered
<1> SUFFICES ASSUME NEW c \in Client
             PROVE  Complete(CopyOf(c), FrameOf(c))' /\ (IsIdle(c) \/ response[c].frame >= 1)'
  BY DEF CopiesInv, Framed
<1>2. PICK V, F : V = CopyOf(c) /\ F = FrameOf(c)
  OBVIOUS
<1>3. Framed /\ Complete(V, F) /\ F \in Nat /\ F <= m_frame
  BY <1>1, <1>2, FrameOfType DEF CopiesInv
<1>4. PICK W : W = CopyOf(c)'
  OBVIOUS
<1> SUFFICES FrameOf(c)' = F /\ Complete(W, F)' /\ (IsIdle(c) \/ response[c].frame >= 1)'
  BY <1>4
<1>5. ASSUME NEW t \in Torrent, NEW s \in Status, AddTorrent(t, s)
      PROVE  FrameOf(c)' = F /\ Complete(W, F)' /\ (IsIdle(c) \/ response[c].frame >= 1)'
  <2>1. m_tags' = m_tags /\ UNCHANGED <<view, anchor, response>> /\ HandleAdd(t, s)
    BY <1>5 DEF AddTorrent, HandleAdd, clientVars
  <2>2. IsIdle(c)' = IsIdle(c)
    BY <2>1 DEF IsIdle
  <2>3. W = V
    BY <1>2, <1>4, <2>1, <2>2, AppliedSame DEF CopyOf
  <2>4. Complete(V, F)'
    BY <1>3, <2>1, AddCompletes
  <2>. QED
    BY <1>2, <1>3, <2>1, <2>2, <2>3, <2>4 DEF FrameOf, Framed
<1>6. ASSUME NEW U \in SUBSET Torrent, NEW s \in [U -> Status],
             NEW ord \in TotalOrders(U \cap Live), UpdateTorrents(U, s, ord)
      PROVE  FrameOf(c)' = F /\ Complete(W, F)' /\ (IsIdle(c) \/ response[c].frame >= 1)'
  <2>1. m_tags' = m_tags /\ UNCHANGED <<view, anchor, response>> /\ HandleStateUpdate(U, s, ord)
    BY <1>6 DEF UpdateTorrents, HandleStateUpdate, clientVars
  <2>2. IsIdle(c)' = IsIdle(c)
    BY <2>1 DEF IsIdle
  <2>3. W = V
    BY <1>2, <1>4, <2>1, <2>2, AppliedSame DEF CopyOf
  <2>4. Complete(V, F)'
    BY <1>3, <2>1, StateUpdateCompletes
  <2>. QED
    BY <1>2, <1>3, <2>1, <2>2, <2>3, <2>4 DEF FrameOf, Framed
<1>7. ASSUME NEW t \in Torrent, NEW value \in Tag, NEW mask \in Tag,
             SetTorrentTag(t, value, mask)
      PROVE  FrameOf(c)' = F /\ Complete(W, F)' /\ (IsIdle(c) \/ response[c].frame >= 1)'
  <2>1. UNCHANGED <<view, anchor, response>> /\ SetTag(t, value, mask)
    BY <1>7 DEF SetTorrentTag, clientVars
  <2>2. \A u : u # t => m_tags'[u] = m_tags[u]
    BY <2>1 DEF SetTag, HistoryTypeOK
  <2>3. SameButTag(V, W, t) /\ FrameOf(c)' = F /\ (IsIdle(c) \/ response[c].frame >= 1)'
    BY <1>2, <1>3, <1>4, <2>1, <2>2, CopyAfterEvent
  <2>. QED
    BY <1>3, <2>1, <2>3, SetTagCompletes
<1>8. ASSUME NEW t \in Torrent, RemoveTorrent(t)
      PROVE  FrameOf(c)' = F /\ Complete(W, F)' /\ (IsIdle(c) \/ response[c].frame >= 1)'
  <2>1. /\ UNCHANGED <<view, anchor>> /\ HandleRemoved(t)
        /\ response' = [d \in Client |-> Orphaned(response[d], t)]
    BY <1>8 DEF RemoveTorrent
  <2>2. \A u : u # t => m_tags'[u] = m_tags[u]
    BY <2>1 DEF HandleRemoved, HistoryTypeOK
  <2>3. SameButTag(V, W, t) /\ FrameOf(c)' = F /\ (IsIdle(c) \/ response[c].frame >= 1)'
    BY <1>2, <1>3, <1>4, <2>1, <2>2, CopyAfterEvent
  <2>. QED
    BY <1>1, <1>3, <2>1, <2>3, RemovedCompletes
<1>. QED
  BY <1>5, <1>6, <1>7, <1>8 DEF SessionStep

\* Every reachable copy is one the next response completes, and every removal
\* a client may be told of is of a torrent it has.
THEOREM CopiesInvariant == Spec => []CopiesInv
<1>1. Init => CopiesInv
  <2> SUFFICES ASSUME Init, NEW c \in Client PROVE IsIdle(c) /\ Complete(CopyOf(c), FrameOf(c))
    BY DEF CopiesInv, Framed
  <2>1. IsIdle(c) /\ CopyOf(c) = NoTorrents /\ Live = {} /\ DOMAIN m_removed = {}
    BY DEF Init, HistoryInit, IsIdle, CopyOf, Live
  <2>. QED
    BY <2>1 DEF Complete, Current, Droppable, KnownTo, NoTorrents
<1>2. TypeOK /\ InOrder /\ CopiesInv /\ [Next]_vars => CopiesInv'
  <2> SUFFICES ASSUME TypeOK, InOrder, CopiesInv, [Next]_vars PROVE CopiesInv'
    OBVIOUS
  <2>1. \A c \in Client : Complete(CopyOf(c), FrameOf(c)) /\ (IsIdle(c) \/ response[c].frame >= 1)
    BY DEF CopiesInv, Framed
  <2>2. ASSUME NEW c \in Client, Poll(c) PROVE CopiesInv'
    <3>1. ASSUME NEW d \in Client, d # c
          PROVE  Complete(CopyOf(d), FrameOf(d))' /\ (IsIdle(d) \/ response[d].frame >= 1)'
      BY <2>1, <2>2, <3>1, CopyUntouched
         DEF Poll, CurrentFrameLocked, TypeOK, ClientTypeOK
    <3>. QED
      BY <2>1, <2>2, <3>1, PollCompletes DEF CopiesInv, Framed
  <2>3. ASSUME NEW c \in Client, Apply(c) PROVE CopiesInv'
    <3>1. ASSUME NEW d \in Client, d # c
          PROVE  Complete(CopyOf(d), FrameOf(d))' /\ (IsIdle(d) \/ response[d].frame >= 1)'
      BY <2>1, <2>3, <3>1, CopyUntouched DEF Apply, historyVars, TypeOK, ClientTypeOK
    <3>. QED
      BY <2>1, <2>3, <3>1, ApplyCompletes DEF CopiesInv, Framed
  <2>4. CASE UNCHANGED vars
    BY <2>1, <2>4, CopyUntouched DEF vars, historyVars, clientVars, CopiesInv, Framed
  <2>. QED
    BY <2>2, <2>3, <2>4, EventCompletes DEF Next, ClientStep
<1>. QED
  BY <1>1, <1>2, TypeCorrect, FramesInOrder, PTL DEF Spec

\* Whatever is interleaved with its polls, no client is left with a copy that
\* the next response would not complete.
THEOREM NothingLost == Spec => []CopiesComplete
<1>1. CopiesInv => CopiesComplete
  BY DEF CopiesInv, Complete, CopiesComplete, CopiesCurrent, CopiesDroppable
<1>. QED
  BY <1>1, CopiesInvariant, PTL

\* A client that has caught up shows the torrents of the session, with their
\* values, and nothing else.
THEOREM CaughtUp == Spec => []ClientsInSync
<1>1. TypeOK /\ InOrder /\ CopiesInv => ClientsInSync
  <2> SUFFICES ASSUME TypeOK, InOrder, CopiesInv, NEW c \in Client,
                      anchor[c] = m_frame, ~m_deferred_frame_count, IsIdle(c)
               PROVE  view[c] = LiveList
    BY DEF ClientsInSync, InSync
  <2>1. CurrentFrame = m_frame /\ CopyOf(c) = view[c] /\ FrameOf(c) = m_frame
    BY DEF CurrentFrame, CopyOf, FrameOf
  <2>2. Current(view[c], CurrentFrame) /\ Droppable(view[c], CurrentFrame)
    BY <2>1 DEF CopiesInv, Complete
  <2>3. IsFcn(view[c]) /\ \A t \in DOMAIN view[c] : IsFcn(view[c][t])
    BY DEF TypeOK, ClientTypeOK
  <2>4. HistoryTypeOK /\ Ordered
    BY DEF TypeOK, InOrder, Ordered
  <2>. QED
    BY <2>2, <2>3, <2>4, CompleteIsLive
<1>. QED
  BY <1>1, TypeCorrect, FramesInOrder, CopiesInvariant, PTL

\* A response names a torrent as removed only to a client that shows it.
THEOREM RemovalsOfKnown == Spec => []RemovedAreKnown
<1>1. Init => RemovedAreKnown
  BY DEF Init, RemovedAreKnown, Idle
<1>2. TypeOK /\ InOrder /\ CopiesInv /\ RemovedAreKnown /\ [Next]_vars => RemovedAreKnown'
  <2> SUFFICES ASSUME TypeOK, InOrder, CopiesInv, RemovedAreKnown, [Next]_vars,
                      NEW c \in Client
               PROVE  response'[c].removed \subseteq DOMAIN view'[c]
    BY DEF RemovedAreKnown
  <2>1. response[c].removed \subseteq DOMAIN view[c]
    BY DEF RemovedAreKnown
  <2>2. CASE SessionStep
    <3>1. view' = view
      BY <2>2 DEF SessionStep, AddTorrent, RemoveTorrent, UpdateTorrents, SetTorrentTag,
                  clientVars
    <3>2. response'[c].removed = response[c].removed
      <4>1. CASE response' = response
        BY <4>1
      <4>2. ASSUME NEW t \in Torrent, RemoveTorrent(t)
            PROVE  response'[c].removed = response[c].removed
        BY <4>2, OrphanedSame DEF RemoveTorrent
      <4>. QED
        BY <2>2, <4>1, <4>2 DEF SessionStep, AddTorrent, UpdateTorrents, SetTorrentTag, clientVars
    <3>. QED
      BY <2>1, <3>1, <3>2
  <2>3. ASSUME NEW d \in Client, Poll(d) PROVE response'[c].removed \subseteq DOMAIN view'[c]
    <3>1. CASE c # d
      BY <2>1, <2>3, <3>1 DEF Poll, TypeOK, ClientTypeOK
    <3>2. CASE c = d
      <4>1. PICK K : K = anchor[c]
        OBVIOUS
      <4>2. /\ response'[c].removed = RemovedSince(Promoted(K), NoFilter)
            /\ view' = view /\ K \in Nat
        BY <2>3, <3>2, <4>1 DEF Poll, Query, TypeOK, ClientTypeOK
      <4>3. KnownTo(view[c], K)
        BY <2>3, <3>2, <4>1 DEF CopiesInv, Complete, Poll, CopyOf, FrameOf
      <4>4. CASE Promoted(K) = 0
        BY <4>2, <4>4 DEF RemovedSince
      <4>5. CASE Promoted(K) # 0
        <5>1. Promoted(K) = K /\ K \in Nat \ {0}
          BY <4>2, <4>5 DEF Promoted
        <5>2. response'[c].removed =
                {m_removed[i].ih : i \in {i \in DOMAIN m_removed :
                                            m_removed[i].removed > K /\ m_removed[i].added <= K}}
          BY <4>2, <5>1, TombstonesFound DEF TypeOK, InOrder, Ordered
        <5>. QED
          BY <4>2, <4>3, <5>2 DEF KnownTo
      <4>. QED
        BY <4>4, <4>5
    <3>. QED
      BY <3>1, <3>2
  <2>4. ASSUME NEW d \in Client, Apply(d) PROVE response'[c].removed \subseteq DOMAIN view'[c]
    BY <2>1, <2>4 DEF Apply, Idle, TypeOK, ClientTypeOK
  <2>5. CASE UNCHANGED vars
    BY <2>1, <2>5 DEF vars, clientVars
  <2>. QED
    BY <2>2, <2>3, <2>4, <2>5 DEF Next, ClientStep
<1>. QED
  BY <1>1, <1>2, TypeCorrect, FramesInOrder, CopiesInvariant, PTL DEF Spec
=============================================================================
