--------------------------- MODULE TorrentFilter ----------------------------
(***************************************************************************)
(* The torrent list and a client that polls it with filters, as            *)
(* get_updates of bt/libtorrent-webui.js does: each request carries the    *)
(* frame and filter the client's view was built under and the filter it    *)
(* wants now, and a request may be sent while others are under way.        *)
(* Requests are served, and responses applied, in the order they were      *)
(* sent: one websocket carries them.                                       *)
(***************************************************************************)
EXTENDS TorrentHistory

CONSTANTS
  Filter,      \* the filters the client may ask for
  Removable,   \* the torrents that may be removed from the session
  MaxInFlight  \* how many polls the client has under way at most

ASSUME FilterAssumption ==
  /\ MaxInFlight \in Nat \ {0}
  /\ NoFilter \in Filter
  /\ Removable \subseteq Torrent

VARIABLES
  view,      \* the client's copy of what its filter lets through
  _frame,    \* the frame and the filter of the last response applied
  _filter,
  requests,  \* requests not yet served
  messages   \* responses not yet applied, with the filter of their request

clientVars == <<view, _frame, _filter, requests, messages>>
vars == <<historyVars, clientVars>>

TypeOK ==
  /\ HistoryTypeOK
  /\ DOMAIN view \subseteq Torrent
  /\ \A t \in DOMAIN view : DOMAIN view[t] \subseteq Field
  /\ _frame \in Nat
  /\ _filter \in Filter
  /\ Len(requests) + Len(messages) <= MaxInFlight

Init ==
  /\ HistoryInit
  /\ view = NoTorrents
  /\ _frame = 0
  /\ _filter = NoFilter
  /\ requests = <<>>
  /\ messages = <<>>

-----------------------------------------------------------------------------

AddTorrent(t, s) == HandleAdd(t, s) /\ UNCHANGED clientVars
RemoveTorrent(t) == HandleRemoved(t) /\ UNCHANGED clientVars
UpdateTorrents(U, s, ord) == HandleStateUpdate(U, s, ord) /\ UNCHANGED clientVars
SetTorrentTag(t, value, mask) == SetTag(t, value, mask) /\ UNCHANGED clientVars

\* get_updates(filter): both anchors are those of the last response applied
GetUpdates(f) ==
  /\ Len(requests) + Len(messages) < MaxInFlight
  /\ requests' = Append(requests, [frame |-> _frame, old |-> _filter, new |-> f])
  /\ UNCHANGED <<view, _frame, _filter, messages, historyVars>>

\* get_torrent_updates
Serve ==
  /\ requests # <<>>
  /\ LET req == Head(requests)
         r == QueryFiltered(req.frame, req.old, req.new)
     IN messages' = Append(messages, [body |-> Serialized(r, req.frame), filter |-> req.new])
  /\ requests' = Tail(requests)
  /\ CurrentFrameLocked
  /\ UNCHANGED <<view, _frame, _filter>>

\* The response handler: it anchors the frame and the filter, and the page
\* applies the removals and then the updates.
HandleResponse ==
  /\ messages # <<>>
  /\ view' = Applied(view, Head(messages).body)
  /\ _frame' = Head(messages).body.frame
  /\ _filter' = Head(messages).filter
  /\ messages' = Tail(messages)
  /\ UNCHANGED <<requests, historyVars>>

Next ==
  \/ \E t \in Torrent, s \in Status : AddTorrent(t, s)
  \/ \E t \in Removable : RemoveTorrent(t)
  \/ \E U \in SUBSET Torrent : \E s \in [U -> Status], ord \in TotalOrders(U \cap Live) :
       UpdateTorrents(U, s, ord)
  \/ \E t \in Torrent, value \in Tag, mask \in Tag : SetTorrentTag(t, value, mask)
  \/ \E f \in Filter : GetUpdates(f)
  \/ Serve
  \/ HandleResponse

Spec == Init /\ [][Next]_vars

-----------------------------------------------------------------------------

\* Nothing is on its way and the view is of the current frame.
Settled ==
  /\ requests = <<>>
  /\ messages = <<>>
  /\ _frame = m_frame
  /\ ~m_deferred_frame_count

Visible == {t \in Live : Matched(_filter, m_queue[t].status.bits, m_tags[t])}

\* A settled view has every torrent the filter lets through, complete and
\* with current values, whatever filters it went through to get there.
NothingMissing ==
  Settled => \A t \in Visible : t \in DOMAIN view /\ view[t] = LiveList[t]

\* Of the torrents that stay in the session, a settled view has those the
\* filter lets through and no other: the ones that left it were reported as
\* removed, also when the old filter can no longer be judged.
ExitsReported ==
  Settled => DOMAIN view \ Removable \subseteq Visible

\* A view of polls without filters is the list of the session.  It holds of
\* polls one at a time; libtorrent-webui.js:419 claims it of polls that
\* overlap: "With this we can safely send another request before this one's
\* response lands".
ViewIsList ==
  Settled /\ Filter = {NoFilter} => view = LiveList

\* A settled view has no torrent the session no longer has.
\* (torrent_history.cpp:229: "a missed removal leaves the client with a
\* permanently stale view".)
NoStaleTorrents ==
  Settled => DOMAIN view \subseteq Live
=============================================================================
