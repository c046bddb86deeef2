------------------------ MODULE TorrentFilterProofs -------------------------
(***************************************************************************)
(* Theorems about TorrentFilter, for any set of torrents, statuses, tags   *)
(* and filters, any tombstone limit and any bound on the frames, of a      *)
(* client that polls again once it has applied the previous response: what *)
(* its view shows after any sequence of filters.  Of a client whose polls  *)
(* overlap they do not hold.                                               *)
(***************************************************************************)
EXTENDS TorrentFilter, TorrentHistoryProofs

-----------------------------------------------------------------------------
(* The view, the frame and the filter once what is on its way is applied.  *)

OnItsWay   == messages # <<>>
Held       == IF OnItsWay THEN Applied(view, messages[1].body) ELSE view
HeldFrame  == IF OnItsWay THEN messages[1].body.frame ELSE _frame
HeldFilter == IF OnItsWay THEN messages[1].filter ELSE _filter

\* Nothing is on its way, or a request made for the view as it is, or a response.
OnePoll ==
  \/ requests = <<>> /\ messages = <<>>
  \/ /\ messages = <<>>
     /\ \E f \in Filter : requests = <<[frame |-> _frame, old |-> _filter, new |-> f]>>
  \/ /\ requests = <<>>
     /\ \E b, f : messages = <<[body |-> b, filter |-> f]>>

\* What filter f looks at of torrent t did not change since frame K, so that
\* what f says of t now it said at K too.
Judged(t, K, f) == IsEmpty(f) \/ StableSince(m_queue[t], K)
LetsThrough(f, t) == Matched(f, m_queue[t].status.bits, m_tags[t])

\* A view v of frame K, under filter f, lacks no torrent that f let through at
\* K, nor a field of it that did not change since.
Covers(v, K, f) ==
  \A t \in Live : m_queue[t].added <= K /\ Judged(t, K, f) /\ LetsThrough(f, t) =>
    /\ t \in DOMAIN v
    /\ DOMAIN v[t] = Field
    /\ \A x \in StatusField : m_queue[t].frame[x] <= K => v[t][x] = m_queue[t].status[x]
    /\ m_queue[t].frame["tag"] <= K => v[t]["tag"] = m_tags[t]

\* Of the torrents that stay, it has none that f kept out at K.
KeepsOut(v, K, f) ==
  \A t \in DOMAIN v \ Removable :
    /\ t \in Live /\ m_queue[t].added <= K
    /\ Judged(t, K, f) => LetsThrough(f, t)

\* A view is made of functions, whose fields are those of a torrent.
IsView(v) ==
  /\ IsFcn(v) /\ DOMAIN v \subseteq Torrent
  /\ \A t \in DOMAIN v : IsFcn(v[t]) /\ DOMAIN v[t] \subseteq Field

FilterInv ==
  /\ HistoryTypeOK /\ Ordered
  /\ OnePoll
  /\ HeldFrame \in Nat /\ HeldFrame <= m_frame
  /\ IsView(Held)
  /\ Covers(Held, HeldFrame, HeldFilter)
  /\ KeepsOut(Held, HeldFrame, HeldFilter)

-----------------------------------------------------------------------------
(* What an event of the session does to a view.                            *)

\* An event that stamps what it changes with a frame after K, whether a filter
\* looks at it or not, leaves a view of frame K as good as it was.
LEMMA StaysFiltered ==
  ASSUME NEW K, NEW v, NEW f, Covers(v, K, f), KeepsOut(v, K, f),
         \A t \in Live \ Removable : t \in Live' /\ m_queue'[t].added = m_queue[t].added,
         \A t \in Live' : m_queue'[t].added <= K =>
           /\ t \in Live /\ m_queue[t].added <= K
           /\ \A x \in StatusField : m_queue'[t].frame[x] <= K =>
                m_queue[t].frame[x] <= K /\ m_queue'[t].status[x] = m_queue[t].status[x]
           /\ m_queue'[t].frame["tag"] <= K =>
                m_queue[t].frame["tag"] <= K /\ m_tags'[t] = m_tags[t]
  PROVE  Covers(v, K, f)' /\ KeepsOut(v, K, f)'
<1>1. \A b, g : IsEmpty(f) => Matched(f, b, g)
  BY DEF IsEmpty, Matched
<1>2. ASSUME NEW t \in Live', m_queue'[t].added <= K, Judged(t, K, f)'
      PROVE  Judged(t, K, f) /\ (LetsThrough(f, t)' <=> LetsThrough(f, t))
  <2>1. CASE IsEmpty(f)
    BY <1>1, <2>1 DEF Judged, LetsThrough
  <2>2. CASE ~IsEmpty(f)
    <3>1. m_queue'[t].frame["bits"] <= K /\ m_queue'[t].frame["tag"] <= K
      BY <1>2, <2>2 DEF Judged, StableSince
    <3>2. "bits" \in StatusField
      BY DEF StatusField
    <3>3. /\ m_queue[t].frame["bits"] <= K /\ m_queue[t].frame["tag"] <= K
          /\ m_queue'[t].status["bits"] = m_queue[t].status["bits"]
          /\ m_tags'[t] = m_tags[t]
      BY <1>2, <3>1, <3>2
    <3>. QED
      BY <3>3 DEF Judged, StableSince, LetsThrough
  <2>. QED
    BY <2>1, <2>2
<1>3. Covers(v, K, f)'
  <2> SUFFICES ASSUME NEW t \in Live', m_queue'[t].added <= K, Judged(t, K, f)',
                      LetsThrough(f, t)'
               PROVE  /\ t \in DOMAIN v
                      /\ DOMAIN v[t] = Field
                      /\ \A x \in StatusField :
                           m_queue'[t].frame[x] <= K => v[t][x] = m_queue'[t].status[x]
                      /\ m_queue'[t].frame["tag"] <= K => v[t]["tag"] = m_tags'[t]
    BY DEF Covers
  <2>1. t \in Live /\ m_queue[t].added <= K /\ Judged(t, K, f) /\ LetsThrough(f, t)
    BY <1>2
  <2>2. /\ t \in DOMAIN v /\ DOMAIN v[t] = Field
        /\ \A x \in StatusField : m_queue[t].frame[x] <= K => v[t][x] = m_queue[t].status[x]
        /\ m_queue[t].frame["tag"] <= K => v[t]["tag"] = m_tags[t]
    BY <2>1 DEF Covers
  <2>. HIDE DEF Live, StatusField, Field
  <2>. QED
    BY <2>2
<1>4. KeepsOut(v, K, f)'
  <2> SUFFICES ASSUME NEW t \in DOMAIN v \ Removable
               PROVE  /\ t \in Live' /\ m_queue'[t].added <= K
                      /\ Judged(t, K, f)' => LetsThrough(f, t)'
    BY DEF KeepsOut
  <2>1. /\ t \in Live /\ m_queue[t].added <= K
        /\ Judged(t, K, f) => LetsThrough(f, t)
    BY DEF KeepsOut
  <2>2. t \in Live' /\ m_queue'[t].added <= K
    BY <2>1
  <2>. QED
    BY <1>2, <2>1, <2>2
<1>. QED
  BY <1>3, <1>4

\* The events of the session: each stamps what it changes with the frame of the
\* slot being filled, which no client has.
SessionStep ==
  \/ \E t \in Torrent, s \in Status : AddTorrent(t, s)
  \/ \E t \in Removable : RemoveTorrent(t)
  \/ \E U \in SUBSET Torrent : \E s \in [U -> Status], ord \in TotalOrders(U \cap Live) :
       UpdateTorrents(U, s, ord)
  \/ \E t \in Torrent, value \in Tag, mask \in Tag : SetTorrentTag(t, value, mask)

\* Each event leaves what it does not touch alone and stamps the rest later than K.
LEMMA EventsStamp ==
  ASSUME HistoryTypeOK, NEW K \in Nat, K <= m_frame, SessionStep
  PROVE  /\ \A t \in Live \ Removable : t \in Live' /\ m_queue'[t].added = m_queue[t].added
         /\ \A t \in Live' : m_queue'[t].added <= K =>
              /\ t \in Live /\ m_queue[t].added <= K
              /\ \A x \in StatusField : m_queue'[t].frame[x] <= K =>
                   m_queue[t].frame[x] <= K /\ m_queue'[t].status[x] = m_queue[t].status[x]
              /\ m_queue'[t].frame["tag"] <= K =>
                   m_queue[t].frame["tag"] <= K /\ m_tags'[t] = m_tags[t]
<1>. DEFINE Same(t) == m_queue'[t] = m_queue[t] /\ m_tags'[t] = m_tags[t]
            Stamped(t) ==
              /\ m_queue'[t].added = m_queue[t].added
              /\ \A x \in StatusField : m_queue'[t].frame[x] <= K =>
                   m_queue[t].frame[x] <= K /\ m_queue'[t].status[x] = m_queue[t].status[x]
              /\ m_queue'[t].frame["tag"] <= K =>
                   m_queue[t].frame["tag"] <= K /\ m_tags'[t] = m_tags[t]
<1>. USE FrameTypes
<1>1. ~(NextFrame <= K)
  OBVIOUS
<1>2. \A t : Same(t) => Stamped(t)
  OBVIOUS
<1>3. "tag" \in Field /\ \A x \in StatusField : x \in Field
  BY DEF Field
<1>. HIDE DEF Live, Field, StatusField
<1>4. ASSUME NEW t \in Torrent, NEW s \in Status, AddTorrent(t, s)
      PROVE  /\ \A u \in Live : u \in Live' /\ Stamped(u)
             /\ \A u \in Live' \ Live : ~(m_queue'[u].added <= K)
  <2>1. CASE t \in Live
    BY <1>2, <1>4, <2>1 DEF AddTorrent, HandleAdd, Live
  <2>2. CASE t \notin Live
    <3>1. /\ m_tags' = m_tags /\ Live' = Live \cup {t}
          /\ m_queue'[t] = NewEntry(s)
          /\ \A u \in Live : m_queue'[u] = m_queue[u]
      BY <1>4, <2>2 DEF AddTorrent, HandleAdd, Live
    <3>2. m_queue'[t].added = NextFrame
      BY <3>1 DEF NewEntry
    <3>. QED
      BY <1>1, <1>2, <3>1, <3>2
  <2>. QED
    BY <2>1, <2>2
<1>5. ASSUME NEW t \in Removable, RemoveTorrent(t)
      PROVE  Live' = Live \ {t} /\ \A u \in Live' : Stamped(u)
  <2>1. t \in Torrent
    BY FilterAssumption
  <2>2. Live' = Live \ {t} /\ \A u \in Live' : Same(u)
    BY <1>5, <2>1 DEF RemoveTorrent, HandleRemoved, Live, HistoryTypeOK
  <2>. QED
    BY <1>2, <2>2
<1>6. ASSUME NEW U \in SUBSET Torrent, NEW s \in [U -> Status],
             NEW ord \in TotalOrders(U \cap Live), UpdateTorrents(U, s, ord)
      PROVE  Live' = Live /\ \A u \in Live : Stamped(u)
  <2>1. /\ Live' = Live /\ m_tags' = m_tags
        /\ \A u \in Live : m_queue'[u] = IF u \in U THEN UpdateStatus(m_queue[u], s[u])
                                                    ELSE m_queue[u]
    BY <1>6 DEF UpdateTorrents, HandleStateUpdate, Live
  <2>2. ASSUME NEW u \in Live, u \in U PROVE Stamped(u)
    BY <1>1, <1>3, <2>1, <2>2, UpdateStatusFrames
  <2>. QED
    BY <1>2, <2>1, <2>2
<1>7. ASSUME NEW t \in Torrent, NEW value \in Tag, NEW mask \in Tag,
             SetTorrentTag(t, value, mask)
      PROVE  Live' = Live /\ \A u \in Live : Stamped(u)
  <2>1. /\ Live' = Live /\ m_queue'[t] = Retagged(m_queue[t])
        /\ \A u \in Live \ {t} : Same(u)
    BY <1>7 DEF SetTorrentTag, SetTag, Live, HistoryTypeOK
  <2>2. Stamped(t)
    BY <1>1, <2>1, RetaggedFrames
  <2>. QED
    BY <1>2, <2>1, <2>2
<1>8. CASE \E t \in Torrent, s \in Status : AddTorrent(t, s)
  BY <1>4, <1>8
<1>9. CASE \E t \in Removable : RemoveTorrent(t)
  BY <1>5, <1>9
<1>10. CASE Live' = Live /\ \A u \in Live : Stamped(u)
  BY <1>10
<1>. QED
  BY <1>6, <1>7, <1>8, <1>9, <1>10 DEF SessionStep

-----------------------------------------------------------------------------
(* What query_filtered() answers.                                          *)

\* A scan finds every entry whose frame is after the client's, and all of them
\* when the filter changed.
LEMMA ScanReaches ==
  ASSUME HistoryTypeOK, Ordered, NEW P \in Nat, NEW old, NEW new
  PROVE  /\ Scanned(P, old, new) \subseteq Live
         /\ \A t \in Live : t \notin Scanned(P, old, new) => old = new /\ m_queue[t].last <= P
<1>1. ScannedSince(P) = {t \in Live : m_queue[t].last > P}
  BY ScanFinds
<1>2. \A t \in Live : m_queue[t].last \in Nat
  BY FrameTypes
<1>. HIDE DEF Live
<1>. QED
  BY <1>1, <1>2 DEF Scanned

\* What names a live torrent as removed by a tombstone is a removal from before
\* it was added.
LEMMA TombstonesOfLive ==
  ASSUME HistoryTypeOK, Ordered, NEW P \in Nat, NEW f, NEW t \in Live,
         t \in RemovedSince(P, f)
  PROVE  P # 0 /\ m_queue[t].added > P
<1>. USE FrameTypes
<1>1. P # 0
  BY DEF RemovedSince
<1>2. PICK i \in DOMAIN m_removed : /\ m_removed[i].ih = t
                                    /\ \A j \in 1 .. i : m_removed[j].removed > P
  BY <1>1 DEF RemovedSince
<1>3. i \in 1 .. i
  BY DEF HistoryTypeOK
<1>4. m_removed[i].removed > P /\ m_removed[i].removed <= m_queue[t].added
  BY <1>2, <1>3 DEF Ordered, FramesOrdered, TombstoneOrdered
<1>5. m_removed[i].removed \in Nat /\ m_queue[t].added \in Nat
  OBVIOUS
<1>. QED
  BY <1>1, <1>4, <1>5

\* What old let through at frame P, as far as the server can tell.
Was(t, P, old) == P # 0 /\ Judged(t, P, old) /\ LetsThrough(old, t)

\* Response r to a poll of a view of frame K under filter old, for filter new:
\* what it sends, what it leaves out, and what it names as removed.
ResponseTo(r, K, old, new) ==
  LET P == Promoted(K) IN
  /\ r.frame = CurrentFrame
  /\ r.snapshot <=> P = 0
  /\ \A t \in DOMAIN r.updated :
       /\ t \in Live /\ LetsThrough(new, t)
       /\ r.updated[t].status = m_queue[t].status
       /\ r.updated[t].handle = TRUE
       /\ P # 0 => \A x \in Field :
            r.updated[t].frame[x] = IF Was(t, P, old) THEN m_queue[t].frame[x] ELSE P + 1
  /\ \A t \in Live : LetsThrough(new, t) /\ t \notin DOMAIN r.updated =>
       Was(t, P, old) /\ m_queue[t].last <= P
  /\ \A t \in Live : t \in r.removed => P # 0 /\ (LetsThrough(new, t) => m_queue[t].added > P)
  /\ \A t \in Live :
       /\ P # 0 /\ ~LetsThrough(new, t) /\ m_queue[t].added <= P
       /\ Judged(t, P, old) => LetsThrough(old, t)
       => t \in r.removed

\* With no filter before nor after, query_filtered() is query().
LEMMA UnfilteredResponse ==
  ASSUME HistoryTypeOK, Ordered, NEW K \in Nat, NEW old, NEW new, IsEmpty(old), IsEmpty(new)
  PROVE  ResponseTo(QueryFiltered(K, old, new), K, old, new)
<1>1. PICK r, P : r = QueryFiltered(K, old, new) /\ P = Promoted(K)
  OBVIOUS
<1>2. P \in Nat
  BY <1>1 DEF Promoted, HistoryTypeOK
<1>3. \A t : LetsThrough(old, t) /\ LetsThrough(new, t) /\ Judged(t, P, old)
  BY DEF LetsThrough, Judged, Matched, IsEmpty
<1>4. /\ r.frame = CurrentFrame
      /\ r.snapshot <=> P = 0
      /\ r.updated = Copies(ScannedSince(P))
      /\ r.removed = RemovedSince(P, NoFilter)
  BY <1>1 DEF QueryFiltered, Query
<1>5. ScannedSince(P) = {t \in Live : m_queue[t].last > P}
  BY <1>2, ScanFinds
<1>6. /\ DOMAIN r.updated = {t \in Live : m_queue[t].last > P}
      /\ \A t \in DOMAIN r.updated : /\ r.updated[t].status = m_queue[t].status
                                     /\ r.updated[t].frame = m_queue[t].frame
                                     /\ r.updated[t].handle = TRUE
  BY <1>4, <1>5 DEF Copies
<1>7. \A t \in Live : t \in r.removed => P # 0 /\ m_queue[t].added > P
  BY <1>2, <1>4, TombstonesOfLive
<1>8. \A t \in Live : m_queue[t].last \in Nat /\ m_queue[t].last >= 1
  <2>1. \A t \in Live : m_queue[t].added >= 1 /\ m_queue[t].added <= m_queue[t].last
    BY DEF Ordered, FramesOrdered, EntryOrdered
  <2>. QED
    BY <2>1, FrameTypes
<1>. HIDE DEF Live
<1>9. \A t \in Live : t \notin DOMAIN r.updated => P # 0 /\ m_queue[t].last <= P
  BY <1>2, <1>6, <1>8
<1>. QED
  BY <1>1, <1>3, <1>4, <1>6, <1>7, <1>9 DEF ResponseTo, Was

\* With a filter before or after it.
LEMMA FilteredResponse ==
  ASSUME HistoryTypeOK, Ordered, NEW K \in Nat, NEW old, NEW new, ~(IsEmpty(old) /\ IsEmpty(new))
  PROVE  ResponseTo(QueryFiltered(K, old, new), K, old, new)
<1>1. PICK r, P : r = QueryFiltered(K, old, new) /\ P = Promoted(K)
  OBVIOUS
<1>2. P \in Nat
  BY <1>1 DEF Promoted, HistoryTypeOK
<1>3. PICK scanned : scanned = Scanned(P, old, new)
  OBVIOUS
<1>. DEFINE copies == Copies({t \in scanned : LetsThrough(new, t)})
            left(t) == /\ ~LetsThrough(new, t) /\ P # 0 /\ m_queue[t].added <= P
                       /\ Was(t, P, old) \/ ~Judged(t, P, old)
<1>4. /\ r.frame = CurrentFrame
      /\ r.snapshot <=> P = 0
      /\ r.updated = [t \in DOMAIN copies |->
                        IF Was(t, P, old) THEN copies[t] ELSE Refreshed(copies[t], P)]
      /\ r.removed = {t \in scanned : left(t)} \cup RemovedSince(P, old)
  BY <1>1, <1>3 DEF QueryFiltered, LetsThrough, Judged, Was
<1>5. /\ scanned \subseteq Live
      /\ \A t \in Live : t \notin scanned => old = new /\ m_queue[t].last <= P
  BY <1>2, <1>3, ScanReaches
<1>6. /\ DOMAIN copies = {t \in scanned : LetsThrough(new, t)}
      /\ \A t \in DOMAIN copies :
           copies[t] = [status |-> m_queue[t].status, frame |-> m_queue[t].frame, handle |-> TRUE]
  BY DEF Copies
<1>. HIDE DEF copies, Live
<1>7. DOMAIN r.updated = {t \in scanned : LetsThrough(new, t)}
  BY <1>4, <1>6
<1>8. ASSUME NEW t \in DOMAIN r.updated
      PROVE  /\ r.updated[t].status = m_queue[t].status
             /\ r.updated[t].handle = TRUE
             /\ \A x \in Field :
                  r.updated[t].frame[x] = IF Was(t, P, old) THEN m_queue[t].frame[x] ELSE P + 1
  <2>1. PICK e : e = [status |-> m_queue[t].status, frame |-> m_queue[t].frame, handle |-> TRUE]
    OBVIOUS
  <2>2. r.updated[t] = IF Was(t, P, old) THEN e ELSE Refreshed(e, P)
    BY <1>4, <1>6, <1>7, <2>1
  <2>3. /\ Refreshed(e, P).status = m_queue[t].status
        /\ Refreshed(e, P).handle = TRUE
        /\ \A x \in Field : Refreshed(e, P).frame[x] = P + 1
    BY <2>1 DEF Refreshed
  <2>4. CASE Was(t, P, old)
    BY <2>1, <2>2, <2>4
  <2>5. CASE ~Was(t, P, old)
    <3>1. r.updated[t] = Refreshed(e, P)
      BY <2>2, <2>5
    <3>. QED
      BY <2>3, <2>5, <3>1
  <2>. QED
    BY <2>4, <2>5
<1>9. ASSUME NEW t \in Live, t \notin scanned
      PROVE  /\ LetsThrough(new, t) <=> LetsThrough(old, t)
             /\ P # 0 /\ Judged(t, P, old) /\ m_queue[t].last <= P
  <2>1. old = new /\ m_queue[t].last <= P
    BY <1>5, <1>9
  <2>2. EntryOrdered(t)
    BY DEF Ordered, FramesOrdered, Live
  <2>3. "bits" \in Field /\ "tag" \in Field
    BY DEF Field, StatusField
  <2>4. /\ m_queue[t].added \in Nat /\ m_queue[t].last \in Nat
        /\ m_queue[t].frame["bits"] \in Nat \cup {Unset}
        /\ m_queue[t].frame["tag"] \in Nat \cup {Unset}
    BY <2>3, FrameTypes
  <2>5. m_queue[t].frame["bits"] <= P /\ m_queue[t].frame["tag"] <= P /\ P # 0
    BY <1>2, <2>1, <2>2, <2>3, <2>4 DEF EntryOrdered, Unset
  <2>. QED
    BY <2>1, <2>5 DEF Judged, StableSince
<1>10. \A t \in Live : LetsThrough(new, t) /\ t \notin DOMAIN r.updated =>
         Was(t, P, old) /\ m_queue[t].last <= P
  BY <1>7, <1>9 DEF Was
<1>11. \A t \in Live : t \in r.removed => P # 0 /\ (LetsThrough(new, t) => m_queue[t].added > P)
  <2>1. \A t \in Live : t \in RemovedSince(P, old) => P # 0 /\ m_queue[t].added > P
    BY <1>2, TombstonesOfLive
  <2>. QED
    BY <1>4, <2>1
<1>12. ASSUME NEW t \in Live, P # 0, ~LetsThrough(new, t), m_queue[t].added <= P,
              Judged(t, P, old) => LetsThrough(old, t)
       PROVE  t \in r.removed
  <2>1. t \in scanned
    BY <1>9, <1>12
  <2>. QED
    BY <1>4, <1>12, <2>1 DEF Was
<1>. QED
  BY <1>1, <1>4, <1>5, <1>7, <1>8, <1>10, <1>11, <1>12 DEF ResponseTo

\* Applied to a view of frame K, the response shows every torrent the new filter
\* lets through with its current values and, of those that stay in the session,
\* none that it does not.
LEMMA ResponseFilters ==
  ASSUME HistoryTypeOK, Ordered, NEW K \in Nat, NEW old, NEW new, NEW v, NEW r,
         IsView(v), Covers(v, K, old), KeepsOut(v, K, old), ResponseTo(r, K, old, new)
  PROVE  LET V == Applied(v, Serialized(r, K)) IN
         /\ IsView(V)
         /\ \A t \in Live : LetsThrough(new, t) =>
              /\ t \in DOMAIN V /\ DOMAIN V[t] = Field
              /\ \A x \in StatusField : V[t][x] = m_queue[t].status[x]
              /\ V[t]["tag"] = m_tags[t]
         /\ \A t \in DOMAIN V \ Removable : t \in Live /\ LetsThrough(new, t)
<1>. USE FrameTypes
<1>1. PICK V, P : V = Applied(v, Serialized(r, K)) /\ P = Promoted(K)
  OBVIOUS
<1>2. MergeOf(V, v, r, K)
  BY <1>1, ResponseApplied
<1>3. P \in Nat /\ (P # 0 => P = K)
  BY <1>1 DEF Promoted, HistoryTypeOK
<1>4. /\ r.snapshot <=> P = 0
      /\ \A t \in DOMAIN r.updated :
           /\ t \in Live /\ LetsThrough(new, t)
           /\ r.updated[t].status = m_queue[t].status
           /\ r.updated[t].handle = TRUE
           /\ P # 0 => \A x \in Field :
                r.updated[t].frame[x] = IF Was(t, P, old) THEN m_queue[t].frame[x] ELSE P + 1
      /\ \A t \in Live : LetsThrough(new, t) /\ t \notin DOMAIN r.updated =>
           Was(t, P, old) /\ m_queue[t].last <= P
      /\ \A t \in Live : t \in r.removed => P # 0 /\ (LetsThrough(new, t) => m_queue[t].added > P)
      /\ \A t \in Live :
           /\ P # 0 /\ ~LetsThrough(new, t) /\ m_queue[t].added <= P
           /\ Judged(t, P, old) => LetsThrough(old, t)
           => t \in r.removed
  BY <1>1 DEF ResponseTo
<1>5. IsView(V)
  <2>1. DOMAIN r.updated \subseteq Torrent
    BY <1>4 DEF HistoryTypeOK
  <2>2. PICK msg : msg = Serialized(r, K)
    OBVIOUS
  <2>3. /\ DOMAIN msg.updates \subseteq Torrent
        /\ \A t \in DOMAIN msg.updates : DOMAIN msg.updates[t] \subseteq Field
    BY <2>1, <2>2, SerializedType
  <2>. QED
    BY <1>1, <2>2, <2>3, AppliedType DEF IsView
<1>6. Field = StatusField \cup {"tag"} /\ "tag" \notin StatusField /\ Field # {}
  BY DEF Field, StatusField
<1>7. \A t \in Live : EntryOrdered(t)
  BY DEF Ordered, FramesOrdered
<1>8. \A t \in DOMAIN r.updated :
        /\ \A x \in StatusField : FieldValue(r, t, x) = m_queue[t].status[x]
        /\ FieldValue(r, t, "tag") = m_tags[t]
  BY <1>4, <1>6 DEF FieldValue
<1>9. \A t : t \notin DOMAIN r.updated => Sent(r, t, K) = {}
  BY DEF Sent
<1>10. \A t \in DOMAIN r.updated :
         Sent(r, t, K) = {x \in Field : r.snapshot \/ Newer(r.updated[t].frame[x], K)}
  BY DEF Sent, Included
<1>. HIDE DEF Live, Field, StatusField
<1>11. ASSUME NEW t \in Live, LetsThrough(new, t), Sent(r, t, K) = Field
       PROVE  /\ t \in DOMAIN V /\ DOMAIN V[t] = Field
              /\ \A x \in StatusField : V[t][x] = m_queue[t].status[x]
              /\ V[t]["tag"] = m_tags[t]
  <2>1. t \in DOMAIN r.updated
    BY <1>6, <1>9, <1>11
  <2>2. t \in DOMAIN V /\ \A x \in Field : V[t][x] = FieldValue(r, t, x)
    BY <1>2, <1>6, <1>11, <2>1 DEF MergeOf
  <2>3. DOMAIN V[t] \subseteq Field /\ Field \subseteq DOMAIN V[t]
    BY <1>2, <1>5, <1>11, <2>2 DEF MergeOf, IsView
  <2>. QED
    BY <1>6, <1>8, <2>1, <2>2, <2>3
<1>12. ASSUME NEW t \in Live, LetsThrough(new, t), ~(Sent(r, t, K) = Field)
       PROVE  /\ t \in DOMAIN V /\ DOMAIN V[t] = Field
              /\ \A x \in StatusField : V[t][x] = m_queue[t].status[x]
              /\ V[t]["tag"] = m_tags[t]
  <2>1. P # 0 /\ P = K /\ Was(t, P, old)
    <3>1. CASE t \notin DOMAIN r.updated
      BY <1>3, <1>4, <1>12, <3>1 DEF Was
    <3>2. CASE t \in DOMAIN r.updated
      <4>1. ~r.snapshot
        BY <1>10, <1>12, <3>2
      <4>2. ASSUME ~Was(t, P, old) PROVE FALSE
        <5>1. \A x \in Field : r.updated[t].frame[x] = P + 1
          BY <1>4, <3>2, <4>1, <4>2
        <5>2. \A x \in Field : Newer(r.updated[t].frame[x], K)
          BY <1>3, <1>4, <4>1, <5>1 DEF Newer
        <5>. QED
          BY <1>10, <1>12, <3>2, <5>2
      <4>. QED
        BY <1>3, <1>4, <4>1, <4>2
    <3>. QED
      BY <3>1, <3>2
  <2>2. Sent(r, t, K) = IF t \in DOMAIN r.updated THEN {x \in Field : Newer(m_queue[t].frame[x], K)}
                                                  ELSE {}
    BY <1>4, <1>9, <1>10, <2>1
  <2>3. \A x \in Field : /\ m_queue[t].frame[x] \in Nat \cup {Unset}
                         /\ m_queue[t].frame[x] <= m_queue[t].last
    <3>1. \A x \in Field : m_queue[t].frame[x] \in Nat \cup {Unset}
      OBVIOUS
    <3>2. m_queue[t].last \in Nat
      OBVIOUS
    <3>. QED
      BY <1>7, <3>1, <3>2 DEF EntryOrdered, Unset
  <2>4. \A x \in Field \ Sent(r, t, K) : m_queue[t].frame[x] <= K
    BY <1>4, <1>12, <2>1, <2>2, <2>3 DEF Newer, Unset
  <2>5. m_queue[t].added <= K
    <3>1. CASE t \notin DOMAIN r.updated
      BY <1>4, <1>7, <1>12, <2>1, <3>1 DEF EntryOrdered
    <3>2. CASE t \in DOMAIN r.updated
      <4>1. PICK x \in Field : x \notin Sent(r, t, K)
        BY <1>10, <1>12, <3>2
      <4>2. ~Newer(m_queue[t].frame[x], K)
        BY <2>2, <3>2, <4>1
      <4>. QED
        BY <1>7, <4>1, <4>2 DEF EntryOrdered, Newer, Unset
    <3>. QED
      BY <3>1, <3>2
  <2>6. /\ t \in DOMAIN v /\ DOMAIN v[t] = Field
        /\ \A x \in StatusField : m_queue[t].frame[x] <= K => v[t][x] = m_queue[t].status[x]
        /\ m_queue[t].frame["tag"] <= K => v[t]["tag"] = m_tags[t]
    BY <2>1, <2>5 DEF Covers, Was
  <2>7. t \in Kept(v, r)
    BY <1>3, <1>4, <1>12, <2>1, <2>5, <2>6 DEF Kept
  <2>8. t \in DOMAIN V /\ DOMAIN V[t] = Field
    <3>1. Sent(r, t, K) \subseteq Field
      BY <2>2
    <3>2. t \in DOMAIN V
      BY <1>2, <2>7 DEF MergeOf
    <3>3. DOMAIN V[t] = DOMAIN v[t] \cup Sent(r, t, K)
      BY <1>2, <2>7, <3>2 DEF MergeOf
    <3>. QED
      BY <2>6, <3>1, <3>2, <3>3
  <2>9. \A x \in Sent(r, t, K) : V[t][x] = FieldValue(r, t, x)
    BY <1>2, <1>9 DEF MergeOf
  <2>10. \A x \in Field \ Sent(r, t, K) : V[t][x] = v[t][x]
    BY <1>2, <2>6, <2>7 DEF MergeOf
  <2>11. ASSUME NEW x \in StatusField PROVE V[t][x] = m_queue[t].status[x]
    <3>1. CASE x \in Sent(r, t, K)
      BY <1>8, <1>9, <2>9, <3>1
    <3>2. CASE x \notin Sent(r, t, K)
      BY <1>6, <2>4, <2>6, <2>10, <3>2
    <3>. QED
      BY <3>1, <3>2
  <2>12. V[t]["tag"] = m_tags[t]
    <3>1. CASE "tag" \in Sent(r, t, K)
      BY <1>8, <1>9, <2>9, <3>1
    <3>2. CASE "tag" \notin Sent(r, t, K)
      BY <1>6, <2>4, <2>6, <2>10, <3>2
    <3>. QED
      BY <3>1, <3>2
  <2>. QED
    BY <2>8, <2>11, <2>12
<1>13. ASSUME NEW t \in DOMAIN V \ Removable PROVE t \in Live /\ LetsThrough(new, t)
  <2>1. CASE t \in DOMAIN r.updated
    BY <1>4, <2>1
  <2>2. CASE t \notin DOMAIN r.updated
    <3>1. t \in Kept(v, r)
      BY <1>2, <1>13, <2>2 DEF MergeOf
    <3>2. P # 0 /\ P = K /\ t \in DOMAIN v /\ t \notin r.removed
      BY <1>3, <1>4, <3>1 DEF Kept
    <3>3. /\ t \in Live /\ m_queue[t].added <= K
          /\ Judged(t, K, old) => LetsThrough(old, t)
      BY <1>13, <3>2 DEF KeepsOut
    <3>. QED
      BY <1>4, <3>2, <3>3
  <2>. QED
    BY <2>1, <2>2
<1>. QED
  BY <1>1, <1>5, <1>11, <1>12, <1>13

-----------------------------------------------------------------------------
(* The steps.                                                              *)

\* An event leaves alone what the client has and what is on its way to it.
LEMMA EventKeeps ==
  ASSUME FilterInv, SessionStep
  PROVE  /\ UNCHANGED clientVars
         /\ HistoryTypeOK' /\ Ordered'
         /\ m_frame' >= m_frame
<1>. USE DEF FilterInv
<1>0. m_frame \in Nat
  BY DEF HistoryTypeOK
<1>1. ASSUME NEW t \in Torrent, NEW s \in Status, AddTorrent(t, s)
      PROVE  UNCHANGED clientVars /\ HistoryTypeOK' /\ Ordered' /\ m_frame' = m_frame
  BY <1>1, AddType, AddOrdered DEF AddTorrent, HandleAdd
<1>2. ASSUME NEW t \in Removable, RemoveTorrent(t)
      PROVE  UNCHANGED clientVars /\ HistoryTypeOK' /\ Ordered' /\ m_frame' = m_frame
  <2>1. t \in Torrent
    BY FilterAssumption
  <2>. QED
    BY <1>2, <2>1, RemovedType, RemovedOrdered DEF RemoveTorrent, HandleRemoved
<1>3. ASSUME NEW U \in SUBSET Torrent, NEW s \in [U -> Status],
             NEW ord \in TotalOrders(U \cap Live), UpdateTorrents(U, s, ord)
      PROVE  UNCHANGED clientVars /\ HistoryTypeOK' /\ Ordered' /\ m_frame' = m_frame + 1
  BY <1>3, StateUpdateType, StateUpdateOrdered DEF UpdateTorrents, HandleStateUpdate, NextFrame
<1>4. ASSUME NEW t \in Torrent, NEW value \in Tag, NEW mask \in Tag,
             SetTorrentTag(t, value, mask)
      PROVE  UNCHANGED clientVars /\ HistoryTypeOK' /\ Ordered' /\ m_frame' = m_frame
  BY <1>4, SetTagType, SetTagOrdered DEF SetTorrentTag, SetTag
<1>5. /\ UNCHANGED clientVars /\ HistoryTypeOK' /\ Ordered'
      /\ m_frame' = m_frame \/ m_frame' = m_frame + 1
  BY <1>1, <1>2, <1>3, <1>4 DEF SessionStep
<1>. QED
  BY <1>0, <1>5

\* So does a step of the client, of which the history knows nothing.
LEMMA ClientLeavesHistory ==
  ASSUME HistoryTypeOK, Ordered, UNCHANGED historyVars
  PROVE  /\ HistoryTypeOK' /\ Ordered' /\ CurrentFrame' = CurrentFrame
         /\ \A v, K, f : Covers(v, K, f) => Covers(v, K, f)'
         /\ \A v, K, f : KeepsOut(v, K, f) => KeepsOut(v, K, f)'
<1>1. HistoryTypeOK' /\ Ordered' /\ CurrentFrame' = CurrentFrame
  BY DEF historyVars, HistoryTypeOK, Ordered, FramesOrdered, NewestFirst, EntryOrdered,
         TombstoneOrdered, Live, CurrentFrame, NextFrame
<1>2. m_queue' = m_queue /\ m_tags' = m_tags /\ Live' = Live
  BY DEF historyVars, Live
<1>3. \A t, K, f : Judged(t, K, f)' <=> Judged(t, K, f)
  BY <1>2 DEF Judged, StableSince
<1>4. \A t, f : LetsThrough(f, t)' <=> LetsThrough(f, t)
  BY <1>2 DEF LetsThrough
<1>. HIDE DEF Live, Field, StatusField
<1>5. \A v, K, f : Covers(v, K, f) => Covers(v, K, f)'
  BY <1>2, <1>3, <1>4 DEF Covers
<1>6. \A v, K, f : KeepsOut(v, K, f) => KeepsOut(v, K, f)'
  BY <1>2, <1>3, <1>4 DEF KeepsOut
<1>. QED
  BY <1>1, <1>5, <1>6

\* A request made while nothing is on its way says of the view what it is.
LEMMA GetUpdatesKeeps ==
  ASSUME MaxInFlight = 1, FilterInv, NEW f \in Filter, GetUpdates(f)
  PROVE  FilterInv'
<1>1. requests = <<>> /\ messages = <<>>
  BY DEF FilterInv, OnePoll, GetUpdates
<1>2. /\ requests' = <<[frame |-> _frame, old |-> _filter, new |-> f]>>
      /\ messages' = <<>> /\ view' = view /\ _frame' = _frame /\ _filter' = _filter
  BY <1>1 DEF GetUpdates
<1>3. OnePoll' /\ UNCHANGED <<Held, HeldFrame, HeldFilter>>
  BY <1>1, <1>2 DEF OnePoll, Held, HeldFrame, HeldFilter, OnItsWay
<1>4. UNCHANGED historyVars /\ m_frame' = m_frame
  BY DEF GetUpdates, historyVars
<1>. QED
  BY <1>3, <1>4, ClientLeavesHistory DEF FilterInv

\* A response makes of the view what it will be once it is applied.
LEMMA ServeFilters ==
  ASSUME FilterInv, Serve
  PROVE  FilterInv'
<1>. USE FrameTypes
<1>1. PICK new \in Filter : /\ requests = <<[frame |-> _frame, old |-> _filter, new |-> new]>>
                            /\ messages = <<>>
  BY DEF FilterInv, OnePoll, Serve
<1>2. PICK K, old, v : K = _frame /\ old = _filter /\ v = view
  OBVIOUS
<1>3. PICK r : r = QueryFiltered(K, old, new)
  OBVIOUS
<1>4. PICK body : body = Serialized(r, K)
  OBVIOUS
<1>5. /\ requests' = <<>>
      /\ messages' = <<[body |-> body, filter |-> new]>>
      /\ view' = view
      /\ CurrentFrameLocked
  <2>1. Head(requests) = [frame |-> K, old |-> old, new |-> new] /\ Tail(requests) = <<>>
    BY <1>1, <1>2
  <2>2. messages' = Append(messages, [body |-> Serialized(QueryFiltered(K, old, new), K),
                                      filter |-> new])
    BY <2>1 DEF Serve
  <2>. QED
    BY <1>1, <1>3, <1>4, <2>1, <2>2 DEF Serve
<1>6. /\ HistoryTypeOK /\ Ordered /\ K \in Nat
      /\ IsView(v) /\ Covers(v, K, old) /\ KeepsOut(v, K, old)
  BY <1>1, <1>2 DEF FilterInv, Held, HeldFrame, HeldFilter, OnItsWay
<1>7. ResponseTo(r, K, old, new)
  BY <1>3, <1>6, UnfilteredResponse, FilteredResponse
<1>8. PICK V : V = Applied(v, body)
  OBVIOUS
<1>9. /\ IsView(V)
      /\ \A t \in Live : LetsThrough(new, t) =>
           /\ t \in DOMAIN V /\ DOMAIN V[t] = Field
           /\ \A x \in StatusField : V[t][x] = m_queue[t].status[x]
           /\ V[t]["tag"] = m_tags[t]
      /\ \A t \in DOMAIN V \ Removable : t \in Live /\ LetsThrough(new, t)
  BY <1>4, <1>6, <1>7, <1>8, ResponseFilters
<1>10. body.frame = CurrentFrame
  BY <1>4, <1>7 DEF ResponseTo, Serialized
<1>11. OnePoll' /\ Held' = V /\ HeldFrame' = CurrentFrame /\ HeldFilter' = new
  <2>1. messages' # <<>> /\ messages'[1] = [body |-> body, filter |-> new]
    BY <1>5
  <2>. QED
    BY <1>2, <1>5, <1>8, <1>10, <2>1 DEF OnePoll, Held, HeldFrame, HeldFilter, OnItsWay
<1>12. /\ m_frame' = CurrentFrame /\ HistoryTypeOK' /\ Ordered' /\ CurrentFrame \in Nat
       /\ m_queue' = m_queue /\ m_tags' = m_tags /\ Live' = Live
  BY <1>5, <1>6, PollHistoryType, PollOrdered DEF CurrentFrameLocked
<1>13. \A t \in Live : m_queue[t].added <= CurrentFrame
  BY <1>6 DEF Ordered, FramesOrdered, EntryOrdered
<1>14. \A t : LetsThrough(new, t)' <=> LetsThrough(new, t)
  BY <1>12 DEF LetsThrough
<1>. HIDE DEF Live, Field, StatusField
<1>15. ASSUME NEW F PROVE Covers(V, F, new)'
  BY <1>9, <1>12, <1>14 DEF Covers
<1>16. ASSUME NEW F, F = CurrentFrame PROVE KeepsOut(V, F, new)'
  BY <1>9, <1>12, <1>13, <1>14, <1>16 DEF KeepsOut
<1>17. PICK F : F = CurrentFrame
  OBVIOUS
<1>18. Covers(V, F, new)' /\ KeepsOut(V, F, new)'
  BY <1>15, <1>16, <1>17
<1>. QED
  BY <1>9, <1>11, <1>12, <1>17, <1>18 DEF FilterInv

\* Applying it turns what the view was going to be into what it is.
LEMMA HandleResponseFilters ==
  ASSUME FilterInv, HandleResponse
  PROVE  FilterInv'
<1>1. PICK b, f : requests = <<>> /\ messages = <<[body |-> b, filter |-> f]>>
  BY DEF FilterInv, OnePoll, HandleResponse
<1>2. /\ Head(messages) = [body |-> b, filter |-> f] /\ Tail(messages) = <<>>
      /\ messages[1] = [body |-> b, filter |-> f] /\ messages # <<>>
  BY <1>1
<1>3. /\ view' = Applied(view, b) /\ _frame' = b.frame /\ _filter' = f
      /\ messages' = <<>> /\ requests' = <<>>
  BY <1>1, <1>2 DEF HandleResponse
<1>4. OnePoll' /\ UNCHANGED <<Held, HeldFrame, HeldFilter>>
  BY <1>2, <1>3 DEF OnePoll, Held, HeldFrame, HeldFilter, OnItsWay
<1>5. UNCHANGED historyVars /\ m_frame' = m_frame
  BY DEF HandleResponse, historyVars
<1>. QED
  BY <1>4, <1>5, ClientLeavesHistory DEF FilterInv

\* An event that is not of the client leaves the view as good as it was.
LEMMA EventFilters ==
  ASSUME FilterInv, SessionStep
  PROVE  FilterInv'
<1>1. /\ view' = view /\ _frame' = _frame /\ _filter' = _filter
      /\ requests' = requests /\ messages' = messages
      /\ HistoryTypeOK' /\ Ordered' /\ m_frame' >= m_frame
  BY EventKeeps DEF clientVars
<1>2. OnePoll' /\ UNCHANGED <<Held, HeldFrame, HeldFilter>>
  BY <1>1 DEF FilterInv, OnePoll, Held, HeldFrame, HeldFilter, OnItsWay
<1>3. PICK v, K, f : v = Held /\ K = HeldFrame /\ f = HeldFilter
  OBVIOUS
<1>4. K \in Nat /\ K <= m_frame /\ HistoryTypeOK /\ Covers(v, K, f) /\ KeepsOut(v, K, f)
  BY <1>3 DEF FilterInv
<1>5. Covers(v, K, f)' /\ KeepsOut(v, K, f)'
  BY <1>4, EventsStamp, StaysFiltered
<1>6. K <= m_frame'
  BY <1>1, <1>4 DEF HistoryTypeOK
<1>. QED
  BY <1>1, <1>2, <1>3, <1>5, <1>6 DEF FilterInv

-----------------------------------------------------------------------------
(* The theorems.                                                           *)

\* Of a client that polls one at a time, the view once what is on its way is
\* applied is right but for what changed since its frame: the filter let through
\* what it has, and it has what the filter let through.
THEOREM FilterInvariant ==
  ASSUME MaxInFlight = 1
  PROVE  Spec => []FilterInv
<1>1. Init => FilterInv
  <2> SUFFICES ASSUME Init PROVE FilterInv
    OBVIOUS
  <2>1. HistoryTypeOK /\ Ordered /\ Live = {}
    BY HistoryStarts DEF Init
  <2>2. /\ OnePoll /\ Held = NoTorrents /\ HeldFrame = 0 /\ m_frame = 1
    BY DEF Init, HistoryInit, OnePoll, OnItsWay, Held, HeldFrame
  <2>3. DOMAIN NoTorrents = {} /\ IsView(NoTorrents)
    BY DEF NoTorrents, IsView, IsFcn
  <2>. QED
    BY <2>1, <2>2, <2>3 DEF FilterInv, Covers, KeepsOut
<1>2. FilterInv /\ [Next]_vars => FilterInv'
  <2> SUFFICES ASSUME FilterInv, [Next]_vars PROVE FilterInv'
    OBVIOUS
  <2>1. CASE SessionStep
    BY <2>1, EventFilters
  <2>2. ASSUME NEW f \in Filter, GetUpdates(f) PROVE FilterInv'
    BY <2>2, GetUpdatesKeeps
  <2>3. CASE Serve
    BY <2>3, ServeFilters
  <2>4. CASE HandleResponse
    BY <2>4, HandleResponseFilters
  <2>5. CASE UNCHANGED vars
    <3>1. OnePoll' /\ UNCHANGED <<Held, HeldFrame, HeldFilter>>
      BY <2>5 DEF vars, clientVars, FilterInv, OnePoll, Held, HeldFrame, HeldFilter, OnItsWay
    <3>2. UNCHANGED historyVars /\ m_frame' = m_frame
      BY <2>5 DEF vars, historyVars
    <3>. QED
      BY <3>1, <3>2, ClientLeavesHistory DEF FilterInv
  <2>. QED
    BY <2>1, <2>2, <2>3, <2>4, <2>5 DEF Next, SessionStep
<1>. QED
  BY <1>1, <1>2, PTL DEF Spec

\* What a settled view is of: the current frame, with nothing on its way.
LEMMA SettledView ==
  ASSUME FilterInv, Settled
  PROVE  /\ Held = view /\ HeldFilter = _filter /\ HeldFrame = CurrentFrame
         /\ \A t \in Live : /\ m_queue[t].added <= HeldFrame
                            /\ \A x \in Field : m_queue[t].frame[x] <= HeldFrame
                            /\ Judged(t, HeldFrame, HeldFilter)
<1>. USE FrameTypes DEF FilterInv
<1>1. Held = view /\ HeldFilter = _filter /\ HeldFrame = CurrentFrame
  BY DEF Settled, Held, HeldFrame, HeldFilter, OnItsWay, CurrentFrame
<1>2. ASSUME NEW t \in Live
      PROVE  /\ m_queue[t].added <= CurrentFrame
             /\ \A x \in Field : m_queue[t].frame[x] <= CurrentFrame
  <2>1. EntryOrdered(t)
    BY DEF Ordered, FramesOrdered
  <2>2. m_queue[t].added <= CurrentFrame
    BY <2>1 DEF EntryOrdered
  <2>3. ASSUME NEW x \in Field PROVE m_queue[t].frame[x] <= CurrentFrame
    BY <2>1 DEF EntryOrdered, Unset
  <2>. QED
    BY <2>2, <2>3
<1>3. "bits" \in Field /\ "tag" \in Field
  BY DEF Field, StatusField
<1>4. \A t \in Live : Judged(t, CurrentFrame, HeldFilter)
  BY <1>2, <1>3 DEF Judged, StableSince
<1>. QED
  BY <1>1, <1>2, <1>4

\* A settled view has every torrent its filter lets through, with every field
\* and its current value, whatever filters it went through.
THEOREM NothingIsMissing ==
  ASSUME MaxInFlight = 1
  PROVE  Spec => []NothingMissing
<1>1. FilterInv => NothingMissing
  <2> SUFFICES ASSUME FilterInv, Settled, NEW t \in Visible
               PROVE  t \in DOMAIN view /\ view[t] = LiveList[t]
    BY DEF NothingMissing
  <2>1. PICK v, K, f : v = view /\ K = HeldFrame /\ f = _filter
    OBVIOUS
  <2>2. Held = v /\ HeldFilter = f
    BY <2>1, SettledView
  <2>3. /\ t \in Live /\ m_queue[t].added <= K /\ Judged(t, K, f) /\ LetsThrough(f, t)
        /\ \A x \in Field : m_queue[t].frame[x] <= K
    BY <2>1, <2>2, SettledView DEF Visible, LetsThrough
  <2>4. Covers(v, K, f) /\ IsView(v)
    BY <2>1, <2>2 DEF FilterInv
  <2>5. Field = StatusField \cup {"tag"} /\ "tag" \notin StatusField
    BY DEF Field, StatusField
  <2>6. /\ t \in DOMAIN v /\ DOMAIN v[t] = Field
        /\ \A x \in StatusField : v[t][x] = m_queue[t].status[x]
        /\ v[t]["tag"] = m_tags[t]
    BY <2>3, <2>4, <2>5 DEF Covers
  <2>7. LiveList[t] = [x \in Field |-> IF x = "tag" THEN m_tags[t] ELSE m_queue[t].status[x]]
    BY <2>3 DEF LiveList
  <2>8. PICK w : w = v[t]
    OBVIOUS
  <2>9. w = [x \in Field |-> w[x]]
    BY <2>4, <2>6, <2>8 DEF IsView, IsFcn
  <2>10. \A x \in Field : w[x] = IF x = "tag" THEN m_tags[t] ELSE m_queue[t].status[x]
    BY <2>5, <2>6, <2>8
  <2>. HIDE DEF Field, StatusField
  <2>11. w = LiveList[t]
    BY <2>7, <2>9, <2>10
  <2>. QED
    BY <2>1, <2>6, <2>8, <2>11
<1>. QED
  BY <1>1, FilterInvariant, PTL

\* Of the torrents that stay in the session, a settled view has those the filter
\* lets through and no other: what left it was named as removed, also when the
\* server could not tell any more whether the old filter let it through.
THEOREM ExitsAreReported ==
  ASSUME MaxInFlight = 1
  PROVE  Spec => []ExitsReported
<1>1. FilterInv => ExitsReported
  <2> SUFFICES ASSUME FilterInv, Settled, NEW t \in DOMAIN view \ Removable
               PROVE  t \in Visible
    BY DEF ExitsReported
  <2>1. PICK v, K, f : v = view /\ K = HeldFrame /\ f = _filter
    OBVIOUS
  <2>2. Held = v /\ HeldFilter = f
    BY <2>1, SettledView
  <2>3. KeepsOut(v, K, f)
    BY <2>1, <2>2 DEF FilterInv
  <2>4. t \in Live /\ (Judged(t, K, f) => LetsThrough(f, t))
    BY <2>1, <2>3 DEF KeepsOut
  <2>5. Judged(t, K, f)
    BY <2>1, <2>2, <2>4, SettledView
  <2>. QED
    BY <2>1, <2>4, <2>5 DEF Visible, LetsThrough
<1>. QED
  BY <1>1, FilterInvariant, PTL
=============================================================================
