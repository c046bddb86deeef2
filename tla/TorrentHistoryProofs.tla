----------------------- MODULE TorrentHistoryProofs ------------------------
(***************************************************************************)
(* Lemmas about torrent_history, for any set of torrents, statuses and     *)
(* tags, any tombstone limit and any bound on the frames: what each event  *)
(* does to the types and to the order of the frames, what a scan that      *)
(* breaks early finds, and what a client makes of a response.  The proofs  *)
(* of TorrentSync and of TorrentFilter rest on them.                       *)
(***************************************************************************)
EXTENDS TorrentHistory, SequenceTheorems, TLAPS

-----------------------------------------------------------------------------
(* The deque of tombstones.                                                *)

\* Recording a removal puts its tombstone in front and drops at most the
\* oldest one, which then is behind the horizon.
LEMMA RemovalRecorded ==
  ASSUME m_removed \in Seq(Tombstone), Len(m_removed) <= MaxTombstones, m_horizon \in Nat,
         NEW tomb \in Tombstone, RecordRemoval(tomb)
  PROVE  /\ m_removed' \in Seq(Tombstone)
         /\ Len(m_removed') <= MaxTombstones
         /\ \A i \in DOMAIN m_removed' :
              m_removed'[i] = IF i = 1 THEN tomb ELSE m_removed[i - 1]
         /\ \A i \in DOMAIN m_removed' : i # 1 => i - 1 \in DOMAIN m_removed
         /\ \A i \in DOMAIN m_removed :
              i + 1 \in DOMAIN m_removed' \/ m_horizon' >= m_removed[i].removed + 1
         /\ 1 \in DOMAIN m_removed' \/ m_horizon' >= tomb.removed + 1
         /\ m_horizon' \in Nat
         /\ m_horizon' >= m_horizon
         /\ \/ m_horizon' = m_horizon
            \/ m_horizon' = tomb.removed + 1
            \/ \E i \in DOMAIN m_removed : m_horizon' = m_removed[i].removed + 1
<1> DEFINE all == <<tomb>> \o m_removed
<1>1. /\ all \in Seq(Tombstone)
      /\ Len(all) = Len(m_removed) + 1
      /\ \A i \in 1 .. Len(all) : all[i] = IF i = 1 THEN tomb ELSE m_removed[i - 1]
  OBVIOUS
<1>1a. Len(all) = Len(m_removed) + 1 /\ Len(m_removed) \in Nat
  OBVIOUS
<1>2. Len(m_removed) \in Nat /\ DOMAIN m_removed = 1 .. Len(m_removed)
  OBVIOUS
<1>3. \A i \in DOMAIN m_removed : m_removed[i].removed \in Nat
  <2>1. \A i \in DOMAIN m_removed : m_removed[i] \in Tombstone
    BY <1>2
  <2>. QED
    BY <2>1 DEF Tombstone
<1>4. tomb.removed \in Nat
  BY DEF Tombstone
<1>5. CASE Len(all) <= MaxTombstones
  <2>1. m_removed' = all /\ m_horizon' = m_horizon
    BY <1>5 DEF RecordRemoval
  <2>. QED
    BY <1>1, <1>2, <1>5, <2>1
<1>6. CASE ~(Len(all) <= MaxTombstones)
  <2>0. MaxTombstones \in Nat
    BY HistoryAssumption
  <2>1. /\ m_removed' = SubSeq(all, 1, MaxTombstones)
        /\ m_horizon' = IF all[Len(all)].removed + 1 > m_horizon
                        THEN all[Len(all)].removed + 1 ELSE m_horizon
    BY <1>6 DEF RecordRemoval
  <2>2. Len(all) = MaxTombstones + 1
    BY <1>1a, <1>6, <2>0
  <2>3. /\ m_removed' \in Seq(Tombstone)
        /\ Len(m_removed') = MaxTombstones
        /\ \A i \in 1 .. MaxTombstones : m_removed'[i] = all[i]
    BY <1>1, <2>0, <2>1, <2>2, SubSeqProperties
  <2>4. DOMAIN m_removed' = 1 .. MaxTombstones
    BY <2>3
  <2>5. all[Len(all)] = IF Len(all) = 1 THEN tomb ELSE m_removed[Len(m_removed)]
    BY <1>1, <1>2
  <2>6. all[Len(all)].removed \in Nat
    BY <1>2, <1>3, <1>4, <2>5, <1>1
  <2>. DEFINE n == Len(m_removed)
  <2>. HIDE DEF all
  <2>7. n = MaxTombstones /\ Len(all) = n + 1 /\ n \in Nat
    BY <1>1a, <2>0, <2>2
  <2>8. \A i \in 1 .. n : m_removed'[i] = IF i = 1 THEN tomb ELSE m_removed[i - 1]
    BY <1>1, <2>3, <2>7
  <2>9. m_horizon' \in Nat /\ m_horizon' >= m_horizon /\ m_horizon' >= all[n + 1].removed + 1
    BY <2>1, <2>6, <2>7
  <2>10. m_horizon' = m_horizon \/ m_horizon' = all[n + 1].removed + 1
    BY <2>1, <2>7
  <2>11. all[n + 1] = IF n = 0 THEN tomb ELSE m_removed[n]
    BY <2>5, <2>7
  <2>12. DOMAIN m_removed = 1 .. n /\ DOMAIN m_removed' = 1 .. n /\ Len(m_removed') = n
    BY <1>2, <2>3, <2>4, <2>7
  <2>. HIDE DEF n
  <2>13. \A i \in DOMAIN m_removed' :
           /\ m_removed'[i] = IF i = 1 THEN tomb ELSE m_removed[i - 1]
           /\ i # 1 => i - 1 \in DOMAIN m_removed
    BY <2>7, <2>8, <2>12
  <2>14. CASE n = 0
    BY <1>4, <2>0, <2>3, <2>7, <2>9, <2>10, <2>11, <2>12, <2>13, <2>14
  <2>15. CASE n # 0
    <3>1. n \in DOMAIN m_removed /\ 1 \in DOMAIN m_removed' /\ all[n + 1] = m_removed[n]
      BY <2>7, <2>11, <2>12, <2>15
    <3>2. ASSUME NEW i \in DOMAIN m_removed
          PROVE  i + 1 \in DOMAIN m_removed' \/ m_horizon' >= m_removed[i].removed + 1
      <4>1. i = n \/ i + 1 \in 1 .. n
        BY <2>7, <2>12
      <4>. QED
        BY <2>9, <2>12, <3>1, <4>1
    <3>3. m_horizon' = m_horizon \/ \E i \in DOMAIN m_removed : m_horizon' = m_removed[i].removed + 1
      BY <2>10, <3>1
    <3>4. Len(m_removed') <= MaxTombstones
      BY <2>0, <2>3
    <3>. QED
      BY <2>3, <2>9, <2>13, <3>1, <3>2, <3>3, <3>4
  <2>. QED
    BY <2>14, <2>15
<1>. QED
  BY <1>5, <1>6

-----------------------------------------------------------------------------
(* Type correctness.                                                       *)

\* A new entry is an entry: all its status fields are of the next frame, its tag field is unset.
LEMMA NewEntryType ==
  ASSUME m_frame \in Nat, NEW s \in Status
  PROVE  NewEntry(s) \in Entry
BY DEF NewEntry, Entry, NextFrame, Unset

\* An entry updated with a status is an entry.
LEMMA UpdateStatusType ==
  ASSUME m_frame \in Nat, NEW e \in Entry, NEW s \in Status
  PROVE  UpdateStatus(e, s) \in Entry
<1>1. /\ e.frame \in [Field -> Nat \cup {Unset}]
      /\ e.added \in Nat
      /\ NextFrame \in Nat
  BY DEF Entry, NextFrame
<1>. QED
  BY <1>1 DEF UpdateStatus, Entry

\* An entry whose tag changed is an entry.
LEMMA RetaggedType ==
  ASSUME m_frame \in Nat, NEW e \in Entry
  PROVE  Retagged(e) \in Entry
<1>1. /\ e.frame \in [Field -> Nat \cup {Unset}]
      /\ e.added \in Nat /\ e.status \in Status
      /\ NextFrame \in Nat
  BY DEF Entry, NextFrame
<1>. QED
  BY <1>1 DEF Retagged, Entry

\* The tombstone made of a torrent, in the queue or not, is a tombstone.
LEMMA TombstoneOfType ==
  ASSUME HistoryTypeOK, NEW t \in Torrent
  PROVE  TombstoneOf(t) \in Tombstone
<1>1. t \in Live => m_queue[t].added \in Nat /\ m_queue[t].status.bits \in Bits
  BY DEF HistoryTypeOK, Entry, Status
<1>2. m_tags[t] \in Tag /\ NextFrame \in Nat /\ {} \in Bits
  BY HistoryAssumption DEF HistoryTypeOK, NextFrame
<1>. HIDE DEF Live
<1>. QED
  BY <1>1, <1>2 DEF TombstoneOf, Tombstone

\* Each event keeps the history well typed.
LEMMA AddType ==
  ASSUME HistoryTypeOK, NEW t \in Torrent, NEW s \in Status, HandleAdd(t, s)
  PROVE  HistoryTypeOK'
<1>1. m_frame \in Nat /\ m_queue \in [Live -> Entry] /\ Live \subseteq Torrent
  BY DEF HistoryTypeOK
<1>2. NewEntry(s) \in Entry
  BY <1>1, NewEntryType
<1>3. CASE t \notin Live
  <2>1. m_queue' = [u \in Live \cup {t} |-> IF u = t THEN NewEntry(s) ELSE m_queue[u]]
    BY <1>3 DEF HandleAdd
  <2>2. Live' = Live \cup {t}
    BY <2>1 DEF Live
  <2>3. m_queue' \in [Live' -> Entry]
    BY <1>1, <1>2, <2>1, <2>2
  <2>4. m_order' \subseteq Live' \X Live'
    BY <1>3, <2>2 DEF HandleAdd, MoveToFront, HistoryTypeOK
  <2>. QED
    BY <2>2, <2>3, <2>4 DEF HandleAdd, HistoryTypeOK
<1>4. CASE t \in Live
  BY <1>4 DEF HandleAdd, HistoryTypeOK, Live
<1>. QED
  BY <1>3, <1>4

\* handle_alert(torrent_removed) keeps the types, and the list of tombstones within its limit.
LEMMA RemovedType ==
  ASSUME HistoryTypeOK, NEW t \in Torrent, HandleRemoved(t)
  PROVE  HistoryTypeOK'
<1>1. TombstoneOf(t) \in Tombstone
  BY TombstoneOfType
<1>2. /\ m_removed' \in Seq(Tombstone)
      /\ Len(m_removed') <= MaxTombstones
      /\ m_horizon' \in Nat
  BY <1>1, RemovalRecorded DEF HandleRemoved, HistoryTypeOK
<1>3. Live' = Live \ {t} /\ m_queue' \in [Live' -> Entry]
  BY DEF HandleRemoved, HistoryTypeOK, Live
<1>4. m_order' \subseteq Live' \X Live'
  BY <1>3 DEF HandleRemoved, HistoryTypeOK
<1>5. m_tags' \in [Torrent -> Tag]
  BY DEF HandleRemoved, HistoryTypeOK, Tag
<1>. QED
  BY <1>2, <1>3, <1>4, <1>5 DEF HandleRemoved, HistoryTypeOK

\* handle_alert(state_update) keeps the types: it touches only entries of the queue.
LEMMA StateUpdateType ==
  ASSUME HistoryTypeOK, NEW U \in SUBSET Torrent, NEW s \in [U -> Status],
         NEW ord \in TotalOrders(U \cap Live), HandleStateUpdate(U, s, ord)
  PROVE  HistoryTypeOK'
<1>1. \A t \in Live \cap U : UpdateStatus(m_queue[t], s[t]) \in Entry
  BY UpdateStatusType DEF HistoryTypeOK
<1>2. Live' = Live
  BY DEF HandleStateUpdate, Live
<1>3. m_queue' \in [Live' -> Entry]
  BY <1>1, <1>2 DEF HandleStateUpdate, HistoryTypeOK
<1>4. m_order' \subseteq Live' \X Live'
  BY <1>2 DEF HandleStateUpdate, HistoryTypeOK, MoveToFront, TotalOrders
<1>5. m_frame' \in Nat
  BY DEF HandleStateUpdate, HistoryTypeOK, NextFrame
<1>. QED
  BY <1>2, <1>3, <1>4, <1>5 DEF HandleStateUpdate, HistoryTypeOK

\* set_tag keeps the types.
LEMMA SetTagType ==
  ASSUME HistoryTypeOK, NEW t \in Torrent, NEW value \in Tag, NEW mask \in Tag,
         SetTag(t, value, mask)
  PROVE  HistoryTypeOK'
<1>1. t \in Live /\ m_queue[t] \in Entry
  BY DEF SetTag, HistoryTypeOK
<1>2. m_tags' \in [Torrent -> Tag]
  BY DEF SetTag, HistoryTypeOK, Tag
<1>3. Live' = Live
  BY DEF SetTag, Live, HistoryTypeOK
<1>4. m_queue' \in [Live' -> Entry]
  BY <1>1, <1>3, RetaggedType DEF SetTag, HistoryTypeOK
<1>5. m_order' \subseteq Live' \X Live'
  BY <1>1, <1>3 DEF SetTag, HistoryTypeOK, MoveToFront
<1>. QED
  BY <1>2, <1>3, <1>4, <1>5 DEF SetTag, HistoryTypeOK

\* Reading the current frame keeps the types and changes no entry.
LEMMA PollHistoryType ==
  ASSUME HistoryTypeOK, CurrentFrameLocked
  PROVE  HistoryTypeOK' /\ Live' = Live
<1>1. Live' = Live
  BY DEF CurrentFrameLocked, Live
<1>2. m_frame' \in Nat
  BY DEF CurrentFrameLocked, CurrentFrame, NextFrame, HistoryTypeOK
<1>. QED
  BY <1>1, <1>2 DEF CurrentFrameLocked, HistoryTypeOK

\* A query answers with torrents of the queue, each with its copy.
LEMMA QueryType ==
  ASSUME HistoryTypeOK, NEW K \in Nat
  PROVE  /\ Query(K).frame \in Nat
         /\ Query(K).snapshot \in BOOLEAN
         /\ DOMAIN Query(K).updated \subseteq Live
         /\ DOMAIN Query(K).updated \subseteq Torrent
         /\ Query(K).updated \in [DOMAIN Query(K).updated -> Copy]
         /\ Query(K).removed \subseteq Torrent
<1>1. CurrentFrame \in Nat
  BY DEF CurrentFrame, NextFrame, HistoryTypeOK
<1>2. \A t \in Live : m_queue[t].status \in Status /\ m_queue[t].frame \in [Field -> Nat \cup {Unset}]
  BY DEF HistoryTypeOK, Entry
<1>3. \A L : ScannedSince(L) \subseteq Live
  BY DEF ScannedSince
<1>4. \A i \in DOMAIN m_removed : m_removed[i].ih \in Torrent
  <2>1. \A i \in DOMAIN m_removed : m_removed[i] \in Tombstone
    BY DEF HistoryTypeOK
  <2>. QED
    BY <2>1 DEF Tombstone
<1>5. \A L : RemovedSince(L, NoFilter) \subseteq Torrent
  BY <1>4 DEF RemovedSince
<1>6. Live \subseteq Torrent
  BY DEF HistoryTypeOK
<1>. HIDE DEF Live
<1>. QED
  BY <1>1, <1>2, <1>3, <1>5, <1>6 DEF Query, Copies, Copy

\* What a client makes of a response is a function from torrents to fields.
LEMMA AppliedType ==
  ASSUME NEW v, NEW msg, DOMAIN v \subseteq Torrent, DOMAIN msg.updates \subseteq Torrent,
         \A t \in DOMAIN v : DOMAIN v[t] \subseteq Field,
         \A t \in DOMAIN msg.updates : DOMAIN msg.updates[t] \subseteq Field
  PROVE  /\ IsFcn(Applied(v, msg))
         /\ DOMAIN Applied(v, msg) \subseteq Torrent
         /\ \A t \in DOMAIN Applied(v, msg) :
              IsFcn(Applied(v, msg)[t]) /\ DOMAIN Applied(v, msg)[t] \subseteq Field
<1>. DEFINE kept == IF msg.snapshot THEN {} ELSE DOMAIN v \ msg.removed
            old(t) == IF t \in kept THEN v[t] ELSE NoFields
            new(t) == IF t \in DOMAIN msg.updates THEN msg.updates[t] ELSE NoFields
<1>1. PICK V : V = Applied(v, msg)
  OBVIOUS
<1>2. V = [t \in kept \cup DOMAIN msg.updates |->
             [f \in DOMAIN old(t) \cup DOMAIN new(t) |->
                IF f \in DOMAIN new(t) THEN new(t)[f] ELSE old(t)[f]]]
  BY <1>1 DEF Applied
<1>3. kept \subseteq DOMAIN v /\ \A t : DOMAIN old(t) \subseteq Field /\ DOMAIN new(t) \subseteq Field
  BY DEF NoFields
<1>. HIDE DEF kept, old, new
<1>4. DOMAIN V = kept \cup DOMAIN msg.updates /\ IsFcn(V)
  BY <1>2 DEF IsFcn
<1>5. ASSUME NEW t \in DOMAIN V PROVE IsFcn(V[t]) /\ DOMAIN V[t] \subseteq Field
  <2>1. PICK w : w = V[t]
    OBVIOUS
  <2>2. w = [f \in DOMAIN old(t) \cup DOMAIN new(t) |->
               IF f \in DOMAIN new(t) THEN new(t)[f] ELSE old(t)[f]]
    BY <1>2, <1>4, <2>1
  <2>3. DOMAIN w = DOMAIN old(t) \cup DOMAIN new(t) /\ IsFcn(w)
    BY <2>2 DEF IsFcn
  <2>. QED
    BY <1>3, <2>1, <2>3
<1>. QED
  BY <1>1, <1>3, <1>4, <1>5

\* A response carries fields of torrents and nothing else.
LEMMA SerializedType ==
  ASSUME NEW r, NEW K, DOMAIN r.updated \subseteq Torrent
  PROVE  /\ DOMAIN Serialized(r, K).updates \subseteq Torrent
         /\ \A t \in DOMAIN Serialized(r, K).updates :
              DOMAIN Serialized(r, K).updates[t] \subseteq Field
BY DEF Serialized, Included

-----------------------------------------------------------------------------
(* The order of the frames: nothing recorded is later than the slot being  *)
(* filled, so what an event records goes in front of everything else.      *)

Ordered == FramesOrdered /\ NewestFirst

\* The frames are numbers, the current one is this one or the next, and so is every stamp.
LEMMA FrameTypes ==
  ASSUME HistoryTypeOK
  PROVE  /\ m_frame \in Nat /\ NextFrame \in Nat /\ CurrentFrame \in Nat
         /\ NextFrame = m_frame + 1
         /\ m_frame <= CurrentFrame /\ CurrentFrame <= NextFrame
         /\ \A t \in Live : /\ m_queue[t].last \in Nat
                            /\ m_queue[t].added \in Nat
                            /\ m_queue[t].status \in Status
                            /\ \A f \in Field : m_queue[t].frame[f] \in Nat \cup {Unset}
         /\ \A i \in DOMAIN m_removed : /\ m_removed[i].removed \in Nat
                                        /\ m_removed[i].added \in Nat
                                        /\ m_removed[i].ih \in Torrent
<1>1. \A i \in DOMAIN m_removed : m_removed[i] \in Tombstone
  BY DEF HistoryTypeOK
<1>2. \A t \in Live : m_queue[t] \in Entry
  BY DEF HistoryTypeOK
<1>3. m_frame \in Nat /\ m_deferred_frame_count \in BOOLEAN
  BY DEF HistoryTypeOK
<1>4. /\ NextFrame \in Nat /\ CurrentFrame \in Nat
      /\ NextFrame = m_frame + 1
      /\ m_frame <= CurrentFrame /\ CurrentFrame <= NextFrame
  BY <1>3 DEF CurrentFrame, NextFrame
<1>5. \A t \in Live : /\ m_queue[t].last \in Nat
                     /\ m_queue[t].added \in Nat
                     /\ m_queue[t].status \in Status
                     /\ \A f \in Field : m_queue[t].frame[f] \in Nat \cup {Unset}
  BY <1>2 DEF Entry
<1>. QED
  BY <1>1, <1>3, <1>4, <1>5 DEF Tombstone

\* An event fills the slot after the current frame.
LEMMA EventFrames ==
  ASSUME HistoryTypeOK, m_frame \in Nat,
         \/ m_frame' = m_frame /\ m_deferred_frame_count' = TRUE
         \/ m_frame' = NextFrame /\ m_deferred_frame_count' = FALSE
  PROVE  CurrentFrame' = NextFrame
BY DEF CurrentFrame, NextFrame

\* An add event keeps the queue ordered by last change: the new entry goes to its front.
LEMMA AddOrdered ==
  ASSUME HistoryTypeOK, Ordered, NEW t \in Torrent, NEW s \in Status, HandleAdd(t, s)
  PROVE  Ordered'
<1>. USE FrameTypes
<1>1. CurrentFrame' = NextFrame /\ m_frame' = m_frame
  BY EventFrames DEF HandleAdd
<1>2. CASE t \in Live
  <2>1. /\ m_queue' = m_queue /\ m_order' = m_order /\ m_tags' = m_tags
        /\ m_removed' = m_removed /\ m_horizon' = m_horizon /\ Live' = Live
    BY <1>2 DEF HandleAdd, Live
  <2>2. (\A u \in Live : EntryOrdered(u)') /\ \A i \in DOMAIN m_removed : TombstoneOrdered(i)'
    BY <1>1, <2>1 DEF Ordered, FramesOrdered, EntryOrdered, TombstoneOrdered
  <2>3. m_horizon' <= CurrentFrame' + 1 /\ m_frame' >= 1
    BY <1>1, <2>1 DEF Ordered, FramesOrdered, HistoryTypeOK
  <2>. QED
    BY <2>1, <2>2, <2>3 DEF Ordered, FramesOrdered, NewestFirst
<1>3. CASE t \notin Live
  <2>1. /\ Live' = Live \cup {t}
        /\ m_queue'[t] = NewEntry(s)
        /\ \A u \in Live : m_queue'[u] = m_queue[u]
    BY <1>3 DEF HandleAdd, Live
  <2>2. m_order' = MoveToFront({t}, {}) /\ m_tags' = m_tags /\ m_removed' = m_removed
          /\ m_horizon' = m_horizon
    BY <1>3 DEF HandleAdd
  <2>3. m_order' = m_order \cup ({t} \X Live)
    BY <1>3, <2>2 DEF MoveToFront, HistoryTypeOK
  <2>4. /\ NewEntry(s).last = NextFrame /\ NewEntry(s).added = NextFrame
        /\ \A f \in StatusField : NewEntry(s).frame[f] = NextFrame
        /\ NewEntry(s).frame["tag"] = Unset
    BY DEF NewEntry, Field, StatusField
  <2>. HIDE DEF Live
  <2>5. \A f \in Field : f \in StatusField \/ f = "tag"
    BY DEF Field
  <2>6. FramesOrdered'
    <3>1. \A u \in Live : EntryOrdered(u)'
      BY <1>1, <2>1, <2>2 DEF Ordered, FramesOrdered, EntryOrdered
    <3>2. m_tags[t] = {}
      BY <1>3 DEF Ordered, FramesOrdered
    <3>3. m_frame >= 1
      BY DEF Ordered, FramesOrdered
    <3>4. EntryOrdered(t)'
      BY <1>1, <2>1, <2>2, <2>4, <2>5, <3>2, <3>3 DEF EntryOrdered
    <3>5. \A i \in DOMAIN m_removed' : TombstoneOrdered(i)'
      BY <1>1, <2>1, <2>2, <2>4 DEF Ordered, FramesOrdered, TombstoneOrdered
    <3>6. m_horizon' <= CurrentFrame' + 1
      BY <1>1, <2>2 DEF Ordered, FramesOrdered, HistoryTypeOK
    <3>. QED
      BY <1>1, <2>1, <2>2, <3>1, <3>3, <3>4, <3>5, <3>6 DEF Ordered, FramesOrdered
  <2>7. NewestFirst'
    <3>1. \A u \in Live : m_queue[u].last <= NextFrame
      BY DEF Ordered, FramesOrdered, EntryOrdered
    <3>2. \A p \in m_order' : m_queue'[p[1]].last >= m_queue'[p[2]].last
      BY <1>3, <2>1, <2>3, <2>4, <3>1 DEF Ordered, NewestFirst, HistoryTypeOK
    <3>3. \A u, w \in Live' : u # w => <<u, w>> \in m_order' \/ <<w, u>> \in m_order'
      BY <2>1, <2>3 DEF Ordered, NewestFirst
    <3>. QED
      BY <2>2, <3>2, <3>3 DEF Ordered, NewestFirst
  <2>. QED
    BY <2>6, <2>7 DEF Ordered
<1>. QED
  BY <1>2, <1>3

\* A removal keeps the queue ordered and its tombstone is the newest.
LEMMA RemovedOrdered ==
  ASSUME HistoryTypeOK, Ordered, NEW t \in Torrent, HandleRemoved(t)
  PROVE  Ordered'
<1>. USE FrameTypes
<1>. DEFINE tomb == TombstoneOf(t)
<1>1. CurrentFrame' = NextFrame /\ m_frame' = m_frame
  BY EventFrames DEF HandleRemoved
<1>2. /\ Live' = Live \ {t}
      /\ \A u \in Live' : m_queue'[u] = m_queue[u]
      /\ m_tags' = [m_tags EXCEPT ![t] = {}]
      /\ m_order' = {p \in m_order : p[1] # t /\ p[2] # t}
  BY DEF HandleRemoved, Live
<1>3. tomb \in Tombstone /\ RecordRemoval(tomb)
  BY TombstoneOfType DEF HandleRemoved
<1>4. tomb.removed = NextFrame /\ tomb.ih = t
  BY DEF TombstoneOf
<1>. HIDE DEF tomb, Live
<1>5. /\ m_removed' \in Seq(Tombstone)
      /\ \A i \in DOMAIN m_removed' :
           m_removed'[i] = IF i = 1 THEN tomb ELSE m_removed[i - 1]
      /\ \A i \in DOMAIN m_removed' : i # 1 => i - 1 \in DOMAIN m_removed
      /\ \/ m_horizon' = m_horizon
         \/ m_horizon' = tomb.removed + 1
         \/ \E i \in DOMAIN m_removed : m_horizon' = m_removed[i].removed + 1
  BY <1>3, RemovalRecorded DEF HistoryTypeOK
<1>6. DOMAIN m_removed' \subseteq Nat /\ DOMAIN m_removed \subseteq Nat /\ m_horizon \in Nat
  BY <1>5 DEF HistoryTypeOK
<1>7. \A i \in DOMAIN m_removed : m_removed[i].removed <= NextFrame /\ 1 <= m_removed[i].removed
  BY DEF Ordered, FramesOrdered, TombstoneOrdered
<1>8. m_horizon' <= NextFrame + 1
  BY <1>4, <1>5, <1>6, <1>7 DEF Ordered, FramesOrdered
<1>9. ASSUME NEW i \in DOMAIN m_removed' PROVE TombstoneOrdered(i)'
  <2>1. CASE i = 1
    BY <1>1, <1>2, <1>4, <1>5, <2>1 DEF TombstoneOrdered
  <2>2. CASE i # 1
    <3>1. i - 1 \in DOMAIN m_removed /\ m_removed'[i] = m_removed[i - 1]
      BY <1>5, <2>2
    <3>2. TombstoneOrdered(i - 1)
      BY <3>1 DEF Ordered, FramesOrdered
    <3>. QED
      BY <1>1, <1>2, <3>1, <3>2 DEF TombstoneOrdered
  <2>. QED
    BY <2>1, <2>2
<1>10. \A u \in Torrent \ Live' : m_tags'[u] = {}
  BY <1>2 DEF Ordered, FramesOrdered, HistoryTypeOK
<1>11. FramesOrdered'
  <2>1. \A u \in Live' : m_tags'[u] = m_tags[u] /\ u \in Live
    BY <1>2 DEF HistoryTypeOK
  <2>2. \A u \in Live' : EntryOrdered(u)'
    BY <1>1, <1>2, <2>1 DEF Ordered, FramesOrdered, EntryOrdered
  <2>3. m_frame' >= 1
    BY <1>1 DEF Ordered, FramesOrdered
  <2>. QED
    BY <1>1, <1>8, <1>9, <1>10, <2>2, <2>3 DEF FramesOrdered
<1>12. NewestFirst'
  <2>1. \A i, j \in DOMAIN m_removed' : i < j => m_removed'[i].removed >= m_removed'[j].removed
    <3> SUFFICES ASSUME NEW i \in DOMAIN m_removed', NEW j \in DOMAIN m_removed', i < j
                 PROVE m_removed'[i].removed >= m_removed'[j].removed
      OBVIOUS
    <3>1. j # 1 /\ m_removed'[j] = m_removed[j - 1] /\ j - 1 \in DOMAIN m_removed
      <4>1. i >= 1 /\ i \in Nat /\ j \in Nat
        BY <1>5
      <4>. QED
        BY <1>5, <4>1
    <3>2. CASE i = 1
      BY <1>4, <1>5, <1>7, <3>1, <3>2
    <3>3. CASE i # 1
      <4>1. m_removed'[i] = m_removed[i - 1] /\ i - 1 \in DOMAIN m_removed /\ i - 1 < j - 1
        BY <1>5, <1>6, <3>3
      <4>. QED
        BY <3>1, <4>1 DEF Ordered, NewestFirst
    <3>. QED
      BY <3>2, <3>3
  <2>2. \A p \in m_order' : m_queue'[p[1]].last >= m_queue'[p[2]].last
    BY <1>2 DEF Ordered, NewestFirst, HistoryTypeOK
  <2>3. \A u, w \in Live' : u # w => <<u, w>> \in m_order' \/ <<w, u>> \in m_order'
    BY <1>2 DEF Ordered, NewestFirst
  <2>. QED
    BY <2>1, <2>2, <2>3 DEF NewestFirst
<1>. QED
  BY <1>11, <1>12 DEF Ordered

\* Moving torrents to the front keeps the list newest-first when they are
\* the newest.
LEMMA FrontIsNewest ==
  ASSUME HistoryTypeOK, Ordered, NEW U \in SUBSET Live, NEW ord \in TotalOrders(U),
         Live' = Live, m_order' = MoveToFront(U, ord),
         NextFrame \in Nat,
         \A t \in U : m_queue'[t].last = NextFrame,
         \A t \in Live \ U : m_queue'[t] = m_queue[t]
  PROVE  /\ \A p \in m_order' : m_queue'[p[1]].last >= m_queue'[p[2]].last
         /\ \A t, u \in Live' : t # u => <<t, u>> \in m_order' \/ <<u, t>> \in m_order'
<1>. USE FrameTypes
<1>. HIDE DEF Live
<1>1. \A t \in Live : m_queue[t].last <= NextFrame /\ m_queue[t].last \in Nat
  BY DEF Ordered, FramesOrdered, EntryOrdered
<1>2. ord \subseteq U \X U /\ \A t, u \in U : t # u => <<t, u>> \in ord \/ <<u, t>> \in ord
  BY DEF TotalOrders
<1>3. \A t, u : <<t, u>> \in m_order' =>
        \/ <<t, u>> \in m_order /\ t \in Live \ U /\ u \in Live \ U
        \/ t \in U /\ u \in Live
  BY <1>2 DEF MoveToFront, HistoryTypeOK
<1>4. \A t, u : <<t, u>> \in m_order' => m_queue'[t].last >= m_queue'[u].last
  BY <1>1, <1>3 DEF Ordered, NewestFirst
<1>5. m_order' \subseteq Live \X Live
  BY <1>2 DEF MoveToFront, HistoryTypeOK
<1>6. \A t, u \in Live : t # u => <<t, u>> \in m_order' \/ <<u, t>> \in m_order'
  BY <1>2 DEF MoveToFront, Ordered, NewestFirst
<1>. QED
  BY <1>4, <1>5, <1>6

\* What the two updates of an entry do to its frames.
LEMMA UpdateStatusFrames ==
  ASSUME NEW e, NEW s
  PROVE  /\ UpdateStatus(e, s).last = NextFrame
         /\ UpdateStatus(e, s).added = e.added
         /\ \A f \in Field : \/ UpdateStatus(e, s).frame[f] = e.frame[f]
                             \/ f # "tag" /\ UpdateStatus(e, s).frame[f] = NextFrame
         /\ UpdateStatus(e, s).status = s
         /\ \A f \in StatusField : \/ UpdateStatus(e, s).frame[f] = NextFrame
                                   \/ /\ UpdateStatus(e, s).frame[f] = e.frame[f]
                                      /\ s[f] = e.status[f]
<1>1. \A f \in Field : UpdateStatus(e, s).frame[f] =
        IF f \in StatusField /\ s[f] # e.status[f] THEN NextFrame ELSE e.frame[f]
  BY DEF UpdateStatus
<1>2. /\ UpdateStatus(e, s).last = NextFrame
      /\ UpdateStatus(e, s).added = e.added
      /\ UpdateStatus(e, s).status = s
  BY DEF UpdateStatus
<1>3. Field = StatusField \cup {"tag"} /\ "tag" \notin StatusField
  BY DEF Field, StatusField
<1>4. ASSUME NEW f \in Field, UpdateStatus(e, s).frame[f] # e.frame[f]
      PROVE  f # "tag" /\ UpdateStatus(e, s).frame[f] = NextFrame
  <2>1. f \in StatusField
    BY <1>1, <1>4
  <2>. QED
    BY <1>1, <1>3, <1>4, <2>1
<1>5. ASSUME NEW f \in StatusField, UpdateStatus(e, s).frame[f] # NextFrame
      PROVE  UpdateStatus(e, s).frame[f] = e.frame[f] /\ s[f] = e.status[f]
  <2>1. f \in Field
    BY <1>3
  <2>. QED
    BY <1>1, <1>5, <2>1
<1>. HIDE DEF Field, StatusField, UpdateStatus, NextFrame
<1>. QED
  BY <1>2, <1>4, <1>5

\* A change of tag stamps the entry and its tag field, and leaves the other stamps.
LEMMA RetaggedFrames ==
  ASSUME NEW e
  PROVE  /\ Retagged(e).last = NextFrame
         /\ Retagged(e).added = e.added
         /\ Retagged(e).status = e.status
         /\ Retagged(e).frame["tag"] = NextFrame
         /\ \A f \in StatusField : Retagged(e).frame[f] = e.frame[f]
BY DEF Retagged, Field, StatusField

\* A state update keeps the queue ordered: what it changed is of the newest frame and goes in front.
LEMMA StateUpdateOrdered ==
  ASSUME HistoryTypeOK, Ordered, NEW U \in SUBSET Torrent, NEW s \in [U -> Status],
         NEW ord \in TotalOrders(U \cap Live), HandleStateUpdate(U, s, ord)
  PROVE  Ordered'
<1>. USE FrameTypes
<1>1. CurrentFrame' = NextFrame /\ m_frame' = NextFrame
  BY EventFrames DEF HandleStateUpdate
<1>2. /\ Live' = Live
      /\ \A t \in Live : m_queue'[t] = IF t \in U THEN UpdateStatus(m_queue[t], s[t])
                                                  ELSE m_queue[t]
      /\ m_order' = MoveToFront(U \cap Live, ord)
      /\ m_tags' = m_tags /\ m_removed' = m_removed /\ m_horizon' = m_horizon
  BY DEF HandleStateUpdate, Live
<1>. HIDE DEF Live
<1>3. \A t \in Live \cap U :
        /\ m_queue'[t].last = NextFrame
        /\ m_queue'[t].added = m_queue[t].added
        /\ \A f \in Field : \/ m_queue'[t].frame[f] = m_queue[t].frame[f]
                            \/ f # "tag" /\ m_queue'[t].frame[f] = NextFrame
  BY <1>2, UpdateStatusFrames
<1>4. ASSUME NEW t \in Live PROVE EntryOrdered(t)'
  <2>1. EntryOrdered(t)
    BY DEF Ordered, FramesOrdered
  <2>2. CASE t \in U
    <3>1. \A f \in Field :
            \/ /\ m_queue'[t].added <= m_queue'[t].frame[f]
               /\ m_queue'[t].frame[f] <= m_queue'[t].last
            \/ f = "tag" /\ m_queue'[t].frame[f] = Unset /\ m_tags'[t] = {}
      <4>1. /\ m_queue[t].added <= NextFrame /\ m_queue[t].added \in Nat
            /\ m_queue[t].last <= NextFrame /\ m_queue[t].last \in Nat
        BY <1>2, <2>1, <2>2 DEF EntryOrdered
      <4>2. m_tags'[t] = m_tags[t] /\ m_queue'[t].last = NextFrame
            /\ m_queue'[t].added = m_queue[t].added
        BY <1>2, <1>3, <2>2
      <4>3. ASSUME NEW f \in Field
            PROVE  \/ /\ m_queue'[t].added <= m_queue'[t].frame[f]
                      /\ m_queue'[t].frame[f] <= m_queue'[t].last
                   \/ f = "tag" /\ m_queue'[t].frame[f] = Unset /\ m_tags'[t] = {}
        <5>1. CASE m_queue'[t].frame[f] = NextFrame
          BY <4>1, <4>2, <5>1
        <5>2. CASE m_queue'[t].frame[f] = m_queue[t].frame[f]
          <6>1. CASE f = "tag" /\ m_queue[t].frame[f] = Unset
            BY <2>1, <4>2, <5>2, <6>1 DEF EntryOrdered, Unset
          <6>2. CASE ~(f = "tag" /\ m_queue[t].frame[f] = Unset)
            <7>1. m_queue[t].added <= m_queue[t].frame[f] /\ m_queue[t].frame[f] <= m_queue[t].last
              BY <2>1, <6>2 DEF EntryOrdered
            <7>2. m_queue[t].frame[f] \in Int
              BY DEF Unset
            <7>. QED
              BY <4>1, <4>2, <5>2, <7>1, <7>2
          <6>. QED
            BY <6>1, <6>2
        <5>. QED
          BY <1>3, <2>2, <5>1, <5>2
      <4>. QED
        BY <4>3
    <3>. QED
      BY <1>1, <1>3, <2>1, <2>2, <3>1 DEF EntryOrdered
  <2>3. CASE t \notin U
    BY <1>1, <1>2, <2>1, <2>3 DEF EntryOrdered
  <2>. QED
    BY <2>2, <2>3
<1>5. ASSUME NEW i \in DOMAIN m_removed PROVE TombstoneOrdered(i)'
  <2>1. TombstoneOrdered(i)
    BY DEF Ordered, FramesOrdered
  <2>. QED
    BY <1>1, <1>2, <1>3, <2>1 DEF TombstoneOrdered
<1>6. m_horizon' <= CurrentFrame' + 1 /\ m_frame' >= 1
  BY <1>1, <1>2 DEF Ordered, FramesOrdered, HistoryTypeOK
<1>7. FramesOrdered'
  BY <1>2, <1>4, <1>5, <1>6 DEF Ordered, FramesOrdered
<1>8. /\ \A p \in m_order' : m_queue'[p[1]].last >= m_queue'[p[2]].last
      /\ \A t, u \in Live' : t # u => <<t, u>> \in m_order' \/ <<u, t>> \in m_order'
  <2>1. U \cap Live \in SUBSET Live
    OBVIOUS
  <2>2. \A t \in U \cap Live : m_queue'[t].last = NextFrame
    BY <1>3
  <2>3. \A t \in Live \ (U \cap Live) : m_queue'[t] = m_queue[t]
    BY <1>2
  <2>. QED
    BY <1>2, <2>1, <2>2, <2>3, FrontIsNewest
<1>. QED
  BY <1>2, <1>7, <1>8 DEF Ordered, NewestFirst

\* A change of tag keeps the queue ordered.
LEMMA SetTagOrdered ==
  ASSUME HistoryTypeOK, Ordered, NEW t \in Torrent, NEW value \in Tag, NEW mask \in Tag,
         SetTag(t, value, mask)
  PROVE  Ordered'
<1>. USE FrameTypes
<1>1. CurrentFrame' = NextFrame /\ m_frame' = m_frame
  BY EventFrames DEF SetTag
<1>2. /\ t \in Live
      /\ Live' = Live
      /\ m_queue'[t] = Retagged(m_queue[t])
      /\ \A u \in Live \ {t} : m_queue'[u] = m_queue[u] /\ m_tags'[u] = m_tags[u]
      /\ \A u \in Torrent \ Live : m_tags'[u] = m_tags[u]
      /\ m_order' = MoveToFront({t}, {})
      /\ m_removed' = m_removed /\ m_horizon' = m_horizon
  BY DEF SetTag, Live, HistoryTypeOK
<1>. HIDE DEF Live
<1>3. /\ m_queue'[t].last = NextFrame
      /\ m_queue'[t].added = m_queue[t].added
      /\ m_queue'[t].frame["tag"] = NextFrame
      /\ \A f \in StatusField : m_queue'[t].frame[f] = m_queue[t].frame[f]
  BY <1>2, RetaggedFrames
<1>4. ASSUME NEW u \in Live PROVE EntryOrdered(u)'
  <2>1. EntryOrdered(u)
    BY DEF Ordered, FramesOrdered
  <2>2. CASE u = t
    <3>1. Field = StatusField \cup {"tag"} /\ "tag" \notin StatusField
      BY DEF Field, StatusField
    <3>0. m_queue[t].added <= NextFrame /\ m_queue[t].added \in Nat
      BY <1>2, <2>1, <2>2 DEF EntryOrdered
    <3>2. ASSUME NEW f \in Field
          PROVE m_queue'[t].added <= m_queue'[t].frame[f] /\ m_queue'[t].frame[f] <= m_queue'[t].last
      <4>1. CASE f = "tag"
        BY <1>3, <3>0, <4>1
      <4>2. CASE f # "tag"
        <5>1. m_queue[t].added <= m_queue[t].frame[f] /\ m_queue[t].frame[f] <= m_queue[t].last
          BY <2>1, <2>2, <4>2 DEF EntryOrdered
        <5>2. m_queue[t].frame[f] \in Nat /\ m_queue[t].last <= NextFrame /\ m_queue[t].last \in Nat
          BY <1>2, <2>1, <2>2, <5>1 DEF EntryOrdered, Unset
        <5>3. f \in StatusField
          BY <3>1, <4>2
        <5>. QED
          BY <1>3, <5>1, <5>2, <5>3
      <4>. QED
        BY <4>1, <4>2
    <3>. QED
      BY <1>1, <1>3, <2>1, <2>2, <3>2 DEF EntryOrdered
  <2>3. CASE u # t
    BY <1>1, <1>2, <2>1, <2>3 DEF EntryOrdered
  <2>. QED
    BY <2>2, <2>3
<1>5. ASSUME NEW i \in DOMAIN m_removed PROVE TombstoneOrdered(i)'
  <2>1. TombstoneOrdered(i)
    BY DEF Ordered, FramesOrdered
  <2>2. \A u \in Live : m_queue'[u].added = m_queue[u].added
    BY <1>2, <1>3
  <2>. QED
    BY <1>1, <1>2, <2>1, <2>2 DEF TombstoneOrdered
<1>6. m_horizon' <= CurrentFrame' + 1 /\ m_frame' >= 1
  BY <1>1, <1>2 DEF Ordered, FramesOrdered, HistoryTypeOK
<1>7. FramesOrdered'
  BY <1>2, <1>4, <1>5, <1>6 DEF Ordered, FramesOrdered
<1>8. /\ \A p \in m_order' : m_queue'[p[1]].last >= m_queue'[p[2]].last
      /\ \A u, w \in Live' : u # w => <<u, w>> \in m_order' \/ <<w, u>> \in m_order'
  <2>1. {} \in TotalOrders({t})
    BY DEF TotalOrders
  <2>. QED
    <3>1. {t} \in SUBSET Live
      BY <1>2
    <3>2. \A u \in {t} : m_queue'[u].last = NextFrame
      BY <1>3
    <3>. QED
      BY <1>2, <2>1, <3>1, <3>2, FrontIsNewest
<1>. QED
  BY <1>2, <1>7, <1>8 DEF Ordered, NewestFirst

\* Reading the current frame keeps the queue ordered and the current frame as it is.
LEMMA PollOrdered ==
  ASSUME HistoryTypeOK, Ordered, CurrentFrameLocked
  PROVE  Ordered' /\ CurrentFrame' = CurrentFrame
<1>1. CurrentFrame' = CurrentFrame /\ m_frame' >= m_frame
  BY DEF CurrentFrameLocked, CurrentFrame, NextFrame, HistoryTypeOK
<1>2. /\ m_queue' = m_queue /\ m_order' = m_order /\ m_tags' = m_tags
      /\ m_removed' = m_removed /\ m_horizon' = m_horizon /\ Live' = Live
  BY DEF CurrentFrameLocked, Live
<1>3. (\A u \in Live : EntryOrdered(u)') /\ \A i \in DOMAIN m_removed : TombstoneOrdered(i)'
  BY <1>1, <1>2 DEF Ordered, FramesOrdered, EntryOrdered, TombstoneOrdered
<1>4. m_horizon' <= CurrentFrame' + 1 /\ m_frame' >= 1
  <2>1. m_frame \in Nat /\ m_frame' \in Nat
    BY PollHistoryType DEF HistoryTypeOK
  <2>. QED
    BY <1>1, <1>2, <2>1 DEF Ordered, FramesOrdered
<1>. QED
  BY <1>1, <1>2, <1>3, <1>4 DEF Ordered, FramesOrdered, NewestFirst

\* A history starts empty, its frames in order.
LEMMA HistoryStarts ==
  ASSUME HistoryInit
  PROVE  HistoryTypeOK /\ Ordered /\ Live = {}
<1>1. Live = {} /\ m_queue \in [Live -> Entry]
  BY DEF HistoryInit, Live
<1>2. m_removed \in Seq(Tombstone) /\ Len(m_removed) = 0 /\ DOMAIN m_removed = {}
  BY DEF HistoryInit
<1>3. m_tags \in [Torrent -> Tag]
  BY DEF HistoryInit, Tag
<1>4. m_order = {} /\ m_frame = 1 /\ m_deferred_frame_count = FALSE /\ m_horizon = 0
  BY DEF HistoryInit
<1>. HIDE DEF Live
<1>5. Live \subseteq Torrent /\ m_order \subseteq Live \X Live
  BY <1>1, <1>4
<1>6. HistoryTypeOK
  <2>1. Len(m_removed) <= MaxTombstones
    BY <1>2, HistoryAssumption
  <2>2. m_frame \in Nat /\ m_deferred_frame_count \in BOOLEAN /\ m_horizon \in Nat
    BY <1>4
  <2>. QED
    BY <1>1, <1>2, <1>3, <1>5, <2>1, <2>2 DEF HistoryTypeOK
<1>7. Ordered
  BY <1>1, <1>2, <1>4 DEF HistoryInit, Ordered, FramesOrdered, NewestFirst, CurrentFrame
<1>. QED
  BY <1>1, <1>6, <1>7

-----------------------------------------------------------------------------
(* What a client makes of a response.                                      *)

\* The torrents of v that response r leaves in place, and the fields of t that
\* are sent to a client at frame K.
Kept(v, r)    == IF r.snapshot THEN {} ELSE DOMAIN v \ r.removed
Sent(r, t, K) == IF t \in DOMAIN r.updated THEN Included(r, t, K) ELSE {}

\* V is v after response r to a client at frame K: a field that is sent has the
\* value sent, one that is not keeps its value.
MergeOf(V, v, r, K) ==
  /\ DOMAIN V = Kept(v, r) \cup {t \in DOMAIN r.updated : Sent(r, t, K) # {}}
  /\ \A t \in DOMAIN V :
       /\ DOMAIN V[t] = (IF t \in Kept(v, r) THEN DOMAIN v[t] ELSE {}) \cup Sent(r, t, K)
       /\ IsFcn(V[t])
  /\ IsFcn(V)
  /\ \A t \in DOMAIN r.updated : \A f \in Sent(r, t, K) : V[t][f] = FieldValue(r, t, f)
  /\ \A t \in Kept(v, r) : \A f \in DOMAIN v[t] \ Sent(r, t, K) : V[t][f] = v[t][f]

\* What a client does with a serialized response is that.
LEMMA ResponseApplied ==
  ASSUME NEW v, NEW r, NEW K, NEW V, V = Applied(v, Serialized(r, K))
  PROVE  MergeOf(V, v, r, K)
<1>. DEFINE msg == Serialized(r, K)
            new(t) == IF t \in DOMAIN msg.updates THEN msg.updates[t] ELSE NoFields
            old(t) == IF t \in Kept(v, r) THEN v[t] ELSE NoFields
<1>1. /\ DOMAIN msg.updates = {t \in DOMAIN r.updated : Sent(r, t, K) # {}}
      /\ \A t \in DOMAIN msg.updates :
           /\ DOMAIN msg.updates[t] = Sent(r, t, K)
           /\ \A f \in Sent(r, t, K) : msg.updates[t][f] = FieldValue(r, t, f)
      /\ msg.snapshot = r.snapshot /\ msg.removed = r.removed
  BY DEF Serialized, Sent
<1>2. \A t : t \notin DOMAIN msg.updates => Sent(r, t, K) = {}
  BY <1>1 DEF Sent
<1>3. V = [t \in Kept(v, r) \cup DOMAIN msg.updates |->
             [f \in DOMAIN old(t) \cup DOMAIN new(t) |->
                IF f \in DOMAIN new(t) THEN new(t)[f] ELSE old(t)[f]]]
  BY <1>1 DEF Applied, Kept
<1>4. \A t : DOMAIN new(t) = Sent(r, t, K)
  BY <1>1, <1>2 DEF NoFields
<1>5. \A t : DOMAIN old(t) = IF t \in Kept(v, r) THEN DOMAIN v[t] ELSE {}
  BY DEF NoFields
<1>6. \A t \in DOMAIN r.updated : \A f \in Sent(r, t, K) :
        t \in DOMAIN msg.updates /\ new(t)[f] = FieldValue(r, t, f)
  BY <1>1
<1>7. \A t \in Kept(v, r) : old(t) = v[t]
  OBVIOUS
<1>. HIDE DEF msg, new, old
<1>8. DOMAIN V = Kept(v, r) \cup DOMAIN msg.updates /\ IsFcn(V)
  BY <1>3 DEF IsFcn
<1>9. \A t \in DOMAIN V :
        /\ DOMAIN V[t] = DOMAIN old(t) \cup DOMAIN new(t)
        /\ IsFcn(V[t])
        /\ \A f \in DOMAIN new(t) : V[t][f] = new(t)[f]
        /\ \A f \in DOMAIN old(t) \ DOMAIN new(t) : V[t][f] = old(t)[f]
  <2>1. \A t \in DOMAIN V : V[t] = [f \in DOMAIN old(t) \cup DOMAIN new(t) |->
                                   IF f \in DOMAIN new(t) THEN new(t)[f] ELSE old(t)[f]]
    BY <1>3, <1>8
  <2>2. ASSUME NEW t \in DOMAIN V
        PROVE  /\ DOMAIN V[t] = DOMAIN old(t) \cup DOMAIN new(t)
               /\ IsFcn(V[t])
               /\ \A f \in DOMAIN new(t) : V[t][f] = new(t)[f]
               /\ \A f \in DOMAIN old(t) \ DOMAIN new(t) : V[t][f] = old(t)[f]
    <3>1. V[t] = [f \in DOMAIN old(t) \cup DOMAIN new(t) |->
                    IF f \in DOMAIN new(t) THEN new(t)[f] ELSE old(t)[f]]
      BY <2>1
    <3>2. DOMAIN V[t] = DOMAIN old(t) \cup DOMAIN new(t) /\ IsFcn(V[t])
      BY <3>1 DEF IsFcn
    <3>3. \A f \in DOMAIN old(t) \cup DOMAIN new(t) :
            V[t][f] = IF f \in DOMAIN new(t) THEN new(t)[f] ELSE old(t)[f]
      BY <3>1
    <3>. QED
      BY <3>2, <3>3
  <2>. QED
    BY <2>2
<1>10. \A t \in DOMAIN r.updated : \A f \in Sent(r, t, K) : V[t][f] = FieldValue(r, t, f)
  BY <1>4, <1>6, <1>8, <1>9
<1>11. \A t \in Kept(v, r) : \A f \in DOMAIN v[t] \ Sent(r, t, K) : V[t][f] = v[t][f]
  BY <1>4, <1>5, <1>7, <1>8, <1>9
<1>. QED
  BY <1>1, <1>4, <1>5, <1>8, <1>9, <1>10, <1>11 DEF MergeOf

-----------------------------------------------------------------------------
(* What a poll finds.                                                      *)

\* The scan that breaks at the first old entry finds every newer one.
LEMMA ScanFinds ==
  ASSUME HistoryTypeOK, Ordered, NEW K \in Nat
  PROVE  ScannedSince(K) = {t \in Live : m_queue[t].last > K}
<1>1. \A t, u \in Live : <<u, t>> \in m_order => m_queue[u].last >= m_queue[t].last
  BY DEF Ordered, NewestFirst
<1>2. \A t \in Live : m_queue[t].last \in Nat
  BY FrameTypes
<1>. HIDE DEF Live
<1>. QED
  BY <1>1, <1>2 DEF ScannedSince

\* So does the scan of the tombstones.
LEMMA TombstonesFound ==
  ASSUME HistoryTypeOK, Ordered, NEW K \in Nat \ {0}
  PROVE  RemovedSince(K, NoFilter) =
           {m_removed[i].ih : i \in {i \in DOMAIN m_removed :
                                       m_removed[i].removed > K /\ m_removed[i].added <= K}}
<1>. DEFINE Since(i) == \A j \in 1 .. i : m_removed[j].removed > K
<1>1. \A b, g : Matched(NoFilter, b, g)
  BY DEF Matched, NoFilter
<1>2. DOMAIN m_removed = 1 .. Len(m_removed) /\ Len(m_removed) \in Nat
  BY DEF HistoryTypeOK
<1>3. \A i \in DOMAIN m_removed : m_removed[i].removed \in Nat
  BY FrameTypes
<1>4. \A i, j \in DOMAIN m_removed : i < j => m_removed[i].removed >= m_removed[j].removed
  BY DEF Ordered, NewestFirst
<1>5. ASSUME NEW i \in DOMAIN m_removed PROVE Since(i) <=> m_removed[i].removed > K
  <2>1. i \in 1 .. i
    BY <1>2
  <2>2. ASSUME NEW j \in 1 .. i PROVE j \in DOMAIN m_removed /\ (j = i \/ j < i)
    BY <1>2
  <2>. QED
    BY <1>3, <1>4, <2>1, <2>2
<1>. HIDE DEF Since
<1>6. RemovedSince(K, NoFilter) =
        {m_removed[i].ih : i \in {i \in DOMAIN m_removed : Since(i) /\ m_removed[i].added <= K}}
  BY <1>1 DEF RemovedSince, Since
<1>. QED
  BY <1>5, <1>6

-----------------------------------------------------------------------------
(* A copy the next delta completes.                                        *)

\* A complete copy of the current frame is the list of the session.
LEMMA CompleteIsLive ==
  ASSUME HistoryTypeOK, Ordered, NEW v, IsFcn(v), \A t \in DOMAIN v : IsFcn(v[t]),
         Current(v, CurrentFrame), Droppable(v, CurrentFrame)
  PROVE  v = LiveList
<1>. USE FrameTypes
<1>1. ~(m_horizon > CurrentFrame + 1) /\ \A i \in DOMAIN m_removed :
        ~(m_removed[i].removed > CurrentFrame)
  BY DEF Ordered, FramesOrdered, TombstoneOrdered, HistoryTypeOK
<1>2. DOMAIN v \subseteq Live
  BY <1>1 DEF Droppable, WillBeRemoved
<1>3. ASSUME NEW t \in Live
      PROVE  t \in DOMAIN v
             /\ v[t] = [f \in Field |-> IF f = "tag" THEN m_tags[t] ELSE m_queue[t].status[f]]
  <2>1. EntryOrdered(t)
    BY DEF Ordered, FramesOrdered
  <2>2. m_queue[t].added <= CurrentFrame
    BY <2>1 DEF EntryOrdered
  <2>3. \A f \in Field : m_queue[t].frame[f] <= CurrentFrame
    BY <2>1 DEF EntryOrdered, Unset
  <2>4. Field = StatusField \cup {"tag"} /\ "tag" \notin StatusField
    BY DEF Field, StatusField
  <2>5. t \in DOMAIN v /\ DOMAIN v[t] = Field
    BY <2>2 DEF Current
  <2>6. \A f \in StatusField : v[t][f] = m_queue[t].status[f]
    BY <2>2, <2>3, <2>4 DEF Current
  <2>7. v[t]["tag"] = m_tags[t]
    BY <2>2, <2>3, <2>4 DEF Current
  <2>8. v[t] = [f \in Field |-> v[t][f]]
    BY <2>5 DEF IsFcn
  <2>. HIDE DEF Field, StatusField
  <2>. QED
    BY <2>4, <2>5, <2>6, <2>7, <2>8
<1>4. v = [t \in Live |-> v[t]]
  BY <1>2, <1>3 DEF IsFcn
<1>. QED
  BY <1>3, <1>4 DEF LiveList

\* The list of the session is a complete copy of the current frame.
LEMMA LiveIsComplete ==
  ASSUME HistoryTypeOK, Ordered
  PROVE  Current(LiveList, CurrentFrame) /\ Droppable(LiveList, CurrentFrame)
<1>1. \A t \in Live : m_queue[t].added <= CurrentFrame
  BY FrameTypes DEF Ordered, FramesOrdered, EntryOrdered
<1>2. DOMAIN LiveList = Live
  BY DEF LiveList
<1>3. \A t \in Live : /\ DOMAIN LiveList[t] = Field
                      /\ \A f \in StatusField : LiveList[t][f] = m_queue[t].status[f]
                      /\ LiveList[t]["tag"] = m_tags[t]
  BY DEF LiveList, Field, StatusField
<1>. HIDE DEF Live
<1>. QED
  BY <1>1, <1>2, <1>3 DEF Current, Droppable

\* However old the frame, whatever changed since and whatever tombstones are
\* gone: applied to a complete copy of frame K, the response to a poll from K
\* makes it the list of the session.
LEMMA ResponseCompletes ==
  ASSUME HistoryTypeOK, Ordered, NEW K \in Nat, NEW v, Current(v, K), Droppable(v, K)
  PROVE  Applied(v, Serialized(Query(K), K)) = LiveList
<1> SUFFICES ASSUME NEW r, r = Query(K), NEW V, V = Applied(v, Serialized(r, K))
             PROVE  V = LiveList
  OBVIOUS
<1>1. /\ DOMAIN V = Kept(v, r) \cup {t \in DOMAIN r.updated : Sent(r, t, K) # {}}
      /\ \A t \in DOMAIN V :
           /\ DOMAIN V[t] = (IF t \in Kept(v, r) THEN DOMAIN v[t] ELSE {}) \cup Sent(r, t, K)
           /\ IsFcn(V[t])
      /\ IsFcn(V)
      /\ \A t \in DOMAIN r.updated : \A f \in Sent(r, t, K) : V[t][f] = FieldValue(r, t, f)
      /\ \A t \in Kept(v, r) : \A f \in DOMAIN v[t] \ Sent(r, t, K) : V[t][f] = v[t][f]
  <2>1. MergeOf(V, v, r, K)
    BY ResponseApplied
  <2>. QED
    BY <2>1 DEF MergeOf
<1>. USE FrameTypes
<1>2. Promoted(K) \in Nat
  BY DEF Promoted
<1>3. /\ r.snapshot <=> Promoted(K) = 0
      /\ DOMAIN r.updated = {t \in Live : m_queue[t].last > Promoted(K)}
      /\ \A t \in DOMAIN r.updated :
           r.updated[t].frame = m_queue[t].frame
      /\ r.removed = RemovedSince(Promoted(K), NoFilter)
  BY <1>2, ScanFinds DEF Query, Copies
<1>4. \A t \in DOMAIN r.updated : \A f \in Field :
        FieldValue(r, t, f) = IF f = "tag" THEN m_tags[t] ELSE m_queue[t].status[f]
  BY <1>3 DEF FieldValue, Query, Copies
<1>5. \A t \in Live : EntryOrdered(t) /\ m_queue[t].last >= 1
  BY DEF Ordered, FramesOrdered, EntryOrdered
<1>6. Field = StatusField \cup {"tag"} /\ "tag" \notin StatusField /\ Field # {}
  BY DEF Field, StatusField
<1>7. \A t \in DOMAIN r.updated :
        Sent(r, t, K) = {f \in Field : r.snapshot \/ Newer(m_queue[t].frame[f], K)}
  BY <1>3 DEF Sent, Included
<1>8. \A t : t \notin DOMAIN r.updated => Sent(r, t, K) = {}
  BY DEF Sent
<1>. HIDE DEF Live, Field, StatusField
<1>11. ASSUME DOMAIN V = Live,
              \A t \in Live :
                /\ DOMAIN V[t] = Field
                /\ \A f \in Field : V[t][f] = IF f = "tag" THEN m_tags[t] ELSE m_queue[t].status[f]
       PROVE  V = LiveList
  <2>1. V = [t \in Live |-> V[t]]
    BY <1>1, <1>11 DEF IsFcn
  <2>2. ASSUME NEW t \in Live
        PROVE  V[t] = [f \in Field |-> IF f = "tag" THEN m_tags[t] ELSE m_queue[t].status[f]]
    <3>1. PICK w : w = V[t]
      OBVIOUS
    <3>2. w = [f \in Field |-> w[f]]
      BY <1>1, <1>11, <3>1 DEF IsFcn
    <3>3. \A f \in Field : w[f] = IF f = "tag" THEN m_tags[t] ELSE m_queue[t].status[f]
      BY <1>11, <3>1
    <3>. QED
      BY <3>1, <3>2, <3>3
  <2>. QED
    BY <2>1, <2>2 DEF LiveList
<1>9. CASE r.snapshot
  <2>0. Promoted(K) = 0 /\ \A t \in Live : m_queue[t].last > 0
    BY <1>3, <1>5, <1>9
  <2>1. DOMAIN r.updated = Live
    BY <1>3, <2>0
  <2>2. Kept(v, r) = {} /\ \A t \in Live : Sent(r, t, K) = Field
    BY <1>7, <1>9, <2>1 DEF Kept
  <2>3. DOMAIN V = Live
    BY <1>1, <1>6, <2>1, <2>2
  <2>4. \A t \in Live : DOMAIN V[t] = Field /\ IsFcn(V[t])
    BY <1>1, <2>2, <2>3
  <2>5. \A t \in Live : \A f \in Field :
          V[t][f] = IF f = "tag" THEN m_tags[t] ELSE m_queue[t].status[f]
    BY <1>1, <1>4, <2>1, <2>2
  <2>. QED
    BY <1>11, <2>3, <2>4, <2>5
<1>10. CASE ~r.snapshot
  <2>1. Promoted(K) = K /\ K # 0 /\ ~(K < m_horizon)
    BY <1>3, <1>10 DEF Promoted
  <2>2. r.removed = {m_removed[i].ih : i \in {i \in DOMAIN m_removed :
                       m_removed[i].removed > K /\ m_removed[i].added <= K}}
    BY <1>3, <2>1, TombstonesFound
  <2>3. Kept(v, r) = DOMAIN v \ r.removed
    BY <1>10 DEF Kept
  <2>4. ASSUME NEW t \in Kept(v, r) PROVE t \in Live /\ m_queue[t].added <= K
    <3>1. ~(m_horizon > K + 1)
      BY <2>1 DEF HistoryTypeOK
    <3>2. ~WillBeRemoved(t, K)
      BY <2>2, <2>3, <2>4, <3>1 DEF WillBeRemoved
    <3>. QED
      BY <2>3, <2>4, <3>2 DEF Droppable
  <2>5. ASSUME NEW t \in Live, m_queue[t].added <= K PROVE t \in Kept(v, r)
    <3>1. t \in DOMAIN v
      BY <2>5 DEF Current
    <3>2. \A i \in DOMAIN m_removed :
            m_removed[i].ih = t => ~(m_removed[i].removed > K)
      BY <2>5 DEF Ordered, FramesOrdered, TombstoneOrdered
    <3>. QED
      BY <2>2, <2>3, <3>1, <3>2
  <2>6. ASSUME NEW t \in Live
        PROVE  /\ t \in DOMAIN V /\ DOMAIN V[t] = Field
               /\ \A f \in Field :
                    V[t][f] = IF f = "tag" THEN m_tags[t] ELSE m_queue[t].status[f]
    <3>1. EntryOrdered(t)
      BY <1>5
    <3>2. CASE m_queue[t].added > K
      <4>1. t \in DOMAIN r.updated
        BY <1>3, <2>1, <3>1, <3>2 DEF EntryOrdered
      <4>2. \A f \in Field : Newer(m_queue[t].frame[f], K)
        BY <3>1, <3>2 DEF EntryOrdered, Newer, Unset
      <4>3. Sent(r, t, K) = Field
        BY <1>7, <4>1, <4>2
      <4>4. t \notin Kept(v, r)
        BY <2>4, <3>2
      <4>. QED
        BY <1>1, <1>4, <1>6, <4>1, <4>3, <4>4
    <3>3. CASE ~(m_queue[t].added > K)
      <4>1. t \in Kept(v, r) /\ m_queue[t].added <= K
        BY <2>5, <3>3
      <4>2. DOMAIN v[t] = Field
        BY <4>1 DEF Current
      <4>3. t \in DOMAIN V /\ DOMAIN V[t] = Field
        <5>1. t \in DOMAIN V /\ Sent(r, t, K) \subseteq Field
          BY <1>1, <1>7, <1>8, <4>1
        <5>. QED
          BY <1>1, <4>1, <4>2, <5>1
      <4>4. ASSUME NEW f \in Field
            PROVE  V[t][f] = IF f = "tag" THEN m_tags[t] ELSE m_queue[t].status[f]
        <5>1. CASE f \in Sent(r, t, K)
          BY <1>1, <1>4, <1>8, <5>1
        <5>2. CASE f \notin Sent(r, t, K)
          <6>1. m_queue[t].frame[f] <= K
            BY <1>3, <1>7, <1>10, <2>1, <3>1, <5>2 DEF EntryOrdered, Newer, Unset
          <6>2. V[t][f] = v[t][f]
            BY <1>1, <4>1, <4>2, <5>2
          <6>. QED
            BY <1>6, <4>1, <6>1, <6>2 DEF Current
        <5>. QED
          BY <5>1, <5>2
      <4>. QED
        BY <4>3, <4>4
    <3>. QED
      BY <3>2, <3>3
  <2>7. DOMAIN V = Live
    BY <1>1, <1>3, <2>4, <2>6
  <2>. QED
    BY <1>11, <2>6, <2>7
<1>. QED
  BY <1>9, <1>10

-----------------------------------------------------------------------------
(* What an event does to a copy and to what a response will make of it.    *)

\* A client at frame K that holds v was told of every torrent it may be told
\* the removal of.
KnownTo(v, K) ==
  \A i \in DOMAIN m_removed :
    m_removed[i].added <= K /\ m_removed[i].removed > K => m_removed[i].ih \in DOMAIN v

\* v and w differ at most in the tag of t.
SameButTag(v, w, t) ==
  /\ DOMAIN w = DOMAIN v
  /\ \A u \in DOMAIN v :
       /\ DOMAIN w[u] = DOMAIN v[u]
       /\ \A f \in DOMAIN v[u] : u # t \/ f # "tag" => w[u][f] = v[u][f]

\* A response is merged in the same way after a step.
LEMMA ResponseAppliedNext ==
  \A v, r, K : MergeOf(Applied(v, Serialized(r, K)), v, r, K)'
<1>1. \A v, r, K : MergeOf(Applied(v, Serialized(r, K)), v, r, K)
  BY ResponseApplied
<1>2. (\A v, r, K : MergeOf(Applied(v, Serialized(r, K)), v, r, K))'
  BY <1>1, PTL
<1>. QED
  BY <1>2

\* A response is serialized after its entries were copied: a tag set, or a
\* torrent removed, in between changes nothing but that tag.
LEMMA TagReadLate ==
  ASSUME NEW t, NEW v, NEW r, NEW q, NEW K, NEW V, NEW W,
         r.updated \in [DOMAIN r.updated -> Copy], q = r \/ q = Orphaned(r, t),
         \A u : u # t => m_tags'[u] = m_tags[u],
         V = Applied(v, Serialized(r, K)), W = Applied(v, Serialized(q, K))'
  PROVE  SameButTag(V, W, t)
<1>1. MergeOf(V, v, r, K)
  BY ResponseApplied
<1>2. MergeOf(W, v, q, K)'
  BY ResponseAppliedNext
<1>3. /\ q.snapshot = r.snapshot /\ q.removed = r.removed
      /\ DOMAIN q.updated = DOMAIN r.updated
      /\ \A u \in DOMAIN r.updated :
           /\ q.updated[u].status = r.updated[u].status
           /\ q.updated[u].frame = r.updated[u].frame
           /\ u # t => q.updated[u].handle = r.updated[u].handle
  <2>1. \A e \in Copy, b \in BOOLEAN : /\ [e EXCEPT !.handle = b].status = e.status
                                       /\ [e EXCEPT !.handle = b].frame = e.frame
                                       /\ [e EXCEPT !.handle = b].handle = b
    BY DEF Copy
  <2>2. \A e \in Copy : e.handle \in BOOLEAN
    BY DEF Copy
  <2>3. CASE q = Orphaned(r, t)
    <3>1. /\ q.snapshot = r.snapshot /\ q.removed = r.removed
          /\ DOMAIN q.updated = DOMAIN r.updated
          /\ \A u \in DOMAIN r.updated :
               q.updated[u] = [r.updated[u] EXCEPT !.handle = r.updated[u].handle /\ u # t]
      BY <2>3 DEF Orphaned
    <3>2. ASSUME NEW u \in DOMAIN r.updated
          PROVE  /\ q.updated[u].status = r.updated[u].status
                 /\ q.updated[u].frame = r.updated[u].frame
                 /\ u # t => q.updated[u].handle = r.updated[u].handle
      <4>1. PICK b \in BOOLEAN : /\ b = (r.updated[u].handle /\ u # t)
                                 /\ q.updated[u] = [r.updated[u] EXCEPT !.handle = b]
        BY <3>1, Zenon
      <4>2. u # t => b = r.updated[u].handle
        BY <2>2, <4>1
      <4>. QED
        BY <2>1, <4>1, <4>2
    <3>. QED
      BY <3>1, <3>2
  <2>. QED
    BY <2>3
<1>4. Kept(v, q) = Kept(v, r) /\ \A u : Sent(q, u, K) = Sent(r, u, K)
  BY <1>3 DEF Kept, Sent, Included
<1>5. \A u \in DOMAIN r.updated : \A f \in Sent(r, u, K) :
        u # t \/ f # "tag" => FieldValue(q, u, f)' = FieldValue(r, u, f)
  BY <1>3 DEF FieldValue
<1>6. /\ DOMAIN W = DOMAIN V
      /\ \A u \in DOMAIN V : DOMAIN W[u] = DOMAIN V[u]
  BY <1>1, <1>2, <1>3, <1>4 DEF MergeOf
<1>7. ASSUME NEW u \in DOMAIN V, NEW f \in DOMAIN V[u], u # t \/ f # "tag"
      PROVE  W[u][f] = V[u][f]
  <2>1. CASE u \in DOMAIN r.updated /\ f \in Sent(r, u, K)
    BY <1>1, <1>2, <1>3, <1>4, <1>5, <1>7, <2>1 DEF MergeOf
  <2>2. CASE f \notin Sent(r, u, K)
    BY <1>1, <1>2, <1>4, <2>2 DEF MergeOf
  <2>. QED
    BY <2>1, <2>2 DEF Sent
<1>. QED
  BY <1>6, <1>7 DEF SameButTag

Complete(v, K) == Current(v, K) /\ Droppable(v, K) /\ KnownTo(v, K)

\* An event that stamps what it changes with a frame the client has not seen
\* leaves the copy current.
LEMMA StaysCurrent ==
  ASSUME NEW K, NEW v, NEW w, NEW t, Current(v, K), SameButTag(v, w, t),
         \A u \in Live' : m_queue'[u].added <= K =>
           /\ u \in Live /\ m_queue[u].added <= K
           /\ \A f \in StatusField : m_queue'[u].frame[f] <= K =>
                m_queue[u].frame[f] <= K /\ m_queue'[u].status[f] = m_queue[u].status[f]
           /\ m_queue'[u].frame["tag"] <= K =>
                m_queue[u].frame["tag"] <= K /\ m_tags'[u] = m_tags[u] /\ (u # t \/ w = v)
  PROVE  Current(w, K)'
<1> SUFFICES ASSUME NEW u \in Live', m_queue'[u].added <= K
             PROVE  /\ u \in DOMAIN w
                    /\ DOMAIN w[u] = Field
                    /\ \A f \in StatusField :
                         m_queue'[u].frame[f] <= K => w[u][f] = m_queue'[u].status[f]
                    /\ m_queue'[u].frame["tag"] <= K => w[u]["tag"] = m_tags'[u]
  BY DEF Current
<1>1. /\ u \in DOMAIN v
      /\ DOMAIN v[u] = Field
      /\ \A f \in StatusField : m_queue[u].frame[f] <= K => v[u][f] = m_queue[u].status[f]
      /\ m_queue[u].frame["tag"] <= K => v[u]["tag"] = m_tags[u]
  BY DEF Current
<1>2. "tag" \in Field /\ \A f \in StatusField : f \in Field /\ f # "tag"
  BY DEF Field, StatusField
<1>3. /\ u \in DOMAIN w /\ DOMAIN w[u] = Field
      /\ \A f \in StatusField : w[u][f] = v[u][f]
      /\ u # t => w[u]["tag"] = v[u]["tag"]
  BY <1>1, <1>2 DEF SameButTag
<1>. HIDE DEF Live, StatusField, Field
<1>. QED
  BY <1>1, <1>3

\* An event that removes no torrent leaves what must be dropped, and what may
\* be named as removed, as it was.
LEMMA StaysDroppable ==
  ASSUME NEW K, NEW v, NEW w, Droppable(v, K), KnownTo(v, K), DOMAIN w = DOMAIN v,
         m_removed' = m_removed, m_horizon' = m_horizon,
         \A u \in Live : u \in Live' /\ m_queue'[u].added = m_queue[u].added
  PROVE  Droppable(w, K)' /\ KnownTo(w, K)'
BY DEF Droppable, KnownTo, WillBeRemoved

\* An add event leaves what the client has seen complete: the new entry is of a later frame.
LEMMA AddCompletes ==
  ASSUME HistoryTypeOK, NEW K \in Nat, K <= m_frame, NEW v, Complete(v, K),
         NEW t \in Torrent, NEW s \in Status, HandleAdd(t, s)
  PROVE  Complete(v, K)'
<1>. USE FrameTypes
<1>1. /\ m_removed' = m_removed /\ m_horizon' = m_horizon /\ m_tags' = m_tags
      /\ \A u \in Live : u \in Live' /\ m_queue'[u] = m_queue[u]
      /\ \A u \in Live' \ Live : m_queue'[u].added = NextFrame
  <2>1. CASE t \in Live
    BY <2>1 DEF HandleAdd, Live
  <2>2. CASE t \notin Live
    BY <2>2 DEF HandleAdd, Live, NewEntry
  <2>. QED
    BY <2>1, <2>2
<1>2. SameButTag(v, v, t)
  BY DEF SameButTag
<1>3. \A u \in Live' : m_queue'[u].added <= K => u \in Live
  BY <1>1
<1>. HIDE DEF Live
<1>4. Current(v, K)'
  BY <1>1, <1>2, <1>3, StaysCurrent DEF Complete
<1>. QED
  BY <1>1, <1>4, StaysDroppable DEF Complete

\* A state update stamps each field it changes with a later frame, so a copy that lacks it is not
\* behind.
LEMMA StateUpdateCompletes ==
  ASSUME HistoryTypeOK, NEW K \in Nat, K <= m_frame, NEW v, Complete(v, K),
         NEW U \in SUBSET Torrent, NEW s \in [U -> Status],
         NEW ord \in TotalOrders(U \cap Live), HandleStateUpdate(U, s, ord)
  PROVE  Complete(v, K)'
<1>. USE FrameTypes
<1>1. /\ Live' = Live
      /\ \A t \in Live : m_queue'[t] = IF t \in U THEN UpdateStatus(m_queue[t], s[t])
                                                  ELSE m_queue[t]
      /\ m_tags' = m_tags /\ m_removed' = m_removed /\ m_horizon' = m_horizon
  BY DEF HandleStateUpdate, Live
<1>2. ~(NextFrame <= K)
  OBVIOUS
<1>3. "tag" \in Field /\ \A f \in StatusField : f \in Field
  BY DEF Field
<1>. HIDE DEF Live, Field, StatusField
<1>4. ASSUME NEW t \in Live
      PROVE  /\ m_queue'[t].added = m_queue[t].added
             /\ \A f \in StatusField : m_queue'[t].frame[f] <= K =>
                  m_queue[t].frame[f] <= K /\ m_queue'[t].status[f] = m_queue[t].status[f]
             /\ m_queue'[t].frame["tag"] <= K => m_queue[t].frame["tag"] <= K
  <2>1. CASE t \in U
    BY <1>1, <1>2, <1>3, <2>1, UpdateStatusFrames
  <2>2. CASE t \notin U
    BY <1>1, <2>2
  <2>. QED
    BY <2>1, <2>2
<1>5. PICK t : SameButTag(v, v, t)
  BY DEF SameButTag
<1>6. Current(v, K)'
  BY <1>1, <1>4, <1>5, StaysCurrent DEF Complete
<1>. QED
  BY <1>1, <1>4, <1>6, StaysDroppable DEF Complete

\* A change of tag stamps the tag field with a later frame; the copy may have the new tag already.
LEMMA SetTagCompletes ==
  ASSUME HistoryTypeOK, NEW K \in Nat, K <= m_frame, NEW v, NEW w, Complete(v, K),
         NEW t \in Torrent, NEW value \in Tag, NEW mask \in Tag, SetTag(t, value, mask),
         SameButTag(v, w, t)
  PROVE  Complete(w, K)'
<1>. USE FrameTypes
<1>1. /\ Live' = Live /\ t \in Live
      /\ m_queue'[t] = Retagged(m_queue[t])
      /\ \A u \in Live \ {t} : m_queue'[u] = m_queue[u] /\ m_tags'[u] = m_tags[u]
      /\ m_removed' = m_removed /\ m_horizon' = m_horizon
  BY DEF SetTag, Live, HistoryTypeOK
<1>2. ~(NextFrame <= K)
  OBVIOUS
<1>. HIDE DEF Live
<1>3. ASSUME NEW u \in Live
      PROVE  /\ m_queue'[u].added = m_queue[u].added
             /\ \A f \in StatusField : m_queue'[u].frame[f] <= K =>
                  m_queue[u].frame[f] <= K /\ m_queue'[u].status[f] = m_queue[u].status[f]
             /\ m_queue'[u].frame["tag"] <= K =>
                  m_queue[u].frame["tag"] <= K /\ m_tags'[u] = m_tags[u] /\ u # t
  <2>1. CASE u = t
    BY <1>1, <1>2, <2>1, RetaggedFrames
  <2>2. CASE u # t
    BY <1>1, <2>2
  <2>. QED
    BY <2>1, <2>2
<1>4. Current(w, K)'
  BY <1>1, <1>3, StaysCurrent DEF Complete
<1>. QED
  BY <1>1, <1>3, <1>4, StaysDroppable DEF Complete, SameButTag

\* The tombstone of a torrent names it to the clients that have it; when it or
\* an older one is evicted, the horizon says who has to start over.
LEMMA RemovedCompletes ==
  ASSUME HistoryTypeOK, Ordered, NEW K \in Nat, K <= m_frame, NEW v, NEW w, Complete(v, K),
         NEW t \in Torrent, HandleRemoved(t), SameButTag(v, w, t)
  PROVE  Complete(w, K)'
<1>. USE FrameTypes
<1>. DEFINE tomb == TombstoneOf(t)
<1>1. /\ Live' = Live \ {t}
      /\ \A u \in Live' : m_queue'[u] = m_queue[u] /\ m_tags'[u] = m_tags[u]
  BY DEF HandleRemoved, Live, HistoryTypeOK
<1>2. tomb \in Tombstone /\ RecordRemoval(tomb)
  BY TombstoneOfType DEF HandleRemoved
<1>3. /\ tomb.removed = NextFrame /\ tomb.ih = t
      /\ tomb.added = IF t \in Live THEN m_queue[t].added ELSE NextFrame
  BY DEF TombstoneOf
<1>. HIDE DEF tomb, Live
<1>4. /\ m_removed' \in Seq(Tombstone)
      /\ \A i \in DOMAIN m_removed' :
           m_removed'[i] = IF i = 1 THEN tomb ELSE m_removed[i - 1]
      /\ \A i \in DOMAIN m_removed' : i # 1 => i - 1 \in DOMAIN m_removed
      /\ \A i \in DOMAIN m_removed :
           i + 1 \in DOMAIN m_removed' \/ m_horizon' >= m_removed[i].removed + 1
      /\ 1 \in DOMAIN m_removed' \/ m_horizon' >= tomb.removed + 1
      /\ m_horizon' \in Nat /\ m_horizon' >= m_horizon
  BY <1>2, RemovalRecorded DEF HistoryTypeOK
<1>5. m_horizon \in Nat /\ DOMAIN m_removed \subseteq Nat \ {0}
  BY DEF HistoryTypeOK
<1>6. DOMAIN w = DOMAIN v
  BY DEF SameButTag
<1>7. Current(w, K)'
  BY <1>1, StaysCurrent DEF Complete
<1>8. \A u : WillBeRemoved(u, K) => WillBeRemoved(u, K)'
  <2> SUFFICES ASSUME NEW u, WillBeRemoved(u, K) PROVE WillBeRemoved(u, K)'
    OBVIOUS
  <2>1. CASE m_horizon > K + 1
    BY <1>4, <1>5, <2>1 DEF WillBeRemoved
  <2>2. ASSUME NEW i \in DOMAIN m_removed, m_removed[i].ih = u,
               m_removed[i].removed > K, m_removed[i].added <= K
        PROVE  WillBeRemoved(u, K)'
    <3>1. CASE i + 1 \in DOMAIN m_removed'
      <4>1. m_removed'[i + 1] = m_removed[i]
        BY <1>4, <1>5, <3>1
      <4>. QED
        BY <2>2, <3>1, <4>1 DEF WillBeRemoved
    <3>2. CASE m_horizon' >= m_removed[i].removed + 1
      BY <1>4, <2>2, <3>2 DEF WillBeRemoved
    <3>. QED
      BY <1>4, <3>1, <3>2
  <2>. QED
    BY <2>1, <2>2 DEF WillBeRemoved
<1>9. t \in Live /\ m_queue[t].added <= K => WillBeRemoved(t, K)'
  <2> SUFFICES ASSUME t \in Live, m_queue[t].added <= K PROVE WillBeRemoved(t, K)'
    OBVIOUS
  <2>1. tomb.removed > K /\ tomb.added <= K
    BY <1>3
  <2>2. CASE 1 \in DOMAIN m_removed'
    BY <1>3, <1>4, <2>1, <2>2 DEF WillBeRemoved
  <2>3. CASE m_horizon' >= tomb.removed + 1
    BY <1>3, <1>4, <2>1, <2>3 DEF WillBeRemoved
  <2>. QED
    BY <1>4, <2>2, <2>3
<1>10. Droppable(w, K)'
  BY <1>1, <1>6, <1>8, <1>9 DEF Complete, Droppable
<1>11. KnownTo(w, K)'
  <2> SUFFICES ASSUME NEW i \in DOMAIN m_removed',
                      m_removed'[i].added <= K, m_removed'[i].removed > K
               PROVE  m_removed'[i].ih \in DOMAIN v
    BY <1>6 DEF KnownTo
  <2>1. CASE i = 1
    <3>1. t \in Live /\ m_queue[t].added <= K
      BY <1>3, <1>4, <2>1
    <3>. QED
      BY <1>3, <1>4, <2>1, <3>1 DEF Complete, Current
  <2>2. CASE i # 1
    BY <1>4, <2>2 DEF Complete, KnownTo
  <2>. QED
    BY <2>1, <2>2
<1>. QED
  BY <1>7, <1>10, <1>11 DEF Complete
=============================================================================
