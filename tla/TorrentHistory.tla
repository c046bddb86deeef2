--------------------------- MODULE TorrentHistory ---------------------------
(***************************************************************************)
(* torrent_history: the list of torrents the web interface shows, kept     *)
(* from libtorrent's alerts and stamped with frame numbers, so that a      *)
(* client holding the list as of frame K can be sent what changed since.   *)
(*                                                                         *)
(* Every handler runs under m_mutex and is one action.  This module has no *)
(* next-state relation of its own: TorrentSync and TorrentFilter compose   *)
(* it with the clients that poll it.                                       *)
(***************************************************************************)
EXTENDS Integers, Sequences, FiniteSets

CONSTANTS
  Torrent,        \* info-hashes
  Bits,           \* values of status_bits(): sets of status bits, {} is "0"
  Other,          \* values of everything in torrent_status no filter looks at
  TagBit,         \* bits of the application-defined tag
  MaxTombstones,  \* m_max_tombstones
  MaxFrame        \* bound: no alert and no set_tag once m_frame reaches it

ASSUME HistoryAssumption ==
  /\ MaxTombstones \in Nat
  /\ MaxFrame \in Nat
  /\ {} \in Bits

VARIABLES
  m_queue,    \* the torrents of m_queue, by info-hash
  m_order,    \* the list order of m_queue.left: <<u, t>> when u precedes t
  m_tags,     \* tag of each torrent; {} is the absent entry
  m_removed,  \* tombstones, newest first
  m_frame,    \* the frame counter
  m_deferred_frame_count, \* events are stamped m_frame + 1, not yet counted
  m_horizon   \* deltas from before this frame lack evicted tombstones

historyVars == <<m_queue, m_order, m_tags, m_removed, m_frame,
                 m_deferred_frame_count, m_horizon>>

\* The ~frame_t{0} a new entry has in frame[tag]: newer than every frame.
Unset == -1
Newer(f, K) == f = Unset \/ f > K

StatusField == {"bits", "other"}
Field       == StatusField \cup {"tag"}
Status      == [bits: Bits, other: Other]
Tag         == SUBSET TagBit

Entry == [status: Status,
          frame: [Field -> Nat \cup {Unset}], \* when each field last changed
          last: Nat,                          \* its frame in m_queue.left
          added: Nat]                         \* added_frame

Tombstone == [removed: Nat, added: Nat, ih: Torrent, bits: Bits, tag: Tag]

Live      == DOMAIN m_queue
NextFrame == m_frame + 1

HistoryTypeOK ==
  /\ Live \subseteq Torrent
  /\ m_queue \in [Live -> Entry]
  /\ m_order \subseteq Live \X Live
  /\ m_tags \in [Torrent -> Tag]
  /\ m_removed \in Seq(Tombstone)
  /\ Len(m_removed) <= MaxTombstones
  /\ m_frame \in Nat
  /\ m_deferred_frame_count \in BOOLEAN
  /\ m_horizon \in Nat

HistoryInit ==
  /\ m_queue = [t \in {} |-> {}]
  /\ m_order = {}
  /\ m_tags = [t \in Torrent |-> {}]
  /\ m_removed = <<>>
  /\ m_frame = 1
  /\ m_deferred_frame_count = FALSE
  /\ m_horizon = 0

-----------------------------------------------------------------------------
(* The alerts, and set_tag.                                                *)

NewEntry(s) ==
  [status |-> s,
   frame  |-> [f \in Field |-> IF f = "tag" THEN Unset ELSE NextFrame],
   last   |-> NextFrame,
   added  |-> NextFrame]

\* Mutant: push_back instead of push_front.
MoveToFront_back(U, ord) ==
  {p \in m_order : p[1] \notin U /\ p[2] \notin U} \cup ((Live \ U) \X U) \cup ord

\* The list without the torrents of U, then U in front of it ordered by ord.
MoveToFront(U, ord) ==
  {p \in m_order : p[1] \notin U /\ p[2] \notin U} \cup (U \X (Live \ U)) \cup ord

\* The strict total orders on S: the order an alert lists its torrents in.
TotalOrders(S) ==
  {r \in SUBSET (S \X S) :
     /\ \A t \in S : <<t, t>> \notin r
     /\ \A t, u \in S : t # u => (<<t, u>> \in r) # (<<u, t>> \in r)
     /\ \A t, u, w \in S : <<t, u>> \in r /\ <<u, w>> \in r => <<t, w>> \in r}

\* add_torrent_alert.  Adding a torrent the session already has posts the
\* alert again: the bimap refuses the duplicate key and keeps the old entry.
HandleAdd(t, s) ==
  /\ m_frame < MaxFrame
  /\ \/ /\ t \notin Live
        /\ m_queue' = [u \in Live \cup {t} |-> IF u = t THEN NewEntry(s) ELSE m_queue[u]]
        /\ m_order' = MoveToFront({t}, {})
     \/ /\ t \in Live
        /\ UNCHANGED <<m_queue, m_order>>
  /\ m_deferred_frame_count' = TRUE
  /\ UNCHANGED <<m_tags, m_removed, m_frame, m_horizon>>

\* The tombstone of t: the filter inputs are those of the moment of removal.
\* A torrent whose add was never recorded counts as added just now.
TombstoneOf(t) ==
  [removed |-> NextFrame,
   added   |-> IF t \in Live THEN m_queue[t].added ELSE NextFrame,
   ih      |-> t,
   bits    |-> IF t \in Live THEN m_queue[t].status.bits ELSE {},
   tag     |-> m_tags[t]]

\* Mutants: no eviction; an eviction that leaves the horizon where it is.
RecordRemoval_unbounded(tomb) ==
  m_removed' = <<tomb>> \o m_removed /\ UNCHANGED m_horizon
RecordRemoval_forgetful(tomb) ==
  LET all == <<tomb>> \o m_removed IN
  /\ m_removed' = IF Len(all) <= MaxTombstones THEN all ELSE SubSeq(all, 1, MaxTombstones)
  /\ UNCHANGED m_horizon

\* push_front, then the oldest tombstone goes when there are too many.
RecordRemoval(tomb) ==
  LET all == <<tomb>> \o m_removed IN
  IF Len(all) <= MaxTombstones
  THEN /\ m_removed' = all
       /\ UNCHANGED m_horizon
  ELSE /\ m_removed' = SubSeq(all, 1, MaxTombstones)
       /\ m_horizon' = IF all[Len(all)].removed + 1 > m_horizon
                       THEN all[Len(all)].removed + 1 ELSE m_horizon

\* torrent_removed_alert
HandleRemoved(t) ==
  /\ m_frame < MaxFrame
  /\ RecordRemoval(TombstoneOf(t))
  /\ m_tags' = [m_tags EXCEPT ![t] = {}]
  /\ m_queue' = [u \in Live \ {t} |-> m_queue[u]]
  /\ m_order' = {p \in m_order : p[1] # t /\ p[2] # t}
  /\ m_deferred_frame_count' = TRUE
  /\ UNCHANGED m_frame

\* Mutant: changed fields are stamped with the frame before ++m_frame.
UpdateStatus_late(e, s) ==
  [status |-> s,
   frame  |-> [f \in Field |-> IF f \in StatusField /\ s[f] # e.status[f]
                               THEN m_frame ELSE e.frame[f]],
   last   |-> NextFrame, added |-> e.added]

\* torrent_history_entry::update_status, and the list's frame of the entry
UpdateStatus(e, s) ==
  [status |-> s,
   frame  |-> [f \in Field |-> IF f \in StatusField /\ s[f] # e.status[f]
                               THEN NextFrame ELSE e.frame[f]],
   last   |-> NextFrame,
   added  |-> e.added]

\* state_update_alert: the status of the torrents of U, listed in the order
\* that leaves them as ord.  Torrents the history does not know are skipped.
HandleStateUpdate(U, s, ord) ==
  /\ m_frame < MaxFrame
  /\ m_queue' = [t \in Live |-> IF t \in U THEN UpdateStatus(m_queue[t], s[t]) ELSE m_queue[t]]
  /\ m_order' = MoveToFront(U \cap Live, ord)
  /\ m_frame' = NextFrame
  /\ m_deferred_frame_count' = FALSE
  /\ UNCHANGED <<m_tags, m_removed, m_horizon>>

Retagged(e) ==
  [status |-> e.status,
   frame  |-> [f \in Field |-> IF f = "tag" THEN NextFrame ELSE e.frame[f]],
   last   |-> NextFrame,
   added  |-> e.added]

\* set_tag(ih, value, mask), when it changes the tag or is the first delivery
SetTag(t, value, mask) ==
  LET tag == (m_tags[t] \ mask) \cup (value \cap mask) IN
  /\ m_frame < MaxFrame
  /\ mask # {}
  /\ t \in Live
  /\ tag # m_tags[t] \/ m_queue[t].frame["tag"] = Unset
  /\ m_tags' = [m_tags EXCEPT ![t] = tag]
  /\ m_queue' = [m_queue EXCEPT ![t] = Retagged(m_queue[t])]
  /\ m_order' = MoveToFront({t}, {})
  /\ m_deferred_frame_count' = TRUE
  /\ UNCHANGED <<m_removed, m_frame, m_horizon>>

-----------------------------------------------------------------------------
(* The queries.  current_frame_locked() consumes the deferred slot.        *)

CurrentFrame == IF m_deferred_frame_count THEN NextFrame ELSE m_frame

CurrentFrameLocked ==
  /\ m_frame' = CurrentFrame
  /\ m_deferred_frame_count' = FALSE
  /\ UNCHANGED <<m_queue, m_order, m_tags, m_removed, m_horizon>>

\* A frame from before the horizon asks for a snapshot.
Promoted(K) == IF K < m_horizon THEN 0 ELSE K

\* What the scan of m_queue.left from its head reaches before it breaks.
ScannedSince(K) ==
  {t \in Live : m_queue[t].last > K /\ \A u \in Live : <<u, t>> \in m_order => m_queue[u].last > K}

\* A filter is [mask, value, tags]; {} disables an axis.
NoFilter == [mask |-> {}, value |-> {}, tags |-> {}]
IsEmpty(f) == f.mask = {} /\ f.tags = {}

Matched(f, bits, tag) ==
  /\ f.mask = {} \/ bits \cap f.mask = f.value \cap f.mask
  /\ f.tags = {} \/ tag \cap f.tags # {}

\* Mutant: removals of torrents the client never heard of are not left out.
RemovedSince_all(K, f) ==
  IF K = 0 THEN {}
  ELSE {m_removed[i].ih : i \in
         {i \in DOMAIN m_removed :
            /\ \A j \in 1 .. i : m_removed[j].removed > K
            /\ Matched(f, m_removed[i].bits, m_removed[i].tag)}}

\* append_removed: tombstones down to the first one the client has seen.
RemovedSince(K, f) ==
  IF K = 0 THEN {}
  ELSE {m_removed[i].ih : i \in
         {i \in DOMAIN m_removed :
            /\ \A j \in 1 .. i : m_removed[j].removed > K
            /\ m_removed[i].added <= K
            /\ Matched(f, m_removed[i].bits, m_removed[i].tag)}}

\* query(K): the entries are copies.  handle says whether the torrent_handle
\* in the copy still names a torrent; every copy starts out with a live one.
Copies(S) == [t \in S |-> [status |-> m_queue[t].status, frame |-> m_queue[t].frame,
                           handle |-> TRUE]]

\* A copied entry.
Copy == [status: Status, frame: [Field -> Nat \cup {Unset}], handle: BOOLEAN]

Query(K) ==
  [frame    |-> CurrentFrame,
   snapshot |-> Promoted(K) = 0,
   updated  |-> Copies(ScannedSince(Promoted(K))),
   removed  |-> RemovedSince(Promoted(K), NoFilter)]

\* filter_inputs_stable_since: the old filter can be judged by the values of
\* now.  A tag no one set counts as stable.  Mutant: the tag is not looked at.
StableSince_untagged(e, K) == e.frame["bits"] <= K
StableSince(e, K) == e.frame["bits"] <= K /\ e.frame["tag"] <= K

\* The scan may stop at what the client has seen only while the filter stays
\* the same.  Mutant: it always does.
Scanned_short(K, fold, fnew) == ScannedSince(K)
Scanned(K, fold, fnew) == IF fold = fnew THEN ScannedSince(K) ELSE Live

\* A copy with every field changed since K.
Refreshed(e, K) == [e EXCEPT !.frame = [f \in Field |-> K + 1]]

\* query_filtered(K, fold, fnew): sure(t) is inputs_certain
QueryFiltered(K, fold, fnew) ==
  LET since      == Promoted(K)
      scanned    == Scanned(since, fold, fnew)
      now(t)     == Matched(fnew, m_queue[t].status.bits, m_tags[t])
      sure(t)    == IsEmpty(fold) \/ StableSince(m_queue[t], since)
      then(t)    == since # 0 /\ sure(t) /\ Matched(fold, m_queue[t].status.bits, m_tags[t])
      left(t)    == ~now(t) /\ since # 0 /\ m_queue[t].added <= since /\ (then(t) \/ ~sure(t))
      copies     == Copies({t \in scanned : now(t)})
  IN IF IsEmpty(fold) /\ IsEmpty(fnew) THEN Query(K)
     ELSE [frame    |-> CurrentFrame,
           snapshot |-> since = 0,
           updated  |-> [t \in DOMAIN copies |->
                           IF then(t) THEN copies[t] ELSE Refreshed(copies[t], since)],
           removed  |-> {t \in scanned : left(t)} \cup RemovedSince(since, fold)]

-----------------------------------------------------------------------------
(* What the scans with an early break rest on.                             *)

\* The frames of an entry lie between the one it was added in and the one it
\* has in the list, which no event has passed yet; a tag no one set is zero.
EntryOrdered(t) ==
  /\ 1 <= m_queue[t].added
  /\ m_queue[t].added <= m_queue[t].last
  /\ m_queue[t].last <= CurrentFrame
  /\ \A f \in Field :
       \/ /\ m_queue[t].added <= m_queue[t].frame[f]
          /\ m_queue[t].frame[f] <= m_queue[t].last
       \/ f = "tag" /\ m_queue[t].frame[f] = Unset /\ m_tags[t] = {}

\* A torrent was not added before any of its tombstones.
TombstoneOrdered(i) ==
  /\ 1 <= m_removed[i].removed
  /\ m_removed[i].removed <= CurrentFrame
  /\ m_removed[i].ih \in Live => m_removed[i].removed <= m_queue[m_removed[i].ih].added

FramesOrdered ==
  /\ m_frame >= 1
  /\ \A t \in Live : EntryOrdered(t)
  /\ \A t \in Torrent \ Live : m_tags[t] = {}
  /\ \A i \in DOMAIN m_removed : TombstoneOrdered(i)
  /\ m_horizon <= CurrentFrame + 1

\* m_queue.left is ordered newest-first, so query() may stop at the first
\* entry the client has seen: nothing behind it is newer.
NewestFirst ==
  /\ \A t, u \in Live : t # u => <<t, u>> \in m_order \/ <<u, t>> \in m_order
  /\ \A p \in m_order : m_queue[p[1]].last >= m_queue[p[2]].last
  /\ \A i, j \in DOMAIN m_removed : i < j => m_removed[i].removed >= m_removed[j].removed

-----------------------------------------------------------------------------
(* The serializer of get_torrent_updates, and what a client makes of it.   *)

\* The fields of a copied entry sent to a client at frame K.  A torrent none
\* of whose fields is sent is left out of the response.
Included(r, t, K) ==
  {f \in Field : r.snapshot \/ Newer(r.updated[t].frame[f], K)}

\* The tag is read through get_tag() while serializing, not under the lock
\* the entry was copied under; a dead handle has none.
FieldValue(r, t, f) ==
  IF f # "tag" THEN r.updated[t].status[f]
  ELSE IF r.updated[t].handle THEN m_tags[t] ELSE {}

Serialized(r, K) ==
  [frame    |-> r.frame,
   snapshot |-> r.snapshot,
   updates  |-> [t \in {t \in DOMAIN r.updated : Included(r, t, K) # {}} |->
                   [f \in Included(r, t, K) |-> FieldValue(r, t, f)]],
   removed  |-> r.removed]

\* A function, and not another value that can be applied.
IsFcn(f) == f = [x \in DOMAIN f |-> f[x]]

\* A view maps torrents to the fields the client has seen of them.
NoTorrents == [t \in {} |-> {}]
NoFields   == [f \in {} |-> {}]

\* Mutant: the updates are merged in first and then the removed dropped.
Applied_updates_first(view, msg) ==
  LET kept == IF msg.snapshot THEN {} ELSE DOMAIN view \ msg.removed
      new  == DOMAIN msg.updates \ msg.removed
  IN [t \in kept \cup new |->
        [f \in (IF t \in kept THEN DOMAIN view[t] ELSE {})
               \cup (IF t \in new THEN DOMAIN msg.updates[t] ELSE {}) |->
           IF t \in new /\ f \in DOMAIN msg.updates[t] THEN msg.updates[t][f] ELSE view[t][f]]]

\* The client drops the removed torrents (all of them on a snapshot) and
\* then merges the updates in.
Applied(view, msg) ==
  LET kept == IF msg.snapshot THEN {} ELSE DOMAIN view \ msg.removed
      old(t) == IF t \in kept THEN view[t] ELSE NoFields
      new(t) == IF t \in DOMAIN msg.updates THEN msg.updates[t] ELSE NoFields
  IN [t \in kept \cup DOMAIN msg.updates |->
        [f \in DOMAIN old(t) \cup DOMAIN new(t) |->
           IF f \in DOMAIN new(t) THEN new(t)[f] ELSE old(t)[f]]]

\* The handles a pending response holds die with their torrent.
Orphaned(r, t) ==
  [frame    |-> r.frame,
   snapshot |-> r.snapshot,
   updated  |-> [u \in DOMAIN r.updated |->
                   [r.updated[u] EXCEPT !.handle = @ /\ u # t]],
   removed  |-> r.removed]

\* The list as a client that has seen everything would hold it.
LiveList ==
  [t \in Live |-> [f \in Field |-> IF f = "tag" THEN m_tags[t] ELSE m_queue[t].status[f]]]
-----------------------------------------------------------------------------
(* What the protocol promises a client.                                    *)

\* A copy v of the list as of frame K that the next delta from K completes:
\* it has every torrent added by then, with the current value of each field
\* not changed since, and a torrent it should drop has a tombstone the next
\* delta includes, or the next delta is a snapshot.
Current(v, K) ==
  \A t \in Live : m_queue[t].added <= K =>
    /\ t \in DOMAIN v
    /\ DOMAIN v[t] = Field
    /\ \A f \in StatusField : m_queue[t].frame[f] <= K => v[t][f] = m_queue[t].status[f]
    /\ m_queue[t].frame["tag"] <= K => v[t]["tag"] = m_tags[t]

WillBeRemoved(t, K) ==
  \/ \E i \in DOMAIN m_removed :
       m_removed[i].ih = t /\ m_removed[i].removed > K /\ m_removed[i].added <= K
  \/ m_horizon > K + 1

Droppable(v, K) ==
  \A t \in DOMAIN v : (t \in Live /\ m_queue[t].added <= K) \/ WillBeRemoved(t, K)
=============================================================================
