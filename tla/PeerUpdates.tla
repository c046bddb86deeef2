----------------------------- MODULE PeerUpdates -----------------------------
(***************************************************************************)
(* get-peers-updates: which peers of a torrent came, changed and went      *)
(* since the frame a client has, and the page that shows them.             *)
(*                                                                         *)
(* The call fetches the peers before it takes m_peer_mutex, so the calls   *)
(* of two clients may feed the history in another order than they fetched. *)
(* The twenty fields of a peer are a few; a peer is its 32 bit identifier, *)
(* which the page keeps as a number of its own.                            *)
(***************************************************************************)
EXTENDS HistoryCache

CONSTANTS
  IdBits,        \* the width of an identifier: 32
  Peer,          \* the identifiers of the peers
  PeerField,     \* the fields of a peer
  PeerMask,      \* the fields each client asks for
  MaxConnects,   \* bounds on how often each peer connects
  MaxPeerChanges \* bounds how often a field of a connected peer changes

ASSUME PeerUpdatesAssumption ==
  /\ IdBits \in Nat \ {0}
  /\ Peer \subseteq 0 .. 2 ^ IdBits - 1
  /\ PeerMask \in [Client -> SUBSET PeerField]
  /\ MaxConnects \in [Peer -> Nat]
  /\ MaxPeerChanges \in Nat

VARIABLES
  peers,             \* libtorrent: the fields of the peers with a connection
  connects,          \* how often each peer connected
  peerChanges,       \* how often a field changed
  fetchedPeers,      \* what the call of each client fetched, while it waits for the mutex
  m_peer_histories,  \* the cache, the torrent used last first
  comings,           \* how often each peer was new to a history of the torrent
  rows               \* the rows of the page of each client

peerSource == <<peers, connects, peerChanges>>
peerOwn == <<peerSource, fetchedPeers, m_peer_histories, comings, rows>>
peerVars == <<peerOwn, pollVars>>

Values == {0, 1}
NoOne == [p \in {} |-> 0]
NoFetch == [ih |-> "none"]

\* pid_str | 0: a number of 32 bits, with a sign.
RowKey(p) == IF p < 2 ^ (IdBits - 1) THEN p ELSE p - 2 ^ IdBits

IsPeers(ps) == DOMAIN ps \subseteq Peer /\ \A p \in DOMAIN ps : ps[p] \in [PeerField -> Values]
PeerEntry == [added_frame: Nat, info: [PeerField -> Values], frame: [PeerField -> Nat]]

IsPeerHistory(h) ==
  /\ h.m_frame \in Nat /\ h.m_horizon \in Nat
  /\ DOMAIN h.m_peers \subseteq Peer /\ \A p \in DOMAIN h.m_peers : h.m_peers[p] \in PeerEntry
  /\ h.m_removed \in Seq([removed_frame: Nat, added_frame: Nat, id: Peer])
  /\ Len(h.m_removed) <= MaxTombstones

PeerTypeOK ==
  /\ PollTypeOK
  /\ \A t \in Torrent : IsPeers(peers[t])
  /\ connects \in [Torrent -> [Peer -> Nat]] /\ comings \in [Torrent -> [Peer -> Nat]]
  /\ \A c \in Client : fetchedPeers[c] = NoFetch \/
       (fetchedPeers[c].ih \in Torrent /\ IsPeers(fetchedPeers[c].peers))
  /\ IsCache(m_peer_histories)
  /\ \A i \in DOMAIN m_peer_histories : IsPeerHistory(m_peer_histories[i])
  /\ \A c \in Client, t \in Torrent :
       DOMAIN rows[c][t] \subseteq {RowKey(p) : p \in Peer}

PeerInit ==
  /\ PollInit
  /\ peers = [t \in Torrent |-> NoOne]
  /\ connects = [t \in Torrent |-> [p \in Peer |-> 0]]
  /\ peerChanges = 0
  /\ fetchedPeers = [c \in Client |-> NoFetch]
  /\ m_peer_histories = <<>>
  /\ comings = [t \in Torrent |-> [p \in Peer |-> 0]]
  /\ rows = [c \in Client |-> [t \in Torrent |-> NoOne]]

-----------------------------------------------------------------------------
(* peer_history                                                            *)

NewPeerHistory(t) ==
  [m_ih |-> t, m_frame |-> 0, m_horizon |-> 0, m_peers |-> NoOne, m_removed |-> <<>>]

\* A peer that is new is stamped whole, another one where it changed.
PeerEntries(h, now, f) ==
  [p \in DOMAIN now |->
     IF p \notin DOMAIN h.m_peers
     THEN [added_frame |-> f, info |-> now[p], frame |-> [x \in PeerField |-> f]]
     ELSE [h.m_peers[p] EXCEPT
             !.info = now[p],
             !.frame = [x \in PeerField |-> IF now[p][x] = h.m_peers[p].info[x] THEN @[x] ELSE f]]]

\* The tombstones of the peers that left, in front, without those of the peers
\* that came.
PeersBuried(h, now, f) ==
  LET gone == Reverse(Ascending(DOMAIN h.m_peers \ DOMAIN now))
      stones == [i \in DOMAIN gone |->
                   [removed_frame |-> f, added_frame |-> h.m_peers[gone[i]].added_frame, id |-> gone[i]]]
                \o h.m_removed
  IN  Picked(stones, {i \in DOMAIN stones : stones[i].id \notin DOMAIN now \ DOMAIN h.m_peers})

\* The oldest ones go, and the horizon moves past them.  Mutant: the horizon
\* stays.
PeersForgotten_silently(h, stones) ==
  [m_removed |-> SubSeq(stones, 1, Min({MaxTombstones, Len(stones)})),
   m_horizon |-> h.m_horizon]
PeersForgotten(h, stones) ==
  [m_removed |-> SubSeq(stones, 1, Min({MaxTombstones, Len(stones)})),
   m_horizon |-> Max({h.m_horizon} \cup
     {stones[i].removed_frame + 1 : i \in {j \in DOMAIN stones : j > MaxTombstones}})]

PeerUpdate(h, now) ==
  LET f == h.m_frame + 1
      kept == PeersForgotten(h, PeersBuried(h, now, f))
  IN  [h EXCEPT !.m_frame = f, !.m_peers = PeerEntries(h, now, f),
                !.m_removed = kept.m_removed, !.m_horizon = kept.m_horizon]

\* The fields to send of an entry.
PeerFields(e, since, mask) ==
  IF e.added_frame > since THEN mask ELSE {x \in mask : e.frame[x] > since}

\* Peers the client has seen before they left.
PeersRemoved(h, since) ==
  {h.m_removed[i].id : i \in {j \in DOMAIN h.m_removed :
     /\ \A k \in 1 .. j : h.m_removed[k].removed_frame > since
     /\ h.m_removed[j].added_frame <= since}}

PeerQuery(h, client_frame, mask) ==
  LET since == IF client_frame < h.m_horizon THEN 0 ELSE client_frame
      sent == [p \in DOMAIN h.m_peers |-> PeerFields(h.m_peers[p], since, mask)]
      updated == {p \in DOMAIN h.m_peers :
                    since = 0 \/ h.m_peers[p].added_frame > since \/ sent[p] # {}}
  IN  [frame |-> h.m_frame,
       snapshot |-> since = 0,
       updates |-> [p \in updated |-> [x \in sent[p] |-> h.m_peers[p].info[x]]],
       removed |-> IF since = 0 THEN {} ELSE PeersRemoved(h, since)]

-----------------------------------------------------------------------------
(* The page.                                                               *)

\* The updates make or change rows, the removed ones are looked up as they
\* are; a snapshot starts from an empty table.
RowsApplied(table, r) ==
  LET old == IF r.snapshot THEN NoOne ELSE table
      updated == {RowKey(p) : p \in DOMAIN r.updates}
      Row(k) == IF k \in DOMAIN old THEN old[k] ELSE NoOne
      Sent(k) == r.updates[CHOOSE p \in DOMAIN r.updates : RowKey(p) = k]
      Cells(k) == IF k \in updated
                  THEN [x \in DOMAIN Row(k) \cup DOMAIN Sent(k) |->
                          IF x \in DOMAIN Sent(k) THEN Sent(k)[x] ELSE Row(k)[x]]
                  ELSE Row(k)
  IN  [k \in (DOMAIN old \cup updated) \ r.removed |-> Cells(k)]

-----------------------------------------------------------------------------
(* libtorrent.  A peer is in the list once its handshake is done.          *)

PeerConnects(t, p) ==
  /\ p \notin DOMAIN peers[t] /\ connects[t][p] < MaxConnects[p]
  /\ peers' = [peers EXCEPT ![t] = [q \in DOMAIN @ \cup {p} |->
                                      IF q = p THEN [x \in PeerField |-> 0] ELSE @[q]]]
  /\ connects' = [connects EXCEPT ![t][p] = @ + 1]
  /\ UNCHANGED <<peerChanges, fetchedPeers, m_peer_histories, comings, rows, pollVars>>

PeerChanges(t, p, x) ==
  /\ p \in DOMAIN peers[t] /\ peerChanges < MaxPeerChanges
  /\ peers' = [peers EXCEPT ![t][p][x] = 1 - @]
  /\ peerChanges' = peerChanges + 1
  /\ UNCHANGED <<connects, fetchedPeers, m_peer_histories, comings, rows, pollVars>>

PeerDisconnects(t, p) ==
  /\ p \in DOMAIN peers[t]
  /\ peers' = [peers EXCEPT ![t] = [q \in DOMAIN @ \ {p} |-> @[q]]]
  /\ UNCHANGED <<connects, peerChanges, fetchedPeers, m_peer_histories, comings, rows, pollVars>>

-----------------------------------------------------------------------------
(* get_peers_updates                                                       *)

\* The call fetches the peers.
FetchPeers(c, t) ==
  /\ fetchedPeers[c] = NoFetch
  /\ polls[t] + Cardinality({d \in Client : fetchedPeers[d].ih = t}) < MaxPolls[t]
  /\ fetchedPeers' = [fetchedPeers EXCEPT ![c] = [ih |-> t, peers |-> peers[t]]]
  /\ UNCHANGED <<peerSource, m_peer_histories, comings, rows, pollVars>>

\* It feeds them to the history and answers.
AnswerPeers(c, t) ==
  /\ fetchedPeers[c] # NoFetch /\ fetchedPeers[c].ih = t
  /\ LET old == HistoryOf(m_peer_histories, t, NewPeerHistory(t))
         h == PeerUpdate(old, fetchedPeers[c].peers)
         r == PeerQuery(h, frame[c][t], PeerMask[c])
     IN  /\ Answered(m_peer_histories, c, t, r.frame, r.snapshot)
         /\ m_peer_histories' = Used(m_peer_histories, h)
         /\ comings' = [comings EXCEPT ![t] = [p \in Peer |->
              IF p \in DOMAIN h.m_peers \ DOMAIN old.m_peers THEN @[p] + 1 ELSE @[p]]]
         /\ rows' = [rows EXCEPT ![c][t] = RowsApplied(@, r)]
  /\ fetchedPeers' = [fetchedPeers EXCEPT ![c] = NoFetch]
  /\ UNCHANGED peerSource

PeerNext ==
  \/ \E t \in Active, p \in Peer :
       \/ PeerConnects(t, p) \/ PeerDisconnects(t, p)
       \/ \E x \in PeerField : PeerChanges(t, p, x)
  \/ \E c \in Client, t \in Torrent : FetchPeers(c, t) \/ AnswerPeers(c, t)

-----------------------------------------------------------------------------

\* After an answer, a client whose last snapshot is of the history that gave it
\* shows each peer the call fetched, with the values it fetched of the fields
\* the client asks for, whatever other clients fed to the history in between
\* and in which order.  A peer that is gone has no row, unless its identifier is
\* one the page turns into a negative number, or the peer was new to the history
\* more than once.
PeersShown ==
  [][\A c \in Client, t \in Torrent :
       AnswerPeers(c, t) /\ SameLife(c, t) =>
         LET now == fetchedPeers[c].peers
             table == rows'[c][t]
         IN  /\ \A p \in DOMAIN now :
                  /\ RowKey(p) \in DOMAIN table
                  /\ \A x \in PeerMask[c] : table[RowKey(p)][x] = now[p][x]
             /\ \A p \in Peer \ DOMAIN now :
                  RowKey(p) \in DOMAIN table => RowKey(p) # p \/ comings'[t][p] > 1]_peerVars

\* The rows are those of the peers the call fetched, as a client that polls
\* alone must show them.
RowsArePeers ==
  [][\A c \in Client, t \in Torrent :
       AnswerPeers(c, t) /\ SameLife(c, t) =>
         DOMAIN rows'[c][t] = {RowKey(p) : p \in DOMAIN fetchedPeers[c].peers}]_peerVars
=============================================================================
