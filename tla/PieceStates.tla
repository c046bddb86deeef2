----------------------------- MODULE PieceStates -----------------------------
(***************************************************************************)
(* get-piece-states: which pieces of a torrent are there.  The history is  *)
(* seeded with the bitfield of the moment by the first call, fed by the    *)
(* alerts of libtorrent and dropped when a piece may have been lost.  An   *)
(* alert is handled some time after the bitfield changed.                  *)
(***************************************************************************)
EXTENDS HistoryCache

CONSTANTS
  HavePiece,    \* the pieces of a torrent
  MaxQueue,     \* m_max_queue: 300
  MaxEvents     \* bounds what happens to the torrents

ASSUME PieceStatesAssumption == MaxQueue \in Nat /\ MaxEvents \in Nat

VARIABLES
  have,                     \* libtorrent: the pieces each torrent has
  checking,                 \* the torrents being checked
  pieceAlerts,              \* the alerts that are not handled yet, the oldest first
  pieceEvents,              \* how many events there were
  m_piece_state_histories,  \* the cache, the torrent used last first
  bitfield                  \* the pieces each client shows

stateSource == <<have, checking, pieceEvents>>
stateOwn == <<stateSource, pieceAlerts, m_piece_state_histories, bitfield>>
stateVars == <<stateOwn, pollVars>>

Alert == [type: {"piece_finished", "hash_failed", "torrent_checked"}, ih: Torrent, piece: HavePiece]

StateTypeOK ==
  /\ PollTypeOK
  /\ have \in [Torrent -> SUBSET HavePiece] /\ checking \subseteq Torrent
  /\ pieceAlerts \in Seq(Alert)
  /\ IsCache(m_piece_state_histories)
  /\ \A i \in DOMAIN m_piece_state_histories :
       LET h == m_piece_state_histories[i] IN
       /\ h.m_bitfield \subseteq HavePiece /\ h.m_horizon \in Nat
       /\ h.m_queue \in Seq(h.m_bitfield) /\ Len(h.m_queue) <= MaxQueue
  /\ bitfield \in [Client -> [Torrent -> SUBSET HavePiece]]

StateInit ==
  /\ PollInit
  /\ have = [t \in Torrent |-> {}] /\ checking = {}
  /\ pieceAlerts = <<>> /\ pieceEvents = 0
  /\ m_piece_state_histories = <<>>
  /\ bitfield = [c \in Client |-> [t \in Torrent |-> {}]]

-----------------------------------------------------------------------------
(* piece_state_history                                                     *)

NewStateHistory(t) == [m_ih |-> t, m_bitfield |-> have[t], m_queue |-> <<>>, m_horizon |-> 1]
StateFrame(h) == h.m_horizon + Len(h.m_queue)

\* Mutant: the horizon stays.
OnPieceFinished_stays(h, p) ==
  IF p \in h.m_bitfield THEN h
  ELSE [h EXCEPT !.m_bitfield = @ \cup {p},
                 !.m_queue = IF Len(@) < MaxQueue THEN Append(@, p) ELSE Tail(Append(@, p))]

OnPieceFinished(h, p) ==
  IF p \in h.m_bitfield THEN h
  ELSE LET full == Len(h.m_queue) >= MaxQueue IN
       [h EXCEPT !.m_bitfield = @ \cup {p},
                 !.m_queue = IF full THEN Tail(Append(@, p)) ELSE Append(@, p),
                 !.m_horizon = IF full THEN @ + 1 ELSE @]

StateQuery(h, since) ==
  LET snapshot == since = 0 \/ since < h.m_horizon \/ since > StateFrame(h)
  IN  [frame |-> StateFrame(h),
       snapshot |-> snapshot,
       pieces |-> IF snapshot THEN h.m_bitfield
                  ELSE {h.m_queue[k] : k \in since - h.m_horizon + 1 .. Len(h.m_queue)}]

-----------------------------------------------------------------------------
(* libtorrent and its alerts.                                              *)

Post(type, t, p) == pieceAlerts' = Append(pieceAlerts, [type |-> type, ih |-> t, piece |-> p])

Happens ==
  /\ pieceEvents < MaxEvents
  /\ pieceEvents' = pieceEvents + 1
  /\ UNCHANGED <<m_piece_state_histories, bitfield, pollVars>>

PieceFinishes(t, p) ==
  /\ t \notin checking /\ p \notin have[t]
  /\ have' = [have EXCEPT ![t] = @ \cup {p}]
  /\ Post("piece_finished", t, p)
  /\ Happens /\ UNCHANGED checking

\* A piece fails its check, also one the torrent had.
HashFails(t, p) ==
  /\ have' = [have EXCEPT ![t] = @ \ {p}]
  /\ Post("hash_failed", t, p)
  /\ Happens /\ UNCHANGED checking

ForceRecheck(t) ==
  /\ t \notin checking
  /\ checking' = checking \cup {t} /\ have' = [have EXCEPT ![t] = {}]
  /\ Happens /\ UNCHANGED pieceAlerts

TorrentChecked(t, found) ==
  /\ t \in checking
  /\ checking' = checking \ {t} /\ have' = [have EXCEPT ![t] = found]
  /\ \E p \in HavePiece : p = Min(HavePiece) /\ Post("torrent_checked", t, p)
  /\ Happens

\* A piece that was lost and those of a check drop the history.
Drops(type) == type \in {"hash_failed", "torrent_checked"}

HandleAlert ==
  /\ pieceAlerts # <<>>
  /\ pieceAlerts' = Tail(pieceAlerts)
  /\ LET a == Head(pieceAlerts) IN
     m_piece_state_histories' =
       IF Drops(a.type)
       THEN Dropped(m_piece_state_histories, a.ih)
       ELSE [i \in DOMAIN m_piece_state_histories |->
               IF m_piece_state_histories[i].m_ih = a.ih /\ a.type = "piece_finished"
               THEN OnPieceFinished(m_piece_state_histories[i], a.piece)
               ELSE m_piece_state_histories[i]]
  /\ UNCHANGED <<stateSource, bitfield, pollVars>>

-----------------------------------------------------------------------------
(* get_piece_states, with m_piece_states_mutex held.                       *)

PollStates(c, t) ==
  LET h == HistoryOf(m_piece_state_histories, t, NewStateHistory(t))
      r == StateQuery(h, frame[c][t])
  IN  /\ Answered(m_piece_state_histories, c, t, r.frame, r.snapshot)
      /\ m_piece_state_histories' = Used(m_piece_state_histories, h)
      /\ bitfield' = [bitfield EXCEPT ![c][t] = IF r.snapshot THEN r.pieces ELSE @ \cup r.pieces]
      /\ UNCHANGED <<stateSource, pieceAlerts>>

StateNext ==
  \/ \E t \in Active :
       \/ \E p \in HavePiece : PieceFinishes(t, p) \/ HashFails(t, p)
       \/ ForceRecheck(t) \/ \E found \in SUBSET HavePiece : TorrentChecked(t, found)
  \/ HandleAlert
  \/ \E c \in Client, t \in Torrent : PollStates(c, t)

-----------------------------------------------------------------------------

Settled(t) ==
  /\ t \notin checking
  /\ \A i \in DOMAIN pieceAlerts : pieceAlerts[i].ih # t

\* After a poll with no alert of the torrent on its way, a client whose last
\* snapshot is of the history that answers shows exactly the pieces it has.
StatesShown ==
  [][\A c \in Client, t \in Torrent :
       PollStates(c, t) /\ Settled(t) /\ SameLife(c, t) => bitfield'[c][t] = have[t]]_stateVars

\* After any poll with no alert on its way the client shows no piece that was
\* lost: the documentation has the server send a snapshot when pieces regressed.
RegressionShown ==
  [][\A c \in Client, t \in Torrent :
       PollStates(c, t) /\ Settled(t) => bitfield'[c][t] \subseteq have[t]]_stateVars
=============================================================================
