---------------------------- MODULE PieceUpdates -----------------------------
(***************************************************************************)
(* get-piece-updates: what changed in the download queue of a torrent      *)
(* since the frame a client has.  The frames are those of a piece_history, *)
(* one per torrent, which the call itself feeds with the queue of the      *)
(* moment.  The server keeps the histories of the torrents asked for last; *)
(* a torrent that is asked for again later starts a new history.           *)
(*                                                                         *)
(* The call holds m_piece_mutex from get_download_queue() to the end of    *)
(* the response: it is one step.  The clients are external: they poll with *)
(* the frame of the last response and apply the next one as documented.    *)
(***************************************************************************)
EXTENDS HistoryCache

CONSTANTS
  Piece,          \* the pieces of a torrent
  Blocks,         \* the number of blocks of each piece; the last may have fewer
  BlockState,     \* the states of a block; 0 is one of them
  MaxStarts,      \* bounds on how often each piece enters the queue
  MaxBlockChanges \* bounds how often a block changes

ASSUME PieceUpdatesAssumption ==
  /\ Piece \subseteq Nat /\ IsFiniteSet(Piece)
  /\ Blocks \in [Piece -> Nat \ {0}]
  /\ 0 \in BlockState
  /\ MaxStarts \in [Piece -> Nat] /\ MaxBlockChanges \in Nat

VARIABLES
  queue,              \* libtorrent: the state of the blocks of the pieces downloading
  starts,             \* how often each piece entered the queue
  blockChanges,       \* how often a block changed
  m_piece_histories,  \* the cache, the torrent used last first
  pieceView           \* the queue as each client shows it

pieceOwn == <<queue, starts, blockChanges, m_piece_histories, pieceView>>
pieceVars == <<pieceOwn, pollVars>>

Block(p) == 1 .. Blocks[p]
IsQueue(q) == DOMAIN q \subseteq Piece /\ \A p \in DOMAIN q : q[p] \in [Block(p) -> BlockState]
PieceEntry(p) == [added_frame: Nat, blocks: [Block(p) -> [state: BlockState, frame: Nat]]]
PieceTombstone == [removed_frame: Nat, added_frame: Nat, piece_index: Piece]

\* piece_history
IsPieceHistory(h) ==
  /\ h.m_frame \in Nat
  /\ h.m_horizon \in Nat
  /\ DOMAIN h.m_pieces \subseteq Piece
  /\ \A p \in DOMAIN h.m_pieces : h.m_pieces[p] \in PieceEntry(p)
  /\ h.m_removed \in Seq(PieceTombstone) /\ Len(h.m_removed) <= MaxTombstones

PieceTypeOK ==
  /\ \A t \in Torrent : IsQueue(queue[t])
  /\ starts \in [Torrent -> [Piece -> Nat]] /\ blockChanges \in Nat
  /\ IsCache(m_piece_histories)
  /\ \A i \in DOMAIN m_piece_histories : IsPieceHistory(m_piece_histories[i])
  /\ PollTypeOK
  /\ \A c \in Client, t \in Torrent : IsQueue(pieceView[c][t])

Nothing == [p \in {} |-> 0]

PieceInit ==
  /\ queue = [t \in Torrent |-> Nothing]
  /\ starts = [t \in Torrent |-> [p \in Piece |-> 0]]
  /\ blockChanges = 0
  /\ m_piece_histories = <<>>
  /\ PollInit
  /\ pieceView = [c \in Client |-> [t \in Torrent |-> Nothing]]

-----------------------------------------------------------------------------
(* piece_history                                                           *)

NewPieceHistory(t) ==
  [m_ih |-> t, m_frame |-> 0, m_horizon |-> 0, m_pieces |-> Nothing, m_removed |-> <<>>]

\* The entries of the pieces in the queue, new and known ones.
PieceEntries(h, q, f) ==
  [p \in DOMAIN q |->
     IF p \notin DOMAIN h.m_pieces
     THEN [added_frame |-> f, blocks |-> [b \in Block(p) |-> [state |-> q[p][b], frame |-> f]]]
     ELSE [h.m_pieces[p] EXCEPT !.blocks =
             [b \in Block(p) |-> IF @[b].state = q[p][b] THEN @[b]
                              ELSE [state |-> q[p][b], frame |-> f]]]]

\* Tombstones of the pieces that left the queue, each put before the older ones.
PiecesBuried(h, q, f) ==
  LET gone == Reverse(Ascending(DOMAIN h.m_pieces \ DOMAIN q))
  IN  [i \in DOMAIN gone |->
         [removed_frame |-> f, added_frame |-> h.m_pieces[gone[i]].added_frame, piece_index |-> gone[i]]]
      \o h.m_removed

\* Pieces that came back lose theirs.
PiecesCleared(h, q, stones) ==
  IF DOMAIN q \subseteq DOMAIN h.m_pieces THEN stones
  ELSE Picked(stones, {i \in DOMAIN stones : stones[i].piece_index \notin DOMAIN q})

\* The oldest tombstones go.  Mutants: one too many is kept; the horizon stays.
PiecesKept_over(stones) == SubSeq(stones, 1, Min({MaxTombstones + 1, Len(stones)}))
PiecesKept(stones) == SubSeq(stones, 1, Min({MaxTombstones, Len(stones)}))
PieceHorizon_stays(h, stones) == h.m_horizon
PieceHorizon(h, stones) ==
  Max({h.m_horizon} \cup
      {stones[i].removed_frame + 1 : i \in {j \in DOMAIN stones : j > MaxTombstones}})

PieceUpdate(h, q) ==
  LET f == h.m_frame + 1
      stones == PiecesCleared(h, q, PiecesBuried(h, q, f))
  IN  [h EXCEPT !.m_frame = f,
                !.m_pieces = PieceEntries(h, q, f),
                !.m_removed = PiecesKept(stones),
                !.m_horizon = PieceHorizon(h, stones)]

\* A client behind the horizon gets a snapshot.
PieceSince(h, client_frame) == IF client_frame < h.m_horizon THEN 0 ELSE client_frame

States(e) == [b \in DOMAIN e.blocks |-> e.blocks[b].state]
BlocksChanged(e, since) == {b \in DOMAIN e.blocks : e.blocks[b].frame > since}

\* A piece is sent whole when it is new, or when that is shorter.
Whole(e, since) ==
  \/ e.added_frame > since
  \/ BlocksChanged(e, since) # {} /\ Cardinality(DOMAIN e.blocks) + 6 <= Cardinality(BlocksChanged(e, since)) * 7

\* Pieces the client has seen before they were removed.
PiecesRemoved(h, since) ==
  {h.m_removed[i].piece_index :
     i \in {j \in DOMAIN h.m_removed :
              /\ \A k \in 1 .. j : h.m_removed[k].removed_frame > since
              /\ h.m_removed[j].added_frame <= since}}

PieceQuery(h, client_frame) ==
  LET since == PieceSince(h, client_frame)
      full == {p \in DOMAIN h.m_pieces : since = 0 \/ Whole(h.m_pieces[p], since)}
  IN  [frame |-> h.m_frame,
       is_snapshot |-> since = 0,
       full_pieces |-> [p \in full |-> States(h.m_pieces[p])],
       block_updates |-> [p \in DOMAIN h.m_pieces \ full |->
                            [b \in BlocksChanged(h.m_pieces[p], since) |->
                               h.m_pieces[p].blocks[b].state]],
       removed |-> IF since = 0 THEN {} ELSE PiecesRemoved(h, since)]

-----------------------------------------------------------------------------
(* The clients.                                                            *)

\* Full pieces replace, block updates patch, removed pieces go; a snapshot
\* replaces everything.
PieceApplied(v, r) ==
  LET old == IF r.is_snapshot THEN {} ELSE DOMAIN v \ r.removed
      full == DOMAIN r.full_pieces
      patch == r.block_updates
  IN  [p \in old \cup full |->
         IF p \in full THEN r.full_pieces[p]
         ELSE [b \in Block(p) |-> IF p \in DOMAIN patch /\ b \in DOMAIN patch[p] THEN patch[p][b]
                               ELSE v[p][b]]]

-----------------------------------------------------------------------------
(* libtorrent.                                                             *)

\* A piece enters the queue, none of its blocks requested.
StartPiece(t, p) ==
  /\ p \notin DOMAIN queue[t]
  /\ starts[t][p] < MaxStarts[p]
  /\ queue' = [queue EXCEPT ![t] = [q \in DOMAIN @ \cup {p} |->
                                      IF q = p THEN [b \in Block(p) |-> 0] ELSE @[q]]]
  /\ starts' = [starts EXCEPT ![t][p] = @ + 1]
  /\ UNCHANGED <<blockChanges, m_piece_histories, pieceView, pollVars>>

\* A block is requested, written, or given up.
BlockChanges(t, p, b) ==
  /\ p \in DOMAIN queue[t] /\ blockChanges < MaxBlockChanges
  /\ blockChanges' = blockChanges + 1
  /\ \E s \in BlockState \ {queue[t][p][b]} : queue' = [queue EXCEPT ![t][p][b] = s]
  /\ UNCHANGED <<starts, m_piece_histories, pieceView, pollVars>>

\* A piece leaves the queue: it is complete, or it failed its hash check and
\* may come back.
EndPiece(t, p) ==
  /\ p \in DOMAIN queue[t]
  /\ queue' = [queue EXCEPT ![t] = [q \in DOMAIN @ \ {p} |-> @[q]]]
  /\ UNCHANGED <<starts, blockChanges, m_piece_histories, pieceView, pollVars>>

-----------------------------------------------------------------------------
(* get_piece_updates                                                       *)

PollPieces(c, t) ==
  LET h == PieceUpdate(HistoryOf(m_piece_histories, t, NewPieceHistory(t)), queue[t])
      r == PieceQuery(h, frame[c][t])
  IN  /\ Answered(m_piece_histories, c, t, r.frame, r.is_snapshot)
      /\ m_piece_histories' = Used(m_piece_histories, h)
      /\ pieceView' = [pieceView EXCEPT ![c][t] = PieceApplied(@, r)]
      /\ UNCHANGED <<queue, starts, blockChanges>>

-----------------------------------------------------------------------------

PieceNext ==
  \/ \E t \in Active, p \in Piece :
       StartPiece(t, p) \/ EndPiece(t, p) \/ \E b \in Block(p) : BlockChanges(t, p, b)
  \/ \E c \in Client, t \in Torrent : PollPieces(c, t)

PieceSpec == PieceInit /\ [][PieceNext]_pieceVars

-----------------------------------------------------------------------------

\* After a poll, a client whose last snapshot is of the history that answers
\* shows every piece in the queue with the state of each of its blocks, however
\* many polls of others have moved the frames in between; and a piece that was
\* in the queue once and left it is gone, also when its tombstone is.
QueueShown ==
  [][\A c \in Client, t \in Torrent :
       PollPieces(c, t) /\ SameLife(c, t) =>
         LET shown == pieceView'[c][t] IN
         /\ \A p \in DOMAIN queue[t] : p \in DOMAIN shown /\ shown[p] = queue[t][p]
         /\ \A p \in DOMAIN shown \ DOMAIN queue[t] : starts[t][p] > 1]_pieceVars

\* After a poll the client shows no other piece than those in the queue.  It
\* does: the tombstone of a piece that left, came back and left again between two
\* of its polls says that it was added after the client's frame.
NoGhosts ==
  [][\A c \in Client, t \in Torrent :
       PollPieces(c, t) /\ SameLife(c, t) =>
         DOMAIN pieceView'[c][t] \subseteq DOMAIN queue[t]]_pieceVars
=============================================================================
