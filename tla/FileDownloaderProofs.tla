------------------------ MODULE FileDownloaderProofs ------------------------
(***************************************************************************)
(* Theorems about file_downloader, for any torrent, any number of requests *)
(* and any ranges of its bytes: the bytes of a range are written in order  *)
(* and once each, a connection is told once that its response has ended,   *)
(* and a request that waits is going to be woken.                          *)
(***************************************************************************)
EXTENDS FileDownloader, SequenceTheorems, FiniteSetTheorems, TLAPS

-----------------------------------------------------------------------------
(* Numbers.                                                                *)

\* The constants, one by one.
LEMMA Sizes == PieceSize \in Nat /\ PieceSize > 0 /\ Pieces \in Nat /\ Pieces > 0 /\ Prefetch \in Nat /\ Prefetch > 0
BY DownloaderAssumption

\* The piece of a byte, and where it is in it.
LEMMA Division ==
  ASSUME NEW b \in Nat
  PROVE  /\ b \div PieceSize \in Nat /\ b % PieceSize \in 0 .. PieceSize - 1
         /\ b = (b \div PieceSize) * PieceSize + (b % PieceSize)
BY Sizes

\* A byte before the end of a piece is in that piece or one before it.
LEMMA Before ==
  ASSUME NEW m \in Nat, NEW n \in Nat, NEW k \in Nat, m * PieceSize + k < n * PieceSize
  PROVE  m < n
<1>1. PICK s \in Nat : s = PieceSize
  BY Sizes
<1>2. ASSUME m >= n PROVE FALSE
  <2>1. PICK d \in Nat : m = n + d
    BY <1>2
  <2>2. m * s = n * s + d * s /\ d * s >= 0 /\ n * s \in Nat
    BY <2>1
  <2>. QED
    BY <1>1, <2>2
<1>. QED
  BY <1>2

\* A range of bytes, and the pieces it begins and ends in.
LEMMA RangePieces ==
  ASSUME NEW a \in Ranges
  PROVE  /\ a.first \in Nat /\ a.total \in Nat
         /\ PieceOf(a.first) \in 0 .. Pieces - 1
         /\ PieceOf(a.first + a.total - 1) + 1 \in 0 .. Pieces
         /\ PieceOf(a.first) <= PieceOf(a.first + a.total - 1) + 1
         /\ a.first + a.total <= (PieceOf(a.first + a.total - 1) + 1) * PieceSize
         /\ PieceOf(a.first) * PieceSize + (a.first % PieceSize) = a.first
         /\ a.first % PieceSize \in 0 .. PieceSize - 1
<1>1. PICK f, n : f = a.first /\ n = a.total
  OBVIOUS
<1>2. f \in Nat /\ n \in Nat /\ f + n <= Pieces * PieceSize /\ f < Pieces * PieceSize
  BY <1>1, DownloaderAssumption
<1>3. PICK i, o : i = f \div PieceSize /\ o = f % PieceSize
  OBVIOUS
<1>4. i \in Nat /\ o \in 0 .. PieceSize - 1 /\ f = i * PieceSize + o
  BY <1>2, <1>3, Division
<1>5. i < Pieces /\ PieceOf(f) = i
  BY <1>2, <1>3, <1>4, Before, Sizes DEF PieceOf
<1>6. PICK e : e = PieceOf(f + n - 1) + 1
  OBVIOUS
<1>7. e \in 0 .. Pieces /\ i <= e /\ f + n <= e * PieceSize
  <2>1. CASE f + n = 0
    <3>1. f = 0 /\ n = 0 /\ f + n - 1 < 0
      BY <1>2, <2>1
    <3>2. i = 0
      BY <1>3, <3>1, Sizes
    <3>3. e = 1
      BY <1>6, <3>1 DEF PieceOf
    <3>. QED
      BY <3>1, <3>2, <3>3, Sizes
  <2>2. CASE f + n # 0
    <3>1. PICK b \in Nat : b = f + n - 1
      BY <1>2, <2>2
    <3>2. PICK j, p : j = b \div PieceSize /\ p = b % PieceSize
      OBVIOUS
    <3>3. j \in Nat /\ p \in 0 .. PieceSize - 1 /\ b = j * PieceSize + p
      BY <3>1, <3>2, Division
    <3>4. e = j + 1
      BY <1>6, <3>1, <3>2 DEF PieceOf
    <3>5. j < Pieces
      <4>1. j * PieceSize + p < Pieces * PieceSize
        BY <1>2, <3>1, <3>3, Sizes
      <4>. QED
        BY <3>3, <4>1, Before, Sizes
    <3>6. f + n <= (j + 1) * PieceSize
      <4>1. (j + 1) * PieceSize = j * PieceSize + PieceSize /\ j * PieceSize \in Nat
        BY <3>3, Sizes
      <4>. QED
        BY <1>2, <3>1, <3>3, <4>1, Sizes
    <3>7. i <= j + 1
      <4>1. (j + 2) * PieceSize = (j + 1) * PieceSize + PieceSize /\ (j + 1) * PieceSize \in Nat /\ i * PieceSize \in Nat
        BY <3>3, <1>4, Sizes
      <4>2. i * PieceSize + o < (j + 2) * PieceSize
        BY <1>2, <1>4, <3>6, <4>1, Sizes
      <4>3. i < j + 2
        BY <1>4, <3>3, <4>2, Before
      <4>. QED
        BY <1>4, <3>3, <4>3
    <3>. QED
      BY <3>3, <3>4, <3>5, <3>6, <3>7, Sizes
  <2>. QED
    BY <2>1, <2>2
<1>8. i \in 0 .. Pieces - 1
  BY <1>4, <1>5, Sizes
<1>. QED
  BY <1>1, <1>2, <1>3, <1>4, <1>5, <1>6, <1>7, <1>8

-----------------------------------------------------------------------------
(* file_request_conn.                                                      *)

\* The members of a request.
LEMMA ConnFields ==
  ASSUME NEW c \in Conn
  PROVE  /\ c.m_next_piece \in Nat /\ c.m_next_piece <= Pieces
         /\ c.m_next_priority_piece \in Nat /\ c.m_next_priority_piece <= Pieces
         /\ c.m_end_piece \in Nat /\ c.m_end_piece <= Pieces
         /\ c.m_offset \in Nat /\ c.m_offset < PieceSize /\ c.m_left_to_send \in Nat
         /\ c.m_out_of_order \subseteq Piece /\ c.m_writing \in BOOLEAN /\ c.m_stopped \in BOOLEAN
BY Sizes DEF Conn

\* The pieces that get a deadline follow those that have one, up to the last but one
\* of the window or of the range.
LEMMA PrefetchedPieces ==
  ASSUME NEW c \in Conn
  PROVE  /\ Prefetched(c) \subseteq Piece /\ IsFiniteSet(Prefetched(c))
         /\ c.m_next_priority_piece + Cardinality(Prefetched(c)) \in 0 .. Pieces
         /\ c.m_stopped => Prefetched(c) = {}
         /\ ~c.m_stopped => \A p \in Nat :
              p \in Prefetched(c) <=> p >= c.m_next_priority_piece /\ p < c.m_next_priority_piece + Cardinality(Prefetched(c))
         /\ ~c.m_stopped /\ c.m_next_piece < c.m_end_piece =>
              c.m_next_piece < c.m_next_priority_piece + Cardinality(Prefetched(c))
         /\ c.m_next_priority_piece <= c.m_end_piece =>
              c.m_next_priority_piece + Cardinality(Prefetched(c)) <= c.m_end_piece
<1>1. PICK l, n, e : l = c.m_next_priority_piece /\ n = c.m_next_piece /\ e = c.m_end_piece
  OBVIOUS
<1>2. l \in Nat /\ l <= Pieces /\ n \in Nat /\ e \in Nat /\ e <= Pieces
  BY <1>1, ConnFields
<1>3. CASE c.m_stopped
  <2>1. Prefetched(c) = {}
    BY <1>3 DEF Prefetched
  <2>2. IsFiniteSet({}) /\ Cardinality({}) = 0
    BY FS_EmptySet
  <2>. QED
    BY <1>1, <1>2, <1>3, <2>1, <2>2, Sizes
<1>4. CASE ~c.m_stopped
  <2>1. PICK h : h = Least(n + Prefetch, e) - 1
    OBVIOUS
  <2>2. h \in Int /\ h + 1 <= e /\ (n < e => n <= h) /\ h < Pieces
    BY <1>2, <2>1, Sizes DEF Least
  <2>3. Prefetched(c) = l .. h
    BY <1>1, <1>4, <2>1 DEF Prefetched
  <2>4. IsFiniteSet(l .. h) /\ Cardinality(l .. h) = IF l > h THEN 0 ELSE h - l + 1
    BY <1>2, <2>2, FS_Interval
  <2>5. l .. h \subseteq Piece
    BY <1>2, <2>2, Sizes DEF Piece
  <2>6. PICK k : k = Cardinality(Prefetched(c))
    OBVIOUS
  <2>7. k = IF l > h THEN 0 ELSE h - l + 1
    BY <2>3, <2>4, <2>6
  <2>8. /\ l + k \in 0 .. Pieces /\ (n < e => n < l + k) /\ (l <= e => l + k <= e)
        /\ \A p \in Nat : p \in l .. h <=> p >= l /\ p < l + k
    BY <1>2, <2>2, <2>7, Sizes
  <2>. QED
    BY <1>1, <1>4, <2>3, <2>4, <2>5, <2>6, <2>8
<1>. QED
  BY <1>3, <1>4, ConnFields

\* What set_piece_deadlines_impl changes.
LEMMA WithDeadlinesFields ==
  ASSUME NEW c \in Conn, NEW d, d = WithDeadlines(c)
  PROVE  /\ d \in Conn
         /\ d.m_next_priority_piece = c.m_next_priority_piece + Cardinality(Prefetched(c))
         /\ d.m_next_piece = c.m_next_piece /\ d.m_end_piece = c.m_end_piece /\ d.m_offset = c.m_offset
         /\ d.m_left_to_send = c.m_left_to_send /\ d.m_out_of_order = c.m_out_of_order
         /\ d.m_writing = c.m_writing /\ d.m_stopped = c.m_stopped
<1>1. PICK k : k = c.m_next_priority_piece + Cardinality(Prefetched(c))
  OBVIOUS
<1>2. k \in 0 .. Pieces /\ d = [c EXCEPT !.m_next_priority_piece = k]
  BY <1>1, PrefetchedPieces DEF WithDeadlines
<1>3. d.m_next_priority_piece = k
  BY <1>2 DEF Conn
<1>4. /\ d.m_next_piece = c.m_next_piece /\ d.m_end_piece = c.m_end_piece /\ d.m_offset = c.m_offset
      /\ d.m_left_to_send = c.m_left_to_send /\ d.m_out_of_order = c.m_out_of_order
      /\ d.m_writing = c.m_writing /\ d.m_stopped = c.m_stopped
  BY <1>2 DEF Conn
<1>5. d \in Conn
  BY <1>2 DEF Conn
<1>. QED
  BY <1>1, <1>3, <1>4, <1>5

\* How much is sent of a piece.
LEMMA SizeBounds ==
  ASSUME NEW c \in Conn
  PROVE  /\ Size(c) \in Nat /\ Size(c) <= c.m_left_to_send
         /\ c.m_left_to_send > 0 => Size(c) > 0
         /\ Size(c) = c.m_left_to_send \/ Size(c) = PieceSize - c.m_offset
BY ConnFields, Sizes DEF Size, Least

\* What sending a piece changes.
LEMMA SendingFields ==
  ASSUME NEW c \in Conn, c.m_next_piece < Pieces, NEW d, d = Sending(c)
  PROVE  /\ d \in Conn
         /\ d.m_next_piece = c.m_next_piece + 1 /\ d.m_left_to_send = c.m_left_to_send - Size(c)
         /\ d.m_offset = 0 /\ d.m_out_of_order = c.m_out_of_order \ {c.m_next_piece} /\ d.m_writing = TRUE
         /\ d.m_next_priority_piece = c.m_next_priority_piece
         /\ d.m_end_piece = c.m_end_piece /\ d.m_stopped = c.m_stopped
<1>1. PICK n, k, o : n = c.m_next_piece + 1 /\ k = c.m_left_to_send - Size(c) /\ o = c.m_out_of_order \ {c.m_next_piece}
  OBVIOUS
<1>2. n \in 0 .. Pieces /\ k \in Nat /\ o \subseteq Piece /\ 0 \in 0 .. PieceSize - 1
  BY <1>1, ConnFields, SizeBounds, Sizes
<1>3. d = [c EXCEPT !.m_next_piece = n, !.m_left_to_send = k, !.m_offset = 0,
                    !.m_out_of_order = o, !.m_writing = TRUE]
  BY <1>1 DEF Sending
<1>4. d \in Conn
  BY <1>2, <1>3 DEF Conn
<1>5. /\ d.m_next_piece = n /\ d.m_left_to_send = k
      /\ d.m_offset = 0 /\ d.m_out_of_order = o /\ d.m_writing = TRUE
      /\ d.m_next_priority_piece = c.m_next_priority_piece
      /\ d.m_end_piece = c.m_end_piece /\ d.m_stopped = c.m_stopped
  BY <1>3 DEF Conn
<1>. QED
  BY <1>1, <1>4, <1>5

\* What no handler but Start and the sending of a piece change.
Alike(c, d) ==
  /\ d.m_next_piece = c.m_next_piece /\ d.m_next_priority_piece = c.m_next_priority_piece
  /\ d.m_end_piece = c.m_end_piece /\ d.m_offset = c.m_offset /\ d.m_left_to_send = c.m_left_to_send

\* abort()
LEMMA StoppingFields ==
  ASSUME NEW c \in Conn, NEW d, d = Stopping(c)
  PROVE  d \in Conn /\ Alike(c, d) /\ d.m_stopped = TRUE /\ d.m_writing = c.m_writing
BY DEF Conn, Stopping, Alike

\* A write has ended.
LEMMA WrittenFields ==
  ASSUME NEW c \in Conn, NEW d, d = [c EXCEPT !.m_writing = FALSE]
  PROVE  /\ d \in Conn /\ Alike(c, d) /\ d.m_stopped = c.m_stopped /\ d.m_writing = FALSE
         /\ d.m_out_of_order = c.m_out_of_order
BY DEF Conn, Alike

\* The response is complete.
LEMMA LastFields ==
  ASSUME NEW c \in Conn, NEW d, d = [c EXCEPT !.m_stopped = TRUE]
  PROVE  d \in Conn /\ Alike(c, d) /\ d.m_stopped = TRUE /\ d.m_writing = c.m_writing
BY DEF Conn, Alike

\* A piece that came early is kept.
LEMMA EarlyFields ==
  ASSUME NEW c \in Conn, NEW p \in Piece, NEW d, d = [c EXCEPT !.m_out_of_order = @ \cup {p}]
  PROVE  /\ d \in Conn /\ Alike(c, d) /\ d.m_stopped = c.m_stopped /\ d.m_writing = c.m_writing
         /\ d.m_out_of_order = c.m_out_of_order \cup {p}
<1>1. PICK o \in SUBSET Piece : o = c.m_out_of_order \cup {p}
  BY ConnFields
<1>2. d = [c EXCEPT !.m_out_of_order = o]
  BY <1>1
<1>. QED
  BY <1>1, <1>2 DEF Conn, Alike

\* A request is new.
LEMMA NewConnFields ==
  ASSUME NEW a \in Ranges, NEW d, d = NewConn(a)
  PROVE  /\ d \in Conn
         /\ d.m_next_piece = PieceOf(a.first) /\ d.m_next_priority_piece = PieceOf(a.first)
         /\ d.m_end_piece = PieceOf(a.first + a.total - 1) + 1
         /\ d.m_offset = a.first % PieceSize /\ d.m_left_to_send = a.total
         /\ d.m_writing = TRUE /\ d.m_stopped = FALSE
<1>1. PICK n, e, o, t : /\ n = PieceOf(a.first) /\ e = PieceOf(a.first + a.total - 1) + 1
                        /\ o = a.first % PieceSize /\ t = a.total
  OBVIOUS
<1>2. n \in 0 .. Pieces /\ e \in 0 .. Pieces /\ o \in 0 .. PieceSize - 1 /\ t \in Nat
  BY <1>1, RangePieces, Sizes
<1>3. d = [m_next_piece |-> n, m_next_priority_piece |-> n, m_end_piece |-> e, m_offset |-> o,
           m_left_to_send |-> t, m_out_of_order |-> {}, m_writing |-> TRUE, m_stopped |-> FALSE]
  BY <1>1 DEF NewConn
<1>4. d \in Conn
  BY <1>2, <1>3 DEF Conn
<1>5. /\ d.m_next_piece = n /\ d.m_next_priority_piece = n /\ d.m_end_piece = e
      /\ d.m_offset = o /\ d.m_left_to_send = t /\ d.m_writing = TRUE /\ d.m_stopped = FALSE
  BY <1>3
<1>. QED
  BY <1>1, <1>4, <1>5

\* No request was made yet.
LEMMA NoConnFields == NoConn \in Conn /\ NoConn.m_stopped = FALSE
<1>1. 0 \in 0 .. Pieces /\ 0 \in 0 .. PieceSize - 1
  BY Sizes
<1>2. PICK d : d = NoConn
  OBVIOUS
<1>3. d = [m_next_piece |-> 0, m_next_priority_piece |-> 0, m_end_piece |-> 0, m_offset |-> 0,
           m_left_to_send |-> 0, m_out_of_order |-> {}, m_writing |-> FALSE, m_stopped |-> FALSE]
  BY <1>2 DEF NoConn
<1>4. d \in Conn
  BY <1>1, <1>3 DEF Conn
<1>5. d.m_stopped = FALSE
  BY <1>3
<1>. QED
  BY <1>2, <1>4, <1>5

-----------------------------------------------------------------------------
(* libtorrent.                                                             *)

TorrentTypes ==
  /\ have \subseteq Piece /\ deadlines \subseteq Piece
  /\ alerts \in [Piece \X BOOLEAN -> Nat]

\* A read of a piece is going to be handled, as far as libtorrent knows.
Coming(p) == p \in deadlines \/ \E ok \in BOOLEAN : alerts[<<p, ok>>] > 0

\* Pieces that are given a deadline are read, now or later, and so are those that were
\* going to be: a is alerts, or what a handler has left of it.
LEMMA DeadlinesSet ==
  ASSUME TorrentTypes, UNCHANGED have, NEW a \in [Piece \X BOOLEAN -> Nat], NEW P, IsFiniteSet(DOMAIN P),
         \A r \in DOMAIN P : P[r] \subseteq Piece, SetDeadlines(a, P)
  PROVE  /\ TorrentTypes'
         /\ \A p \in Piece : p \in deadlines \/ (\E ok \in BOOLEAN : a[<<p, ok>>] > 0) => Coming(p)'
         /\ \A r \in DOMAIN P : \A p \in P[r] : Coming(p)'
<1> DEFINE with(p) == {r \in DOMAIN P : p \in P[r]}
<1>1. \A p : IsFiniteSet(with(p)) /\ Cardinality(with(p)) \in Nat
  BY FS_Subset, FS_CardinalityType
<1>2. PICK U : U = UNION {P[r] : r \in DOMAIN P} /\ deadlines' = deadlines \cup (U \ have)
  BY DEF SetDeadlines
<1>3. alerts' = [x \in Piece \X BOOLEAN |->
                   a[x] + IF x[2] /\ x[1] \in have THEN Cardinality(with(x[1])) ELSE 0]
  BY DEF SetDeadlines
<1>4. deadlines' \subseteq Piece
  <2>1. U \subseteq Piece
    BY <1>2
  <2>. QED
    BY <1>2, <2>1 DEF TorrentTypes
<1>5. \A x \in Piece \X BOOLEAN : alerts'[x] \in Nat /\ alerts'[x] >= a[x]
  <2> SUFFICES ASSUME NEW x \in Piece \X BOOLEAN PROVE alerts'[x] \in Nat /\ alerts'[x] >= a[x]
    OBVIOUS
  <2>1. PICK k : k = Cardinality(with(x[1]))
    OBVIOUS
  <2>2. k \in Nat
    BY <1>1, <2>1
  <2>3. alerts'[x] = a[x] + IF x[2] /\ x[1] \in have THEN k ELSE 0
    BY <1>3, <2>1
  <2>. QED
    BY <2>2, <2>3
<1>6. TorrentTypes'
  BY <1>3, <1>4, <1>5 DEF TorrentTypes
<1>7. ASSUME NEW p \in Piece, p \in deadlines \/ \E ok \in BOOLEAN : a[<<p, ok>>] > 0
      PROVE  Coming(p)'
  <2>1. CASE p \in deadlines
    BY <1>2, <2>1 DEF Coming
  <2>2. ASSUME NEW ok \in BOOLEAN, a[<<p, ok>>] > 0 PROVE Coming(p)'
    <3>1. PICK x \in Piece \X BOOLEAN : x = <<p, ok>>
      OBVIOUS
    <3>2. alerts'[x] > 0
      BY <1>5, <2>2, <3>1
    <3>. QED
      BY <3>1, <3>2 DEF Coming
  <2>. QED
    BY <1>7, <2>1, <2>2
<1>8. ASSUME NEW r \in DOMAIN P, NEW p \in P[r] PROVE Coming(p)'
  <2>1. CASE p \notin have
    <3>1. p \in deadlines'
      <4>1. P[r] \in {P[q] : q \in DOMAIN P}
        OBVIOUS
      <4>2. p \in U
        BY <1>2, <4>1
      <4>. QED
        BY <1>2, <2>1, <4>2
    <3>. QED
      BY <3>1 DEF Coming
  <2>2. CASE p \in have
    <3>1. PICK x \in Piece \X BOOLEAN : x = <<p, TRUE>>
      OBVIOUS
    <3>2. x[1] = p /\ x[2] = TRUE
      BY <3>1
    <3>3. PICK S, k : S = with(p) /\ k = Cardinality(S)
      OBVIOUS
    <3>4. IsFiniteSet(S) /\ r \in S /\ k \in Nat
      BY <1>1, <3>3
    <3>5. k # 0
      BY <3>3, <3>4, FS_EmptySet
    <3>6. alerts'[x] = a[x] + k
      BY <1>3, <2>2, <3>2, <3>3
    <3>7. alerts'[x] > 0
      BY <3>4, <3>5, <3>6
    <3>. QED
      BY <3>1, <3>7 DEF Coming
  <2>. QED
    BY <2>1, <2>2
<1>. QED
  BY <1>6, <1>7, <1>8

\* A deadline that is taken back is answered by a failed read.
LEMMA DeadlinesReset ==
  ASSUME TorrentTypes, UNCHANGED have, NEW a \in [Piece \X BOOLEAN -> Nat], NEW P, ResetDeadlines(a, P)
  PROVE  /\ TorrentTypes'
         /\ \A p \in Piece : p \in deadlines \/ (\E ok \in BOOLEAN : a[<<p, ok>>] > 0) => Coming(p)'
<1>1. deadlines' = deadlines \ P
  BY DEF ResetDeadlines
<1>2. alerts' = [x \in Piece \X BOOLEAN |-> a[x] + IF ~x[2] /\ x[1] \in P \cap deadlines THEN 1 ELSE 0]
  BY DEF ResetDeadlines
<1>3. \A x \in Piece \X BOOLEAN : alerts'[x] \in Nat /\ alerts'[x] >= a[x]
  BY <1>2
<1>4. TorrentTypes'
  BY <1>1, <1>2, <1>3 DEF TorrentTypes
<1>5. ASSUME NEW p \in Piece, NEW ok \in BOOLEAN, a[<<p, ok>>] > 0 PROVE Coming(p)'
  <2>1. PICK x \in Piece \X BOOLEAN : x = <<p, ok>>
    OBVIOUS
  <2>2. alerts'[x] > 0
    BY <1>3, <1>5, <2>1
  <2>. QED
    BY <2>1, <2>2 DEF Coming
<1>6. ASSUME NEW p \in Piece, p \in deadlines PROVE Coming(p)'
  <2>1. CASE p \notin P
    BY <1>1, <1>6, <2>1 DEF Coming
  <2>2. CASE p \in P
    <3>1. PICK x \in Piece \X BOOLEAN : x = <<p, FALSE>>
      OBVIOUS
    <3>2. x[1] = p /\ x[2] = FALSE
      BY <3>1
    <3>3. alerts'[x] = a[x] + 1
      BY <1>2, <1>6, <2>2, <3>2
    <3>4. alerts'[x] > 0
      BY <3>3
    <3>. QED
      BY <3>1, <3>4 DEF Coming
  <2>. QED
    BY <2>1, <2>2
<1>. QED
  BY <1>4, <1>5, <1>6

\* A read that is handled leaves what is coming for the other pieces.
LEMMA ReadHandled ==
  ASSUME NEW a \in [Piece \X BOOLEAN -> Nat], NEW p \in Piece, NEW ok \in BOOLEAN, a[<<p, ok>>] > 0,
         NEW b, b = [a EXCEPT ![<<p, ok>>] = @ - 1]
  PROVE  /\ b \in [Piece \X BOOLEAN -> Nat]
         /\ \A q \in Piece : q # p => \A good \in BOOLEAN : b[<<q, good>>] = a[<<q, good>>]
<1>1. PICK x \in Piece \X BOOLEAN : x = <<p, ok>>
  OBVIOUS
<1>2. a[x] \in Nat /\ a[x] > 0 /\ b = [a EXCEPT ![x] = a[x] - 1]
  BY <1>1
<1>3. b \in [Piece \X BOOLEAN -> Nat]
  BY <1>2
<1>4. ASSUME NEW q \in Piece, q # p, NEW good \in BOOLEAN PROVE b[<<q, good>>] = a[<<q, good>>]
  <2>1. PICK y \in Piece \X BOOLEAN : y = <<q, good>>
    OBVIOUS
  <2>2. y[1] = q /\ x[1] = p
    BY <1>1, <2>1
  <2>. QED
    BY <1>2, <1>4, <2>1, <2>2
<1>. QED
  BY <1>3, <1>4

-----------------------------------------------------------------------------
(* Types.                                                                  *)

RequestTypes ==
  /\ valid \in BOOLEAN
  /\ pc \in [Request -> Step] /\ range \in [Request -> Ranges]
  /\ m_outstanding_requests \subseteq Request /\ IsFiniteSet(m_outstanding_requests)
  /\ due \subseteq Request /\ dones \in [Request -> Nat]
  /\ cancelling \subseteq Request /\ closing \in BOOLEAN /\ terminated \in BOOLEAN

StreamTypes ==
  /\ wire \in [Request -> Seq(Int)]
  /\ fate \in [Request -> {"open", "complete", "aborted"}]

ConnTypes == conn \in [Request -> Conn]

\* Handlers throw only when the torrent is gone.
Caught == valid => ~terminated

TypeInv == TorrentTypes /\ RequestTypes /\ StreamTypes /\ ConnTypes /\ Caught

\* What abort() does to the requests of R, with what is left of the alerts and made of
\* the members of the requests.
LEMMA AbortEffect ==
  ASSUME TypeInv, NEW R \in SUBSET Request, NEW a \in [Piece \X BOOLEAN -> Nat], NEW c \in [Request -> Conn],
         Abort(R, a, c), UNCHANGED <<have, valid>>, ~terminated
  PROVE  /\ TorrentTypes' /\ ConnTypes' /\ Caught' /\ terminated' \in BOOLEAN
         /\ \A q \in R : conn'[q] = Stopping(c[q])
         /\ \A q \in Request \ R : conn'[q] = c[q]
         /\ fate' \in [Request -> {"open", "complete", "aborted"}]
         /\ \A q \in Request \ R : fate'[q] = fate[q] /\ (q \in due' <=> q \in due)
         /\ due' \subseteq Request
         /\ \/ /\ ~terminated' /\ \A q \in R : fate'[q] = "aborted" /\ q \in due'
               /\ \A p \in Piece : p \in deadlines \/ (\E ok \in BOOLEAN : a[<<p, ok>>] > 0) => Coming(p)'
            \/ ~valid /\ terminated' /\ UNCHANGED <<fate, due>>
<1> DEFINE P == UNION {Released(c[r]) : r \in R}
<1>1. TorrentTypes /\ RequestTypes /\ StreamTypes /\ Caught
  BY DEF TypeInv
<1>2. conn' = [r \in Request |-> IF r \in R THEN Stopping(c[r]) ELSE c[r]]
  BY DEF Abort
<1>3. ConnTypes'
  <2>1. \A q \in Request : Stopping(c[q]) \in Conn /\ c[q] \in Conn
    BY StoppingFields
  <2>. QED
    BY <1>2, <2>1 DEF ConnTypes
<1>4. CASE valid \/ P = {}
  <2>1. /\ ResetDeadlines(a, P)
        /\ fate' = [r \in Request |-> IF r \in R THEN "aborted" ELSE fate[r]]
        /\ due' = due \cup R /\ terminated' = terminated
    BY <1>4 DEF Abort
  <2>2. /\ TorrentTypes'
        /\ \A p \in Piece : p \in deadlines \/ (\E ok \in BOOLEAN : a[<<p, ok>>] > 0) => Coming(p)'
    BY <1>1, <2>1, DeadlinesReset
  <2>3. fate' \in [Request -> {"open", "complete", "aborted"}] /\ due' \subseteq Request
    BY <1>1, <2>1 DEF StreamTypes, RequestTypes
  <2>4. Caught' /\ terminated' \in BOOLEAN /\ ~terminated'
    BY <1>1, <2>1 DEF Caught, RequestTypes
  <2>5. (\A q \in R : conn'[q] = Stopping(c[q])) /\ (\A q \in Request \ R : conn'[q] = c[q])
    BY <1>2
  <2>6. /\ \A q \in R : fate'[q] = "aborted" /\ q \in due'
        /\ \A q \in Request \ R : fate'[q] = fate[q] /\ (q \in due' <=> q \in due)
    BY <2>1
  <2>. QED
    BY <1>3, <2>2, <2>3, <2>4, <2>5, <2>6
<1>5. CASE ~(valid \/ P = {})
  <2>1. terminated' = TRUE /\ UNCHANGED <<deadlines, alerts>> /\ UNCHANGED <<fate, due>>
    BY <1>5 DEF Abort, Terminate
  <2>2. TorrentTypes' /\ Caught'
    BY <1>1, <1>5, <2>1 DEF TorrentTypes, Caught
  <2>3. fate' \in [Request -> {"open", "complete", "aborted"}] /\ due' \subseteq Request
    BY <1>1, <2>1 DEF StreamTypes, RequestTypes
  <2>. QED
    BY <1>2, <1>3, <1>5, <2>1, <2>2, <2>3
<1>. QED
  BY <1>4, <1>5

\* What sending a piece to the requests of R does to libtorrent.
LEMMA SendEffect ==
  ASSUME TypeInv, NEW R \in SUBSET Request, IsFiniteSet(R), NEW a \in [Piece \X BOOLEAN -> Nat],
         \A r \in R : conn[r].m_next_piece < Pieces,
         Send(R, a), UNCHANGED <<have, valid>>, ~terminated
  PROVE  /\ TorrentTypes' /\ Caught' /\ terminated' \in BOOLEAN
         /\ \A q \in R : wire'[q] = wire[q] \o Chunk(conn[q])
         /\ \A q \in Request \ R : wire'[q] = wire[q]
         /\ wire' \in [Request -> Seq(Int)]
         /\ \/ /\ ~terminated'
               /\ \A p \in Piece : p \in deadlines \/ (\E ok \in BOOLEAN : a[<<p, ok>>] > 0) => Coming(p)'
               /\ \A q \in R : \A p \in Prefetched(Sending(conn[q])) : Coming(p)'
            \/ ~valid /\ terminated'
<1>1. TorrentTypes /\ RequestTypes /\ StreamTypes /\ ConnTypes /\ Caught
  BY DEF TypeInv
<1>2. wire' = [r \in Request |-> IF r \in R THEN wire[r] \o Chunk(conn[r]) ELSE wire[r]]
  BY DEF Send
<1>3. wire' \in [Request -> Seq(Int)]
  <2>1. ASSUME NEW r \in R PROVE wire[r] \o Chunk(conn[r]) \in Seq(Int)
    <3>1. PICK c \in Conn : c = conn[r]
      BY <1>1 DEF ConnTypes
    <3>2. PICK b, n : b = c.m_next_piece * PieceSize + c.m_offset /\ n = Size(c)
      OBVIOUS
    <3>3. b \in Int /\ n \in Nat
      BY <3>2, ConnFields, SizeBounds, Sizes
    <3>4. [i \in 1 .. n |-> b + i - 1] \in Seq(Int)
      BY <3>3
    <3>5. Chunk(c) \in Seq(Int)
      BY <3>2, <3>4 DEF Chunk, Bytes
    <3>. QED
      BY <1>1, <3>1, <3>5, ConcatProperties DEF StreamTypes
  <2>2. \A r \in Request : wire'[r] \in Seq(Int)
    BY <1>1, <1>2, <2>1 DEF StreamTypes
  <2>. QED
    BY <1>2, <2>2
<1> DEFINE P == [r \in R |-> Prefetched(Sending(conn[r]))]
<1>4. /\ \A r \in R : P[r] = Prefetched(Sending(conn[r]))
      /\ DOMAIN P = R
      /\ IF valid \/ UNION {P[r] : r \in R} = {} THEN SetDeadlines(a, P) /\ UNCHANGED terminated ELSE Terminate
  <2>1. IF valid \/ UNION {P[r] : r \in R} = {} THEN SetDeadlines(a, P) /\ UNCHANGED terminated ELSE Terminate
    BY Zenon DEF Send
  <2>. QED
    BY <2>1
<1>. HIDE DEF P
<1>5. ASSUME NEW r \in R PROVE P[r] \subseteq Piece
  <2>1. conn[r] \in Conn /\ conn[r].m_next_piece < Pieces
    BY <1>1 DEF ConnTypes
  <2>2. Sending(conn[r]) \in Conn
    BY <2>1, SendingFields
  <2>. QED
    BY <1>4, <2>2, PrefetchedPieces
<1>6. CASE valid \/ UNION {P[r] : r \in R} = {}
  <2>1. SetDeadlines(a, P) /\ terminated' = terminated
    BY <1>4, <1>6
  <2>2. DOMAIN P = R
    BY <1>4
  <2>3. /\ TorrentTypes'
        /\ \A p \in Piece : p \in deadlines \/ (\E ok \in BOOLEAN : a[<<p, ok>>] > 0) => Coming(p)'
        /\ \A r \in R : \A p \in P[r] : Coming(p)'
    BY <1>1, <1>5, <2>1, <2>2, DeadlinesSet
  <2>4. \A q \in R : \A p \in Prefetched(Sending(conn[q])) : Coming(p)'
    BY <1>4, <2>3
  <2>5. Caught' /\ terminated' \in BOOLEAN /\ ~terminated'
    BY <1>1, <2>1 DEF Caught, RequestTypes
  <2>6. (\A q \in R : wire'[q] = wire[q] \o Chunk(conn[q])) /\ (\A q \in Request \ R : wire'[q] = wire[q])
    BY <1>2
  <2>. QED
    BY <1>3, <2>3, <2>4, <2>5, <2>6
<1>7. CASE ~(valid \/ UNION {P[r] : r \in R} = {})
  <2>1. terminated' = TRUE /\ UNCHANGED <<deadlines, alerts>>
    BY <1>4, <1>7 DEF Terminate
  <2>2. TorrentTypes' /\ Caught'
    BY <1>1, <1>7, <2>1 DEF TorrentTypes, Caught
  <2>3. ~valid /\ terminated' /\ terminated' \in BOOLEAN
    BY <1>1, <1>7, <2>1 DEF RequestTypes
  <2>4. (\A q \in R : wire'[q] = wire[q] \o Chunk(conn[q])) /\ (\A q \in Request \ R : wire'[q] = wire[q])
    BY <1>2
  <2>. QED
    BY <1>3, <2>2, <2>3, <2>4
<1>. QED
  BY <1>6, <1>7

\* A piece is sent, and those that come into the window get a deadline.
LEMMA SentFields ==
  ASSUME NEW c \in Conn, c.m_next_piece < Pieces, NEW d, d = WithDeadlines(Sending(c))
  PROVE  /\ d \in Conn
         /\ d.m_next_piece = c.m_next_piece + 1 /\ d.m_left_to_send = c.m_left_to_send - Size(c)
         /\ d.m_offset = 0 /\ d.m_out_of_order = c.m_out_of_order \ {c.m_next_piece} /\ d.m_writing = TRUE
         /\ d.m_end_piece = c.m_end_piece /\ d.m_stopped = c.m_stopped
         /\ c.m_next_priority_piece <= c.m_end_piece => d.m_next_priority_piece <= c.m_end_piece
         /\ ~c.m_stopped /\ d.m_next_piece < d.m_end_piece => d.m_next_piece < d.m_next_priority_piece
         /\ ~c.m_stopped => \A p \in Nat :
              p \in Prefetched(Sending(c)) <=> p >= c.m_next_priority_piece /\ p < d.m_next_priority_piece
<1>1. PICK s : s = Sending(c)
  OBVIOUS
<1>2. /\ s \in Conn
      /\ s.m_next_piece = c.m_next_piece + 1 /\ s.m_left_to_send = c.m_left_to_send - Size(c)
      /\ s.m_offset = 0 /\ s.m_out_of_order = c.m_out_of_order \ {c.m_next_piece} /\ s.m_writing = TRUE
      /\ s.m_next_priority_piece = c.m_next_priority_piece
      /\ s.m_end_piece = c.m_end_piece /\ s.m_stopped = c.m_stopped
  BY <1>1, SendingFields
<1>3. PICK k : k = s.m_next_priority_piece + Cardinality(Prefetched(s))
  OBVIOUS
<1>4. /\ ~s.m_stopped => \A p \in Nat : p \in Prefetched(s) <=> p >= s.m_next_priority_piece /\ p < k
      /\ ~s.m_stopped /\ s.m_next_piece < s.m_end_piece => s.m_next_piece < k
      /\ s.m_next_priority_piece <= s.m_end_piece => k <= s.m_end_piece
  BY <1>2, <1>3, PrefetchedPieces
<1>5. d = WithDeadlines(s)
  BY <1>1
<1>6. /\ d \in Conn /\ d.m_next_priority_piece = k
      /\ d.m_next_piece = s.m_next_piece /\ d.m_end_piece = s.m_end_piece /\ d.m_offset = s.m_offset
      /\ d.m_left_to_send = s.m_left_to_send /\ d.m_out_of_order = s.m_out_of_order
      /\ d.m_writing = s.m_writing /\ d.m_stopped = s.m_stopped
  BY <1>2, <1>3, <1>5, WithDeadlinesFields
<1>. QED
  BY <1>1, <1>2, <1>4, <1>6

Waiting(p) == {r \in Wanting(p) : ~conn[r].m_writing /\ conn[r].m_next_piece = p}

\* A piece was read: it is sent to those that wait for it, and kept for the others.
LEMMA PieceReadEffect ==
  ASSUME TypeInv, NEW p \in Piece, PieceRead(p), ~terminated
  PROVE  /\ TorrentTypes' /\ Caught' /\ terminated' \in BOOLEAN /\ ConnTypes'
         /\ wire' \in [Request -> Seq(Int)]
         /\ \A r \in Waiting(p) : /\ conn'[r] = WithDeadlines(Sending(conn[r]))
                                  /\ wire'[r] = wire[r] \o Chunk(conn[r])
         /\ \A r \in Request \ Waiting(p) : wire'[r] = wire[r]
         /\ \A r \in Wanting(p) \ Waiting(p) : conn'[r] = [conn[r] EXCEPT !.m_out_of_order = @ \cup {p}]
         /\ \A r \in Request \ Wanting(p) : conn'[r] = conn[r]
         /\ \/ /\ ~terminated'
               /\ \A q \in Piece : q # p /\ Coming(q) => Coming(q)'
               /\ \A r \in Waiting(p) : \A q \in Prefetched(Sending(conn[r])) : Coming(q)'
            \/ ~valid /\ terminated'
<1>1. TorrentTypes /\ RequestTypes /\ StreamTypes /\ ConnTypes
  BY DEF TypeInv
<1>2. PICK send, a : send = Waiting(p) /\ a = [alerts EXCEPT ![<<p, TRUE>>] = @ - 1]
  OBVIOUS
<1>3. /\ a \in [Piece \X BOOLEAN -> Nat]
      /\ \A q \in Piece : q # p => \A good \in BOOLEAN : a[<<q, good>>] = alerts[<<q, good>>]
  BY <1>1, <1>2, ReadHandled DEF TorrentTypes, PieceRead
<1>4. /\ Send(send, a) /\ UNCHANGED <<have, valid>>
      /\ conn' = [r \in Request |->
                    IF r \in send THEN WithDeadlines(Sending(conn[r]))
                    ELSE IF r \in Wanting(p) THEN [conn[r] EXCEPT !.m_out_of_order = @ \cup {p}]
                    ELSE conn[r]]
  BY <1>2 DEF PieceRead, Waiting
<1>5. /\ send \in SUBSET Request /\ IsFiniteSet(send)
      /\ \A r \in send : conn[r].m_next_piece < Pieces
  <2>1. send \subseteq m_outstanding_requests
    BY <1>2 DEF Waiting, Wanting
  <2>2. \A r \in send : conn[r].m_next_piece = p
    BY <1>2 DEF Waiting
  <2>. QED
    BY <1>1, <2>1, <2>2, FS_Subset, Sizes DEF RequestTypes, Piece
<1>6. /\ TorrentTypes' /\ Caught' /\ terminated' \in BOOLEAN
      /\ \A q \in send : wire'[q] = wire[q] \o Chunk(conn[q])
      /\ \A q \in Request \ send : wire'[q] = wire[q]
      /\ wire' \in [Request -> Seq(Int)]
      /\ \/ /\ ~terminated'
            /\ \A q \in Piece : q \in deadlines \/ (\E ok \in BOOLEAN : a[<<q, ok>>] > 0) => Coming(q)'
            /\ \A q \in send : \A x \in Prefetched(Sending(conn[q])) : Coming(x)'
         \/ ~valid /\ terminated'
  BY <1>3, <1>4, <1>5, SendEffect
<1>7. ConnTypes'
  <2> SUFFICES ASSUME NEW r \in Request PROVE conn'[r] \in Conn
    BY <1>4 DEF ConnTypes
  <2>1. conn[r] \in Conn
    BY <1>1 DEF ConnTypes
  <2>2. CASE r \in send
    BY <1>4, <1>5, <2>1, <2>2, SentFields
  <2>3. CASE r \notin send /\ r \in Wanting(p)
    BY <1>4, <2>1, <2>3, EarlyFields
  <2>4. CASE r \notin send /\ r \notin Wanting(p)
    BY <1>4, <2>1, <2>4
  <2>. QED
    BY <2>2, <2>3, <2>4
<1>8. \A q \in Piece : q # p /\ Coming(q) => q \in deadlines \/ \E ok \in BOOLEAN : a[<<q, ok>>] > 0
  BY <1>3 DEF Coming
<1>9. /\ \A r \in send : conn'[r] = WithDeadlines(Sending(conn[r]))
      /\ \A r \in Wanting(p) \ send : conn'[r] = [conn[r] EXCEPT !.m_out_of_order = @ \cup {p}]
      /\ \A r \in Request \ Wanting(p) : conn'[r] = conn[r]
  <2>1. send \subseteq Wanting(p) /\ Wanting(p) \subseteq Request
    BY <1>1, <1>2 DEF Waiting, Wanting, RequestTypes
  <2>. QED
    BY <1>4, <2>1
<1>10. \/ /\ ~terminated'
          /\ \A q \in Piece : q # p /\ Coming(q) => Coming(q)'
          /\ \A r \in Waiting(p) : \A q \in Prefetched(Sending(conn[r])) : Coming(q)'
       \/ ~valid /\ terminated'
  BY <1>2, <1>6, <1>8
<1>. QED
  BY <1>2, <1>6, <1>7, <1>9, <1>10

\* A piece could not be read: whoever wants it is given up.
LEMMA PieceNotReadEffect ==
  ASSUME TypeInv, NEW p \in Piece, PieceNotRead(p), ~terminated
  PROVE  /\ TorrentTypes' /\ Caught' /\ terminated' \in BOOLEAN /\ ConnTypes'
         /\ \A r \in Wanting(p) : conn'[r] = Stopping(conn[r])
         /\ \A r \in Request \ Wanting(p) : conn'[r] = conn[r]
         /\ fate' \in [Request -> {"open", "complete", "aborted"}] /\ due' \subseteq Request
         /\ \A r \in Request \ Wanting(p) : fate'[r] = fate[r] /\ (r \in due' <=> r \in due)
         /\ \/ /\ ~terminated' /\ \A r \in Wanting(p) : fate'[r] = "aborted" /\ r \in due'
               /\ \A q \in Piece : q # p /\ Coming(q) => Coming(q)'
            \/ ~valid /\ terminated' /\ UNCHANGED <<fate, due>>
<1>1. TorrentTypes /\ RequestTypes /\ ConnTypes
  BY DEF TypeInv
<1>2. PICK R, a : R = Wanting(p) /\ a = [alerts EXCEPT ![<<p, FALSE>>] = @ - 1]
  OBVIOUS
<1>3. /\ a \in [Piece \X BOOLEAN -> Nat]
      /\ \A q \in Piece : q # p => \A good \in BOOLEAN : a[<<q, good>>] = alerts[<<q, good>>]
  BY <1>1, <1>2, ReadHandled DEF TorrentTypes, PieceNotRead
<1>4. Abort(R, a, conn) /\ UNCHANGED <<have, valid>>
  BY <1>2 DEF PieceNotRead
<1>5. R \in SUBSET Request /\ conn \in [Request -> Conn]
  BY <1>1, <1>2 DEF Wanting, RequestTypes, ConnTypes
<1>6. \A q \in Piece : q # p /\ Coming(q) => q \in deadlines \/ \E ok \in BOOLEAN : a[<<q, ok>>] > 0
  BY <1>3 DEF Coming
<1>7. /\ TorrentTypes' /\ ConnTypes' /\ Caught' /\ terminated' \in BOOLEAN
      /\ \A q \in R : conn'[q] = Stopping(conn[q])
      /\ \A q \in Request \ R : conn'[q] = conn[q]
      /\ fate' \in [Request -> {"open", "complete", "aborted"}]
      /\ \A q \in Request \ R : fate'[q] = fate[q] /\ (q \in due' <=> q \in due)
      /\ due' \subseteq Request
      /\ \/ /\ ~terminated' /\ \A q \in R : fate'[q] = "aborted" /\ q \in due'
            /\ \A q \in Piece : q \in deadlines \/ (\E ok \in BOOLEAN : a[<<q, ok>>] > 0) => Coming(q)'
         \/ ~valid /\ terminated' /\ UNCHANGED <<fate, due>>
  BY <1>3, <1>4, <1>5, AbortEffect
<1>. QED
  BY <1>2, <1>6, <1>7

\* A request is given up while it writes, or by shutdown().
LEMMA OneAborted ==
  ASSUME TypeInv, NEW r \in Request, NEW c \in [Request -> Conn], Abort({r}, alerts, c),
         UNCHANGED <<have, valid>>, ~terminated
  PROVE  /\ TorrentTypes' /\ Caught' /\ terminated' \in BOOLEAN /\ ConnTypes'
         /\ conn'[r] = Stopping(c[r])
         /\ \A q \in Request \ {r} : conn'[q] = c[q]
         /\ fate' \in [Request -> {"open", "complete", "aborted"}] /\ due' \subseteq Request
         /\ \A q \in Request \ {r} : fate'[q] = fate[q] /\ (q \in due' <=> q \in due)
         /\ \/ /\ ~terminated' /\ fate'[r] = "aborted" /\ r \in due'
               /\ \A q \in Piece : Coming(q) => Coming(q)'
            \/ ~valid /\ terminated' /\ UNCHANGED <<fate, due>>
<1>1. TorrentTypes
  BY DEF TypeInv
<1>2. {r} \in SUBSET Request /\ alerts \in [Piece \X BOOLEAN -> Nat]
  BY <1>1 DEF TorrentTypes
<1>3. /\ TorrentTypes' /\ ConnTypes' /\ Caught' /\ terminated' \in BOOLEAN
      /\ \A q \in {r} : conn'[q] = Stopping(c[q])
      /\ \A q \in Request \ {r} : conn'[q] = c[q]
      /\ fate' \in [Request -> {"open", "complete", "aborted"}]
      /\ \A q \in Request \ {r} : fate'[q] = fate[q] /\ (q \in due' <=> q \in due)
      /\ due' \subseteq Request
      /\ \/ /\ ~terminated' /\ \A q \in {r} : fate'[q] = "aborted" /\ q \in due'
            /\ \A q \in Piece : q \in deadlines \/ (\E ok \in BOOLEAN : alerts[<<q, ok>>] > 0) => Coming(q)'
         \/ ~valid /\ terminated' /\ UNCHANGED <<fate, due>>
  BY <1>2, AbortEffect
<1>. QED
  BY <1>3 DEF Coming

\* The next piece had come early.
LEMMA NextSent ==
  ASSUME TypeInv, NEW r \in Request, WriteNext(r), conn[r].m_next_piece \in conn[r].m_out_of_order, ~terminated
  PROVE  /\ TorrentTypes' /\ Caught' /\ terminated' \in BOOLEAN /\ ConnTypes'
         /\ wire' \in [Request -> Seq(Int)]
         /\ conn[r].m_next_piece < Pieces
         /\ conn'[r] = WithDeadlines(Sending(conn[r])) /\ wire'[r] = wire[r] \o Chunk(conn[r])
         /\ \A q \in Request \ {r} : conn'[q] = conn[q] /\ wire'[q] = wire[q]
         /\ \/ /\ ~terminated' /\ \A q \in Piece : Coming(q) => Coming(q)'
               /\ \A q \in Prefetched(Sending(conn[r])) : Coming(q)'
            \/ ~valid /\ terminated'
<1>1. TorrentTypes /\ ConnTypes
  BY DEF TypeInv
<1>2. conn[r] \in Conn
  BY <1>1 DEF ConnTypes
<1>3. conn[r].m_next_piece < Pieces
  BY <1>2, ConnFields, Sizes DEF Piece
<1>4. {r} \in SUBSET Request /\ alerts \in [Piece \X BOOLEAN -> Nat] /\ IsFiniteSet({r})
  BY <1>1, FS_Singleton DEF TorrentTypes
<1>5. /\ Send({r}, alerts) /\ UNCHANGED <<have, valid>>
      /\ conn' = [conn EXCEPT ![r] = WithDeadlines(Sending(conn[r]))]
  BY DEF WriteNext
<1>6. /\ TorrentTypes' /\ Caught' /\ terminated' \in BOOLEAN
      /\ \A q \in {r} : wire'[q] = wire[q] \o Chunk(conn[q])
      /\ \A q \in Request \ {r} : wire'[q] = wire[q]
      /\ wire' \in [Request -> Seq(Int)]
      /\ \/ /\ ~terminated'
            /\ \A p \in Piece : p \in deadlines \/ (\E ok \in BOOLEAN : alerts[<<p, ok>>] > 0) => Coming(p)'
            /\ \A q \in {r} : \A p \in Prefetched(Sending(conn[q])) : Coming(p)'
         \/ ~valid /\ terminated'
  BY <1>3, <1>4, <1>5, SendEffect
<1>7. ConnTypes' /\ conn'[r] = WithDeadlines(Sending(conn[r])) /\ \A q \in Request \ {r} : conn'[q] = conn[q]
  <2>1. WithDeadlines(Sending(conn[r])) \in Conn
    BY <1>2, <1>3, SentFields
  <2>. QED
    BY <1>1, <1>5, <2>1 DEF ConnTypes
<1>. QED
  BY <1>3, <1>6, <1>7 DEF Coming

\* The pieces of a new request get their deadlines.
LEMMA DeadlinesGiven ==
  ASSUME TypeInv, NEW r \in Request, SetPieceDeadlines(r), ~terminated, valid \/ Prefetched(conn[r]) = {}
  PROVE  /\ TorrentTypes' /\ ConnTypes'
         /\ conn'[r] = WithDeadlines(conn[r]) /\ pc' = [pc EXCEPT ![r] = "deadlines"]
         /\ \A q \in Request \ {r} : conn'[q] = conn[q]
         /\ \A q \in Piece : Coming(q) => Coming(q)'
         /\ \A q \in Prefetched(conn[r]) : Coming(q)'
         /\ UNCHANGED <<dones, fate, have, valid, range, m_outstanding_requests, due, wire, shutdownVars, terminated>>
<1>1. TorrentTypes /\ ConnTypes
  BY DEF TypeInv
<1>2. conn[r] \in Conn
  BY <1>1 DEF ConnTypes
<1>3. PICK P : P = [q \in {r} |-> Prefetched(conn[r])]
  OBVIOUS
<1>4. DOMAIN P = {r} /\ P[r] = Prefetched(conn[r]) /\ P[r] \subseteq Piece /\ IsFiniteSet(DOMAIN P)
  BY <1>2, <1>3, PrefetchedPieces, FS_Singleton
<1>5. /\ SetDeadlines(alerts, P) /\ pc' = [pc EXCEPT ![r] = "deadlines"]
      /\ conn' = [conn EXCEPT ![r] = WithDeadlines(conn[r])]
      /\ UNCHANGED <<dones, fate, have, valid, range, m_outstanding_requests, due, wire, shutdownVars, terminated>>
  BY <1>3 DEF SetPieceDeadlines
<1>6. alerts \in [Piece \X BOOLEAN -> Nat] /\ \A q \in DOMAIN P : P[q] \subseteq Piece
  BY <1>1, <1>4 DEF TorrentTypes
<1>7. /\ TorrentTypes'
      /\ \A p \in Piece : p \in deadlines \/ (\E ok \in BOOLEAN : alerts[<<p, ok>>] > 0) => Coming(p)'
      /\ \A q \in DOMAIN P : \A p \in P[q] : Coming(p)'
  BY <1>1, <1>4, <1>5, <1>6, DeadlinesSet
<1>8. ConnTypes' /\ conn'[r] = WithDeadlines(conn[r]) /\ \A q \in Request \ {r} : conn'[q] = conn[q]
  <2>1. WithDeadlines(conn[r]) \in Conn
    BY <1>2, WithDeadlinesFields
  <2>. QED
    BY <1>1, <1>5, <2>1 DEF ConnTypes
<1>. QED
  BY <1>4, <1>5, <1>7, <1>8 DEF Coming

-----------------------------------------------------------------------------
(* One request.                                                            *)

\* Where it is in its range.
Placed(r) ==
  /\ conn[r].m_next_piece <= conn[r].m_end_piece
  /\ conn[r].m_next_priority_piece <= conn[r].m_end_piece
  /\ range[r].first + range[r].total <= conn[r].m_end_piece * PieceSize
  /\ Len(wire[r]) + conn[r].m_left_to_send = range[r].total
  /\ conn[r].m_left_to_send > 0 =>
       conn[r].m_next_piece * PieceSize + conn[r].m_offset = range[r].first + Len(wire[r])

\* How its response ended, and what is left of it.
Fates(r) ==
  /\ pc[r] = "idle" => /\ fate[r] = "open" /\ wire[r] = <<>> /\ ~conn[r].m_stopped
                       /\ r \notin m_outstanding_requests /\ r \notin due /\ r \notin cancelling
  /\ conn[r].m_stopped => terminated \/ fate[r] # "open"
  /\ ~conn[r].m_stopped /\ fate[r] # "open" => pc[r] = "failed"
  /\ pc[r] = "failed" => fate[r] = "aborted"
  /\ fate[r] = "complete" => pc[r] \in {"header", "done"}
  /\ r \in m_outstanding_requests /\ ~conn[r].m_stopped /\ ~conn[r].m_writing => pc[r] = "header"
  /\ pc[r] = "done" \/ r \in due => conn[r].m_stopped

\* How often the connection was told.
Told(r) ==
  valid => /\ pc[r] # "failed" /\ dones[r] = (IF pc[r] = "done" THEN 1 ELSE 0)
           /\ pc[r] = "done" => r \notin due /\ r \notin m_outstanding_requests

RequestInv(r) == (pc[r] # "idle" => Placed(r)) /\ Fates(r) /\ Told(r)

\* A step of its stream, or none.
StreamStep(r) ==
  Stream!Write(r) \/ Stream!Complete(r) \/ Stream!Abort(r) \/ UNCHANGED <<wire[r], fate[r]>>

\* What every step keeps.
Onward == TypeInv /\ TypeInv' /\ ~terminated /\ (valid' => valid) /\ UNCHANGED range

\* All of it but the members, the stream and its end.  It may leave the map.
Elsewhere(r) ==
  /\ pc'[r] = pc[r] /\ dones'[r] = dones[r]
  /\ r \in m_outstanding_requests' => r \in m_outstanding_requests
  /\ r \in cancelling' => r \in cancelling \/ r \in m_outstanding_requests

\* The step is that of other requests, or the torrent's.
LEMMA OtherRequest ==
  ASSUME Onward, NEW r \in Request, RequestInv(r), Elsewhere(r), UNCHANGED <<conn[r], wire[r], fate[r]>>,
         r \in due' <=> r \in due
  PROVE  RequestInv(r)' /\ StreamStep(r)
<1>1. pc[r] # "idle" => Placed(r)'
  BY DEF RequestInv, Placed, Onward, Elsewhere
<1>2. Fates(r)'
  BY DEF RequestInv, Fates, Elsewhere, Onward
<1>3. Told(r)'
  BY DEF RequestInv, Told, Elsewhere, Onward
<1>. QED
  BY <1>1, <1>2, <1>3 DEF RequestInv, StreamStep, Elsewhere

\* Its members change, but not where it is in its range, nor whether it has stopped.
LEMMA MembersChange ==
  ASSUME Onward, NEW r \in Request, RequestInv(r), Elsewhere(r), UNCHANGED <<wire[r], fate[r]>>,
         r \in due' <=> r \in due, pc[r] # "idle",
         Alike(conn[r], conn'[r]), conn'[r].m_stopped = conn[r].m_stopped,
         conn'[r].m_writing = conn[r].m_writing \/ conn[r].m_stopped \/ pc[r] = "header"
  PROVE  RequestInv(r)' /\ StreamStep(r)
<1>1. pc[r] # "idle" => Placed(r)'
  BY DEF RequestInv, Placed, Onward, Elsewhere, Alike
<1>2. Fates(r)'
  BY DEF RequestInv, Fates, Elsewhere, Onward
<1>3. Told(r)'
  BY DEF RequestInv, Told, Elsewhere, Onward
<1>. QED
  BY <1>1, <1>2, <1>3 DEF RequestInv, StreamStep, Elsewhere

\* It is given up: the deadlines are taken back and it is going to be told, or that
\* throws, for the torrent is gone.
LEMMA GivenUp ==
  ASSUME Onward, NEW r \in Request, RequestInv(r), Elsewhere(r), wire'[r] = wire[r],
         pc[r] # "idle", ~conn[r].m_stopped, Alike(conn[r], conn'[r]), conn'[r].m_stopped,
         \/ fate'[r] = "aborted" /\ r \in due'
         \/ terminated' /\ fate'[r] = fate[r] /\ (r \in due' <=> r \in due)
  PROVE  RequestInv(r)' /\ StreamStep(r)
<1>1. Placed(r)'
  BY DEF RequestInv, Placed, Onward, Elsewhere, Alike
<1>2. pc[r] # "done" /\ r \notin due /\ (fate[r] = "open" \/ fate[r] = "aborted")
  BY DEF RequestInv, Fates
<1>3. Fates(r)'
  BY <1>2 DEF RequestInv, Fates, Elsewhere, Onward
<1>4. Told(r)'
  BY <1>2 DEF RequestInv, Told, Elsewhere, Onward
<1>5. StreamStep(r)
  BY <1>2 DEF StreamStep, Stream!Abort
<1>. QED
  BY <1>1, <1>3, <1>4, <1>5 DEF RequestInv

\* The next piece of it is sent.
LEMMA PieceSent ==
  ASSUME Onward, NEW r \in Request, RequestInv(r), Elsewhere(r), fate'[r] = fate[r], r \in due' <=> r \in due,
         pc[r] = "header", ~conn[r].m_stopped, conn[r].m_next_piece < conn[r].m_end_piece,
         conn'[r] = WithDeadlines(Sending(conn[r])), wire'[r] = wire[r] \o Chunk(conn[r])
  PROVE  RequestInv(r)' /\ StreamStep(r)
<1>1. PICK c \in Conn : c = conn[r]
  BY DEF Onward, TypeInv, ConnTypes
<1>2. PICK d : d = conn'[r]
  OBVIOUS
<1>3. /\ c.m_next_piece \in Nat /\ c.m_offset \in Nat /\ c.m_offset < PieceSize /\ c.m_left_to_send \in Nat
      /\ c.m_end_piece \in Nat /\ c.m_next_piece < Pieces
  <2>1. /\ c.m_next_piece \in Nat /\ c.m_offset \in Nat /\ c.m_offset < PieceSize /\ c.m_left_to_send \in Nat
        /\ c.m_end_piece \in Nat /\ c.m_end_piece <= Pieces
    BY ConnFields
  <2>2. c.m_next_piece < c.m_end_piece
    BY <1>1
  <2>. QED
    BY <2>1, <2>2, Sizes
<1>4. /\ d.m_next_piece = c.m_next_piece + 1 /\ d.m_left_to_send = c.m_left_to_send - Size(c)
      /\ d.m_offset = 0 /\ d.m_end_piece = c.m_end_piece /\ d.m_stopped = c.m_stopped /\ d.m_writing = TRUE
      /\ c.m_next_priority_piece <= c.m_end_piece => d.m_next_priority_piece <= c.m_end_piece
  BY <1>1, <1>2, <1>3, SentFields
<1>5. PICK n, w, b : n = Size(c) /\ w = wire[r] /\ b = c.m_next_piece * PieceSize + c.m_offset
  OBVIOUS
<1>6. /\ n \in Nat /\ n <= c.m_left_to_send /\ (c.m_left_to_send > 0 => n > 0)
      /\ (n = c.m_left_to_send \/ n = PieceSize - c.m_offset)
  BY <1>5, SizeBounds
<1>7. w \in Seq(Int) /\ Len(w) \in Nat
  BY <1>5 DEF Onward, TypeInv, StreamTypes
<1>8. b \in Int
  BY <1>3, <1>5, Sizes
<1>9. Chunk(c) = Bytes(b, n) /\ Bytes(b, n) \in Seq(Int) /\ Len(Bytes(b, n)) = n
  <2>1. PICK x : x = [i \in 1 .. n |-> b + i - 1]
    OBVIOUS
  <2>2. x \in [1 .. n -> Int]
    BY <1>6, <1>8, <2>1
  <2>3. x \in Seq(Int) /\ Len(x) = n
    BY <1>6, <2>2
  <2>4. Bytes(b, n) = x
    BY <2>1 DEF Bytes
  <2>5. Chunk(c) = Bytes(b, n)
    BY <1>5 DEF Chunk
  <2>. QED
    BY <2>3, <2>4, <2>5
<1>10. wire'[r] = w \o Bytes(b, n) /\ Len(wire'[r]) = Len(w) + n
  <2>1. PICK x \in Seq(Int) : x = Bytes(b, n)
    BY <1>9
  <2>2. Len(w \o x) = Len(w) + Len(x)
    BY <1>7, ConcatProperties
  <2>3. wire'[r] = w \o x
    BY <1>1, <1>5, <1>9, <2>1
  <2>. QED
    BY <1>9, <2>1, <2>2, <2>3
<1>11. PICK f, t : f = range[r].first /\ t = range[r].total
  OBVIOUS
<1>12. f \in Nat /\ t \in Nat
  BY <1>11, RangePieces DEF Onward, TypeInv, RequestTypes
<1>13. /\ c.m_next_piece <= c.m_end_piece /\ c.m_next_priority_piece <= c.m_end_piece
       /\ f + t <= c.m_end_piece * PieceSize /\ Len(w) + c.m_left_to_send = t
       /\ c.m_left_to_send > 0 => b = f + Len(w)
  BY <1>1, <1>5, <1>11 DEF RequestInv, Placed
<1>14. d.m_left_to_send > 0 => d.m_next_piece * PieceSize + d.m_offset = f + Len(wire'[r])
  <2>1. ASSUME d.m_left_to_send > 0 PROVE d.m_next_piece * PieceSize + d.m_offset = f + Len(wire'[r])
    <3>1. n = PieceSize - c.m_offset /\ c.m_left_to_send > 0
      BY <1>3, <1>4, <1>5, <1>6, <2>1
    <3>2. (c.m_next_piece + 1) * PieceSize = c.m_next_piece * PieceSize + PieceSize
      BY <1>3, Sizes
    <3>3. b = f + Len(w) /\ b + n = c.m_next_piece * PieceSize + PieceSize
      <4>1. c.m_next_piece * PieceSize \in Nat
        BY <1>3, Sizes
      <4>2. b = f + Len(w) /\ b = c.m_next_piece * PieceSize + c.m_offset
        BY <1>5, <1>13, <3>1
      <4>3. PICK m, o, s : m = c.m_next_piece * PieceSize /\ o = c.m_offset /\ s = PieceSize
        OBVIOUS
      <4>4. m \in Nat /\ o \in Nat /\ s \in Nat /\ n = s - o /\ b = m + o
        BY <1>3, <3>1, <4>1, <4>2, <4>3, Sizes
      <4>5. b + n = m + s
        BY <4>4
      <4>. QED
        BY <4>2, <4>3, <4>5
    <3>4. d.m_next_piece * PieceSize + d.m_offset = b + n
      <4>1. d.m_next_piece * PieceSize = b + n /\ d.m_offset = 0 /\ b + n \in Int
        BY <1>4, <1>6, <1>8, <3>2, <3>3
      <4>. QED
        BY <4>1
    <3>5. f + Len(wire'[r]) = b + n
      <4>1. PICK k, l : k = Len(w) /\ l = Len(wire'[r])
        OBVIOUS
      <4>2. k \in Nat /\ l = k + n /\ b = f + k
        BY <1>7, <1>10, <3>3, <4>1
      <4>. QED
        BY <1>6, <1>12, <4>1, <4>2
    <3>. QED
      BY <3>4, <3>5
  <2>. QED
    BY <2>1
<1>15. Placed(r)'
  <2>1. range'[r] = range[r]
    BY DEF Onward
  <2>2. d.m_next_piece <= d.m_end_piece /\ d.m_next_priority_piece <= d.m_end_piece /\ f + t <= d.m_end_piece * PieceSize
    BY <1>1, <1>3, <1>4, <1>13
  <2>3. Len(wire'[r]) + d.m_left_to_send = t
    <3>1. PICK k : k = c.m_left_to_send
      OBVIOUS
    <3>2. d.m_left_to_send = k - n /\ k \in Nat /\ Len(w) + k = t
      BY <1>3, <1>4, <1>5, <1>13, <3>1
    <3>. QED
      BY <1>6, <1>7, <1>10, <3>2
  <2>. QED
    BY <1>2, <1>11, <1>14, <2>1, <2>2, <2>3 DEF Placed
<1>16. Fates(r)'
  BY <1>1, <1>2, <1>4 DEF RequestInv, Fates, Elsewhere, Onward
<1>17. Told(r)'
  BY DEF RequestInv, Told, Elsewhere, Onward
<1>18. StreamStep(r)
  <2>1. fate[r] = "open"
    BY DEF RequestInv, Fates
  <2>2. CASE n = 0
    <3>1. wire'[r] = wire[r]
      <4>1. Bytes(b, n) = <<>>
        BY <1>6, <1>8, <1>9, <2>2, EmptySeq
      <4>. QED
        BY <1>5, <1>7, <1>10, <4>1, ConcatEmptySeq
    <3>. QED
      BY <3>1 DEF StreamStep
  <2>3. CASE n > 0
    <3>1. c.m_left_to_send > 0 /\ b = f + Len(w) /\ n \in 1 .. (t - Len(w))
      BY <1>3, <1>6, <1>7, <1>12, <1>13, <2>3
    <3>2. Bytes(b, n) = Stream!Bytes(f + Len(w), n)
      BY <3>1 DEF Bytes, Stream!Bytes
    <3>3. Stream!Write(r)
      BY <1>5, <1>10, <1>11, <2>1, <3>1, <3>2 DEF Stream!Write
    <3>. QED
      BY <3>3 DEF StreamStep
  <2>. QED
    BY <1>6, <2>2, <2>3
<1>. QED
  BY <1>15, <1>16, <1>17, <1>18 DEF RequestInv

\* It is entered into the map.
LEMMA Started ==
  ASSUME Onward, NEW r \in Request, RequestInv(r), Start(r)
  PROVE  RequestInv(r)' /\ StreamStep(r)
<1>1. PICK a \in Ranges : a = range[r]
  BY DEF Onward, TypeInv, RequestTypes
<1>2. PICK d : d = NewConn(a)
  OBVIOUS
<1>3. conn'[r] = d /\ pc'[r] = "mapped" /\ range'[r] = a
  <2>1. conn \in [Request -> Conn] /\ pc \in [Request -> Step]
    BY DEF Onward, TypeInv, ConnTypes, RequestTypes
  <2>. QED
    BY <1>1, <1>2, <2>1 DEF Start
<1>4. pc[r] = "idle" /\ UNCHANGED <<wire, fate, due, dones, cancelling, terminated>>
  BY DEF Start, shutdownVars
<1>5. wire[r] = <<>> /\ fate[r] = "open" /\ r \notin due /\ r \notin cancelling
  BY <1>4 DEF RequestInv, Fates
<1>6. /\ d.m_next_piece = PieceOf(a.first) /\ d.m_next_priority_piece = PieceOf(a.first)
      /\ d.m_end_piece = PieceOf(a.first + a.total - 1) + 1
      /\ d.m_offset = a.first % PieceSize /\ d.m_left_to_send = a.total
      /\ d.m_writing = TRUE /\ d.m_stopped = FALSE
  BY <1>2, NewConnFields
<1>7. Placed(r)'
  <2>1. PICK f, t, n, e, o : /\ f = a.first /\ t = a.total /\ n = PieceOf(a.first)
                             /\ e = PieceOf(a.first + a.total - 1) + 1 /\ o = a.first % PieceSize
    OBVIOUS
  <2>2. t \in Nat /\ n <= e /\ f + t <= e * PieceSize /\ n * PieceSize + o = f /\ f \in Nat
    BY <2>1, RangePieces
  <2>3. wire'[r] = <<>> /\ Len(wire'[r]) = 0
    BY <1>4, <1>5
  <2>4. Len(wire'[r]) + d.m_left_to_send = t
    BY <1>6, <2>1, <2>2, <2>3
  <2>5. d.m_next_piece * PieceSize + d.m_offset = f + Len(wire'[r])
    BY <1>6, <2>1, <2>2, <2>3
  <2>6. d.m_next_piece <= d.m_end_piece /\ d.m_next_priority_piece <= d.m_end_piece /\ f + t <= d.m_end_piece * PieceSize
    BY <1>6, <2>1, <2>2
  <2>. QED
    BY <1>3, <2>1, <2>4, <2>5, <2>6 DEF Placed
<1>8. Fates(r)'
  BY <1>3, <1>4, <1>5, <1>6 DEF Fates
<1>9. Told(r)'
  BY <1>3, <1>4, <1>5 DEF RequestInv, Told, Onward
<1>. QED
  BY <1>4, <1>7, <1>8, <1>9 DEF RequestInv, StreamStep

\* The torrent is gone when its handler needs it: the connection answers with an error.
LEMMA Threw ==
  ASSUME Onward, NEW r \in Request, RequestInv(r), HandlerThrows(r), pc[r] \in {"mapped", "deadlines"}, ~valid,
         UNCHANGED <<conn, wire, m_outstanding_requests, due, cancelling, terminated>>
  PROVE  RequestInv(r)' /\ StreamStep(r)
<1>1. pc'[r] = "failed" /\ fate'[r] = "aborted"
  BY DEF HandlerThrows, Onward, TypeInv, RequestTypes, StreamTypes
<1>2. Placed(r)'
  BY DEF RequestInv, Placed, Onward
<1>3. fate[r] = "open" \/ fate[r] = "aborted"
  BY DEF RequestInv, Fates, Onward, TypeInv, StreamTypes
<1>4. Fates(r)'
  BY <1>1 DEF RequestInv, Fates
<1>5. Told(r)'
  BY DEF Told, Onward
<1>6. StreamStep(r)
  BY <1>1, <1>3 DEF StreamStep, Stream!Abort
<1>. QED
  BY <1>2, <1>4, <1>5, <1>6 DEF RequestInv

\* Its first pieces have a deadline, or its header is written.
LEMMA HandlerGoesOn ==
  ASSUME Onward, NEW r \in Request, RequestInv(r), SetPieceDeadlines(r) \/ WriteHeader(r)
  PROVE  RequestInv(r)' /\ StreamStep(r)
<1>1. CASE SetPieceDeadlines(r) /\ (valid \/ Prefetched(conn[r]) = {})
  <2>1. /\ conn'[r] = WithDeadlines(conn[r]) /\ pc' = [pc EXCEPT ![r] = "deadlines"]
        /\ UNCHANGED <<dones, fate, valid, m_outstanding_requests, due, wire, shutdownVars, terminated>>
    BY <1>1, DeadlinesGiven DEF Onward
  <2>2. PICK c \in Conn : c = conn[r]
    BY DEF Onward, TypeInv, ConnTypes
  <2>3. PICK d : d = conn'[r]
    OBVIOUS
  <2>4. /\ d.m_next_priority_piece = c.m_next_priority_piece + Cardinality(Prefetched(c))
        /\ d.m_next_piece = c.m_next_piece /\ d.m_end_piece = c.m_end_piece /\ d.m_offset = c.m_offset
        /\ d.m_left_to_send = c.m_left_to_send
        /\ d.m_writing = c.m_writing /\ d.m_stopped = c.m_stopped
    BY <2>1, <2>2, <2>3, WithDeadlinesFields
  <2>5. c.m_next_priority_piece <= c.m_end_piece => d.m_next_priority_piece <= c.m_end_piece
    BY <2>4, PrefetchedPieces
  <2>6. pc[r] = "mapped" /\ pc'[r] = "deadlines"
    BY <1>1, <2>1 DEF SetPieceDeadlines, Onward, TypeInv, RequestTypes
  <2>7. Placed(r)'
    BY <2>1, <2>2, <2>3, <2>4, <2>5, <2>6 DEF RequestInv, Placed, Onward
  <2>8. Fates(r)'
    BY <2>1, <2>2, <2>3, <2>4, <2>6 DEF RequestInv, Fates, shutdownVars
  <2>9. Told(r)'
    BY <2>1, <2>6 DEF RequestInv, Told
  <2>. QED
    BY <2>1, <2>7, <2>8, <2>9 DEF RequestInv, StreamStep
<1>2. CASE SetPieceDeadlines(r) /\ ~(valid \/ Prefetched(conn[r]) = {})
  BY <1>2, Threw DEF SetPieceDeadlines, shutdownVars
<1>3. CASE WriteHeader(r) /\ valid
  <2>1. /\ pc[r] = "deadlines" /\ pc'[r] = "header"
        /\ UNCHANGED <<conn, dones, fate, valid, m_outstanding_requests, due, wire, cancelling, terminated>>
    BY <1>3 DEF WriteHeader, Onward, TypeInv, RequestTypes, torrentVars, shutdownVars
  <2>2. Placed(r)'
    BY <2>1 DEF RequestInv, Placed, Onward
  <2>3. Fates(r)'
    BY <2>1 DEF RequestInv, Fates
  <2>4. Told(r)'
    BY <2>1 DEF RequestInv, Told
  <2>. QED
    BY <2>1, <2>2, <2>3, <2>4 DEF RequestInv, StreamStep
<1>4. CASE WriteHeader(r) /\ ~valid
  BY <1>4, Threw DEF WriteHeader, shutdownVars, torrentVars
<1>. QED
  BY <1>1, <1>2, <1>3, <1>4

\* A request that sends is one whose header is written.
LEMMA Sender ==
  ASSUME TypeInv, NEW r \in Request, RequestInv(r), Writing(r), ~conn[r].m_stopped, ~terminated
  PROVE  /\ pc[r] = "header" /\ fate[r] = "open" /\ r \notin due
         /\ Placed(r)
BY DEF RequestInv, Fates, Writing

\* A write of it has ended, and it had stopped.
LEMMA StoppedWrite ==
  ASSUME Onward, NEW r \in Request, RequestInv(r), WriteStopped(r)
  PROVE  RequestInv(r)' /\ StreamStep(r)
<1>1. PICK c \in Conn : c = conn[r]
  BY DEF Onward, TypeInv, ConnTypes
<1>2. PICK d : d = conn'[r]
  OBVIOUS
<1>3. d = [c EXCEPT !.m_writing = FALSE]
  BY <1>1, <1>2 DEF WriteStopped, Written, Onward, TypeInv, ConnTypes
<1>4. Alike(c, d) /\ d.m_stopped = c.m_stopped /\ d.m_writing = FALSE
  BY <1>3, WrittenFields
<1>5. pc[r] # "idle" /\ conn[r].m_stopped
  BY DEF WriteStopped, Writing
<1>6. Elsewhere(r) /\ UNCHANGED <<wire[r], fate[r]>> /\ (r \in due' <=> r \in due)
  BY DEF WriteStopped, Elsewhere, shutdownVars
<1>. QED
  BY <1>1, <1>2, <1>4, <1>5, <1>6, MembersChange

\* A write of it has failed.
LEMMA FailedWrite ==
  ASSUME Onward, NEW r \in Request, RequestInv(r), WriteFails(r)
  PROVE  RequestInv(r)' /\ StreamStep(r)
<1>1. PICK c \in Conn : c = conn[r]
  BY DEF Onward, TypeInv, ConnTypes
<1>2. PICK w : w = [c EXCEPT !.m_writing = FALSE]
  OBVIOUS
<1>3. w \in Conn /\ Alike(c, w)
  BY <1>2, WrittenFields
<1>4. PICK m \in [Request -> Conn] : m = [conn EXCEPT ![r] = w]
  BY <1>3 DEF Onward, TypeInv, ConnTypes
<1>5. m[r] = w
  BY <1>4 DEF Onward, TypeInv, ConnTypes
<1>6. Abort({r}, alerts, m) /\ UNCHANGED <<have, valid>> /\ ~terminated
  BY <1>1, <1>2, <1>4 DEF WriteFails, Written, Onward
<1>7. /\ conn'[r] = Stopping(w)
      /\ \/ ~terminated' /\ fate'[r] = "aborted" /\ r \in due'
         \/ ~valid /\ terminated' /\ UNCHANGED <<fate, due>>
  BY <1>5, <1>6, OneAborted DEF Onward
<1>8. PICK d : d = conn'[r]
  OBVIOUS
<1>9. Alike(w, d) /\ d.m_stopped
  BY <1>3, <1>7, <1>8, StoppingFields
<1>10. Alike(c, d)
  BY <1>3, <1>9 DEF Alike
<1>11. pc[r] # "idle" /\ ~conn[r].m_stopped /\ Elsewhere(r) /\ wire'[r] = wire[r]
  BY DEF WriteFails, Writing, Elsewhere, shutdownVars
<1>. QED
  BY <1>1, <1>7, <1>8, <1>9, <1>10, <1>11, GivenUp

\* The last write of it has ended: all its bytes were written.
LEMMA LastWrite ==
  ASSUME Onward, NEW r \in Request, RequestInv(r), WriteLast(r)
  PROVE  RequestInv(r)' /\ StreamStep(r)
<1>1. PICK c \in Conn : c = conn[r]
  BY DEF Onward, TypeInv, ConnTypes
<1>2. PICK w, d : w = [c EXCEPT !.m_writing = FALSE] /\ d = [w EXCEPT !.m_stopped = TRUE]
  OBVIOUS
<1>3. conn'[r] = d
  BY <1>1, <1>2 DEF WriteLast, Written, Onward, TypeInv, ConnTypes
<1>4. w \in Conn /\ Alike(c, w)
  BY <1>2, WrittenFields
<1>5. d \in Conn /\ Alike(w, d) /\ d.m_stopped = TRUE
  BY <1>2, <1>4, LastFields
<1>6. Alike(c, d)
  BY <1>4, <1>5 DEF Alike
<1>7. /\ pc[r] = "header" /\ fate[r] = "open" /\ r \notin due /\ Placed(r)
  BY Sender DEF WriteLast, Onward
<1>8. /\ fate'[r] = "complete" /\ r \in due' /\ c.m_next_piece = c.m_end_piece
      /\ UNCHANGED <<wire, pc, dones, m_outstanding_requests, cancelling, terminated, valid>>
  BY <1>1 DEF WriteLast, Onward, TypeInv, StreamTypes, shutdownVars, torrentVars
<1>9. Len(wire[r]) = range[r].total
  <2>1. PICK f, t, k, n, o, l : /\ f = range[r].first /\ t = range[r].total /\ k = c.m_left_to_send
                                /\ n = c.m_next_piece * PieceSize /\ o = c.m_offset /\ l = Len(wire[r])
    OBVIOUS
  <2>2. f \in Nat /\ t \in Nat
    BY <2>1, RangePieces DEF Onward, TypeInv, RequestTypes
  <2>3. k \in Nat /\ o \in Nat /\ n \in Nat
    BY <2>1, ConnFields, Sizes
  <2>4. l \in Nat
    BY <2>1 DEF Onward, TypeInv, StreamTypes
  <2>5. f + t <= n /\ l + k = t /\ (k > 0 => n + o = f + l)
    BY <1>1, <1>7, <1>8, <2>1 DEF Placed
  <2>6. l = t
    BY <2>2, <2>3, <2>4, <2>5
  <2>. QED
    BY <2>1, <2>6
<1>10. StreamStep(r)
  BY <1>7, <1>8, <1>9 DEF StreamStep, Stream!Complete
<1>11. Placed(r)'
  BY <1>1, <1>3, <1>6, <1>7, <1>8 DEF Placed, Alike, Onward
<1>12. Fates(r)'
  BY <1>3, <1>5, <1>7, <1>8 DEF RequestInv, Fates
<1>13. Told(r)'
  BY <1>7, <1>8 DEF RequestInv, Told
<1>. QED
  BY <1>10, <1>11, <1>12, <1>13 DEF RequestInv

\* A write of it has ended and there is more to send.
LEMMA MoreToWrite ==
  ASSUME Onward, NEW r \in Request, RequestInv(r), WriteNext(r)
  PROVE  RequestInv(r)' /\ StreamStep(r)
<1>1. PICK c \in Conn : c = conn[r]
  BY DEF Onward, TypeInv, ConnTypes
<1>2. pc[r] = "header" /\ Placed(r) /\ ~conn[r].m_stopped
  BY Sender DEF WriteNext, Onward
<1>3. Elsewhere(r) /\ fate'[r] = fate[r] /\ (r \in due' <=> r \in due)
  BY DEF WriteNext, Elsewhere, shutdownVars
<1>4. CASE c.m_next_piece \in c.m_out_of_order
  <2>1. conn'[r] = WithDeadlines(Sending(conn[r])) /\ wire'[r] = wire[r] \o Chunk(conn[r])
    BY <1>1, <1>4, NextSent DEF Onward
  <2>2. conn[r].m_next_piece < conn[r].m_end_piece
    <3>1. c.m_next_piece \in Nat /\ c.m_end_piece \in Nat
      BY ConnFields
    <3>2. c.m_next_piece <= c.m_end_piece /\ c.m_next_piece # c.m_end_piece
      BY <1>1, <1>2 DEF Placed, WriteNext
    <3>. QED
      BY <1>1, <3>1, <3>2
  <2>. QED
    BY <1>2, <1>3, <2>1, <2>2, PieceSent
<1>5. CASE c.m_next_piece \notin c.m_out_of_order
  <2>1. PICK d : d = conn'[r]
    OBVIOUS
  <2>2. d = [c EXCEPT !.m_writing = FALSE] /\ wire' = wire
    BY <1>1, <1>5, <2>1 DEF WriteNext, Written, Onward, TypeInv, ConnTypes
  <2>3. Alike(c, d) /\ d.m_stopped = c.m_stopped
    BY <2>2, WrittenFields
  <2>. QED
    BY <1>1, <1>2, <1>3, <2>1, <2>2, <2>3, MembersChange
<1>. QED
  BY <1>4, <1>5

\* The connection is told, and it leaves the map.
LEMMA ToldDone ==
  ASSUME Onward, NEW r \in Request, RequestInv(r), Done(r)
  PROVE  RequestInv(r)' /\ StreamStep(r)
<1>1. /\ r \in due /\ pc[r] \in {"header", "failed"} /\ due' = due \ {r}
      /\ dones'[r] = dones[r] + 1 /\ pc'[r] = "done"
      /\ UNCHANGED <<conn, wire, fate, cancelling, terminated, valid>>
  BY DEF Done, Onward, TypeInv, RequestTypes, shutdownVars, torrentVars
<1>2. m_outstanding_requests' = {q \in m_outstanding_requests : ~conn[q].m_stopped}
  BY DEF Done
<1>3. conn[r].m_stopped /\ r \notin m_outstanding_requests'
  BY <1>1, <1>2 DEF RequestInv, Fates
<1>4. Placed(r)'
  BY <1>1 DEF RequestInv, Placed, Onward
<1>5. Fates(r)'
  BY <1>1, <1>3 DEF RequestInv, Fates
<1>6. Told(r)'
  BY <1>1, <1>3 DEF RequestInv, Told
<1>. QED
  BY <1>1, <1>4, <1>5, <1>6 DEF RequestInv, StreamStep

\* It is cancelled, unless it had stopped.
LEMMA Cancelled ==
  ASSUME Onward, NEW r \in Request, RequestInv(r), Cancel(r)
  PROVE  RequestInv(r)' /\ StreamStep(r)
<1>1. /\ r \in cancelling /\ cancelling' = cancelling \ {r}
      /\ UNCHANGED <<have, valid, pc, m_outstanding_requests, dones, wire>>
  BY DEF Cancel
<1>2. pc[r] # "idle" /\ Elsewhere(r)
  BY <1>1 DEF RequestInv, Fates, Elsewhere
<1>3. CASE conn[r].m_stopped
  BY <1>1, <1>2, <1>3, OtherRequest DEF Cancel
<1>4. CASE ~conn[r].m_stopped
  <2>1. Abort({r}, alerts, conn) /\ conn \in [Request -> Conn] /\ ~terminated /\ TypeInv
    BY <1>4 DEF Cancel, Onward, TypeInv, ConnTypes
  <2>2. /\ conn'[r] = Stopping(conn[r])
        /\ \/ ~terminated' /\ fate'[r] = "aborted" /\ r \in due'
           \/ ~valid /\ terminated' /\ UNCHANGED <<fate, due>>
    BY <1>1, <2>1, OneAborted
  <2>3. Alike(conn[r], conn'[r]) /\ conn'[r].m_stopped
    BY <2>1, <2>2, StoppingFields
  <2>. QED
    BY <1>1, <1>2, <1>4, <2>2, <2>3, GivenUp
<1>. QED
  BY <1>3, <1>4

\* A piece was read.
LEMMA ReadStep ==
  ASSUME Onward, NEW r \in Request, RequestInv(r), NEW p \in Piece, PieceRead(p)
  PROVE  RequestInv(r)' /\ StreamStep(r)
<1>1. TypeInv /\ ~terminated /\ conn \in [Request -> Conn] /\ m_outstanding_requests \subseteq Request
  BY DEF Onward, TypeInv, ConnTypes, RequestTypes
<1>2. /\ \A q \in Waiting(p) : conn'[q] = WithDeadlines(Sending(conn[q])) /\ wire'[q] = wire[q] \o Chunk(conn[q])
      /\ \A q \in Request \ Waiting(p) : wire'[q] = wire[q]
      /\ \A q \in Wanting(p) \ Waiting(p) : conn'[q] = [conn[q] EXCEPT !.m_out_of_order = @ \cup {p}]
      /\ \A q \in Request \ Wanting(p) : conn'[q] = conn[q]
  BY <1>1, PieceReadEffect
<1>3. Elsewhere(r) /\ fate'[r] = fate[r] /\ (r \in due' <=> r \in due)
  BY DEF PieceRead, Elsewhere, shutdownVars
<1>4. Waiting(p) \subseteq Wanting(p)
  BY DEF Waiting
<1>5. CASE r \in Waiting(p)
  <2>1. /\ r \in m_outstanding_requests /\ ~conn[r].m_stopped /\ ~conn[r].m_writing
        /\ conn[r].m_next_piece = p /\ p \in conn[r].m_next_piece .. conn[r].m_end_piece - 1
    BY <1>5 DEF Waiting, Wanting
  <2>2. conn[r].m_next_piece < conn[r].m_end_piece
    <3>1. PICK c \in Conn : c = conn[r]
      BY <1>1
    <3>2. c.m_next_piece \in Nat /\ c.m_end_piece \in Nat
      BY ConnFields
    <3>. QED
      BY <2>1, <3>1, <3>2
  <2>3. pc[r] = "header"
    BY <2>1 DEF RequestInv, Fates
  <2>. QED
    BY <1>2, <1>3, <1>5, <2>1, <2>2, <2>3, PieceSent
<1>6. CASE r \in Wanting(p) \ Waiting(p)
  <2>1. pc[r] # "idle"
    BY <1>6 DEF Wanting, RequestInv, Fates
  <2>2. PICK c, d : c = conn[r] /\ d = conn'[r]
    OBVIOUS
  <2>3. c \in Conn /\ d = [c EXCEPT !.m_out_of_order = @ \cup {p}]
    BY <1>1, <1>2, <1>6, <2>2
  <2>4. Alike(c, d) /\ d.m_stopped = c.m_stopped /\ d.m_writing = c.m_writing
    BY <2>3, EarlyFields
  <2>. QED
    BY <1>2, <1>3, <1>6, <2>1, <2>2, <2>4, MembersChange
<1>7. CASE r \notin Wanting(p)
  BY <1>2, <1>3, <1>4, <1>7, OtherRequest
<1>. QED
  BY <1>5, <1>6, <1>7

\* A piece could not be read.
LEMMA NotReadStep ==
  ASSUME Onward, NEW r \in Request, RequestInv(r), NEW p \in Piece, PieceNotRead(p)
  PROVE  RequestInv(r)' /\ StreamStep(r)
<1>1. TypeInv /\ ~terminated /\ conn \in [Request -> Conn] /\ m_outstanding_requests \subseteq Request
  BY DEF Onward, TypeInv, ConnTypes, RequestTypes
<1>2. /\ \A q \in Wanting(p) : conn'[q] = Stopping(conn[q])
      /\ \A q \in Request \ Wanting(p) : conn'[q] = conn[q]
      /\ \A q \in Request \ Wanting(p) : fate'[q] = fate[q] /\ (q \in due' <=> q \in due)
      /\ \/ ~terminated' /\ \A q \in Wanting(p) : fate'[q] = "aborted" /\ q \in due'
         \/ ~valid /\ terminated' /\ UNCHANGED <<fate, due>>
  BY <1>1, PieceNotReadEffect
<1>3. Elsewhere(r) /\ wire'[r] = wire[r]
  BY DEF PieceNotRead, Elsewhere, shutdownVars
<1>4. CASE r \in Wanting(p)
  <2>1. pc[r] # "idle" /\ ~conn[r].m_stopped
    BY <1>4 DEF Wanting, RequestInv, Fates
  <2>2. Alike(conn[r], conn'[r]) /\ conn'[r].m_stopped
    <3>1. PICK c, d : c = conn[r] /\ d = conn'[r]
      OBVIOUS
    <3>2. c \in Conn /\ d = Stopping(c)
      BY <1>1, <1>2, <1>4, <3>1
    <3>3. Alike(c, d) /\ d.m_stopped
      BY <3>2, StoppingFields
    <3>. QED
      BY <3>1, <3>3
  <2>3. \/ fate'[r] = "aborted" /\ r \in due'
        \/ terminated' /\ fate'[r] = fate[r] /\ (r \in due' <=> r \in due)
    <3>1. CASE ~terminated' /\ \A q \in Wanting(p) : fate'[q] = "aborted" /\ q \in due'
      BY <1>4, <3>1
    <3>2. CASE terminated' /\ UNCHANGED <<fate, due>>
      BY <3>2
    <3>. QED
      BY <1>2, <3>1, <3>2
  <2>. QED
    BY <1>3, <2>1, <2>2, <2>3, GivenUp
<1>5. CASE r \notin Wanting(p)
  BY <1>2, <1>3, <1>5, OtherRequest
<1>. QED
  BY <1>4, <1>5

Untouched(r) == Elsewhere(r) /\ UNCHANGED <<conn[r], wire[r], fate[r]>> /\ (r \in due' <=> r \in due)

\* A handler of another request.
LEMMA OthersSame ==
  ASSUME Onward, NEW r \in Request, NEW q \in Request, q # r,
         Start(q) \/ Handler(q) \/ OnWrite(q) \/ WriteFails(q) \/ Done(q) \/ Cancel(q)
  PROVE  /\ Untouched(r)
         /\ r \in m_outstanding_requests /\ ~conn[r].m_stopped => r \in m_outstanding_requests'
<1>1. TypeInv /\ ~terminated
  BY DEF Onward
<1>2. conn \in [Request -> Conn] /\ pc \in [Request -> Step] /\ dones \in [Request -> Nat] /\ m_outstanding_requests \subseteq Request
  BY <1>1 DEF TypeInv, ConnTypes, RequestTypes
<1>3. fate \in [Request -> {"open", "complete", "aborted"}] /\ wire \in [Request -> Seq(Int)]
  BY <1>1 DEF TypeInv, StreamTypes
<1> SUFFICES Untouched(r)
  <2>1. CASE Start(q) \/ Handler(q) \/ WriteStopped(q) \/ WriteLast(q)
    BY <2>1 DEF Start, Handler, SetPieceDeadlines, WriteHeader, WriteStopped, WriteLast
  <2>2. CASE WriteNext(q) \/ WriteFails(q) \/ Done(q) \/ Cancel(q)
    BY <2>2 DEF WriteNext, WriteFails, Done, Cancel
  <2>. QED
    BY <2>1, <2>2 DEF OnWrite
<1>4. CASE Start(q)
  BY <1>2, <1>4 DEF Untouched, Start, Elsewhere, shutdownVars
<1>5. CASE SetPieceDeadlines(q)
  <2>1. CASE valid \/ Prefetched(conn[q]) = {}
    <3>1. conn'[r] = conn[r] /\ pc' = [pc EXCEPT ![q] = "deadlines"]
      BY <1>1, <1>5, <2>1, DeadlinesGiven
    <3>2. UNCHANGED <<dones, fate, m_outstanding_requests, due, wire, shutdownVars>>
      BY <1>1, <1>5, <2>1, DeadlinesGiven
    <3>3. Elsewhere(r)
      BY <1>2, <3>1, <3>2 DEF Elsewhere, shutdownVars
    <3>. QED
      BY <3>1, <3>2, <3>3 DEF Untouched
  <2>2. CASE ~(valid \/ Prefetched(conn[q]) = {})
    <3>1. HandlerThrows(q) /\ UNCHANGED <<conn, wire, m_outstanding_requests, due, shutdownVars>>
      BY <1>5, <2>2 DEF SetPieceDeadlines
    <3>2. Elsewhere(r) /\ fate'[r] = fate[r]
      BY <1>2, <1>3, <3>1 DEF Elsewhere, HandlerThrows, shutdownVars
    <3>. QED
      BY <3>1, <3>2 DEF Untouched
  <2>. QED
    BY <2>1, <2>2
<1>6. CASE WriteHeader(q)
  <2>1. UNCHANGED <<conn, wire, m_outstanding_requests, due, shutdownVars>>
    BY <1>6 DEF WriteHeader
  <2>2. Elsewhere(r) /\ fate'[r] = fate[r]
    BY <1>2, <1>3, <1>6, <2>1 DEF WriteHeader, Elsewhere, HandlerThrows, shutdownVars
  <2>. QED
    BY <2>1, <2>2 DEF Untouched
<1>7. CASE WriteStopped(q)
  <2>1. conn'[r] = conn[r] /\ UNCHANGED <<wire, fate, due>> /\ Elsewhere(r)
    BY <1>2, <1>7 DEF WriteStopped, Elsewhere, shutdownVars
  <2>. QED
    BY <2>1 DEF Untouched
<1>8. CASE WriteLast(q)
  <2>1. conn'[r] = conn[r] /\ UNCHANGED wire /\ fate'[r] = fate[r] /\ (r \in due' <=> r \in due) /\ Elsewhere(r)
    BY <1>2, <1>3, <1>8 DEF WriteLast, Elsewhere, shutdownVars
  <2>. QED
    BY <2>1 DEF Untouched
<1>9. CASE WriteNext(q)
  <2>1. UNCHANGED <<fate, due>> /\ Elsewhere(r)
    BY <1>9 DEF WriteNext, Elsewhere, shutdownVars
  <2>2. conn'[r] = conn[r] /\ wire'[r] = wire[r]
    <3>1. CASE conn[q].m_next_piece \in conn[q].m_out_of_order
      BY <1>1, <1>9, <3>1, NextSent
    <3>2. CASE conn[q].m_next_piece \notin conn[q].m_out_of_order
      BY <1>2, <1>9, <3>2 DEF WriteNext
    <3>. QED
      BY <3>1, <3>2
  <2>. QED
    BY <2>1, <2>2 DEF Untouched
<1>10. CASE WriteFails(q)
  <2>1. Elsewhere(r) /\ UNCHANGED wire
    BY <1>10 DEF WriteFails, Elsewhere, shutdownVars
  <2>2. PICK m \in [Request -> Conn] : m = [conn EXCEPT ![q] = Written(q)]
    <3>1. Written(q) \in Conn
      BY <1>2, WrittenFields DEF Written
    <3>. QED
      BY <1>2, <3>1
  <2>3. Abort({q}, alerts, m) /\ UNCHANGED <<have, valid>> /\ m[r] = conn[r]
    BY <1>2, <1>10, <2>2 DEF WriteFails
  <2>4. conn'[r] = conn[r] /\ fate'[r] = fate[r] /\ (r \in due' <=> r \in due)
    BY <1>1, <2>3, OneAborted
  <2>. QED
    BY <2>1, <2>4 DEF Untouched
<1>11. CASE Done(q)
  <2>1. conn'[r] = conn[r] /\ UNCHANGED <<wire, fate>> /\ (r \in due' <=> r \in due) /\ Elsewhere(r)
    BY <1>2, <1>11 DEF Done, Elsewhere, shutdownVars
  <2>. QED
    BY <2>1 DEF Untouched
<1>12. CASE Cancel(q)
  <2>1. Elsewhere(r) /\ UNCHANGED wire
    BY <1>12 DEF Cancel, Elsewhere
  <2>2. conn'[r] = conn[r] /\ fate'[r] = fate[r] /\ (r \in due' <=> r \in due)
    <3>1. CASE conn[q].m_stopped
      BY <1>12, <3>1 DEF Cancel
    <3>2. CASE ~conn[q].m_stopped
      <4>1. Abort({q}, alerts, conn) /\ UNCHANGED <<have, valid>>
        BY <1>12, <3>2 DEF Cancel
      <4>. QED
        BY <1>1, <1>2, <4>1, OneAborted
    <3>. QED
      BY <3>1, <3>2
  <2>. QED
    BY <2>1, <2>2 DEF Untouched
<1>. QED
  BY <1>4, <1>5, <1>6, <1>7, <1>8, <1>9, <1>10, <1>11, <1>12 DEF Handler, OnWrite

\* The step of another request.
LEMMA OthersStep ==
  ASSUME Onward, NEW r \in Request, RequestInv(r), NEW q \in Request, q # r,
         Start(q) \/ Handler(q) \/ OnWrite(q) \/ WriteFails(q) \/ Done(q) \/ Cancel(q)
  PROVE  RequestInv(r)' /\ StreamStep(r)
BY OthersSame, OtherRequest DEF Untouched

\* What the reads of libtorrent leave alone.
LEMMA ReadsSame ==
  ASSUME \E p \in Piece : PieceFinished(p) \/ ReadFails(p)
  PROVE  UNCHANGED <<valid, requestVars, shutdownVars, terminated>>
<1>1. ASSUME NEW p \in Piece, PieceFinished(p) PROVE UNCHANGED <<valid, requestVars, shutdownVars, terminated>>
  BY <1>1 DEF PieceFinished
<1>2. ASSUME NEW p \in Piece, ReadFails(p) PROVE UNCHANGED <<valid, requestVars, shutdownVars, terminated>>
  BY <1>2 DEF ReadFails
<1>. QED
  BY <1>1, <1>2

\* A step of libtorrent, or shutdown().
LEMMA OutsideStep ==
  ASSUME Onward, NEW r \in Request, RequestInv(r),
         (\E p \in Piece : PieceFinished(p) \/ ReadFails(p)) \/ RemoveTorrent \/ Shutdown
  PROVE  RequestInv(r)' /\ StreamStep(r)
<1>1. UNCHANGED requestVars /\ Elsewhere(r)
  BY DEF PieceFinished, ReadFails, RemoveTorrent, Shutdown, Elsewhere, requestVars, shutdownVars
<1>. QED
  BY <1>1, OtherRequest DEF requestVars

-----------------------------------------------------------------------------
(* Every step keeps the types.                                             *)

\* The types when the program starts.
LEMMA TypeInit == ASSUME Init PROVE TypeInv
<1>1. RequestTypes
  BY FS_EmptySet DEF Init, RequestTypes, Step
<1>2. TorrentTypes
  BY DEF Init, TorrentTypes
<1>3. StreamTypes
  <2>1. <<>> \in Seq(Int)
    OBVIOUS
  <2>. QED
    BY <2>1 DEF Init, StreamTypes
<1>4. ConnTypes
  BY NoConnFields DEF Init, ConnTypes
<1>5. Caught
  BY DEF Init, Caught
<1>. QED
  BY <1>1, <1>2, <1>3, <1>4, <1>5 DEF TypeInv

\* Reads that end or fail.
LEMMA OutsideTypes ==
  ASSUME TypeInv, ~terminated,
         (\E p \in Piece : PieceFinished(p) \/ ReadFails(p)) \/ RemoveTorrent \/ Shutdown
  PROVE  TypeInv'
<1>1. TorrentTypes /\ RequestTypes /\ StreamTypes /\ ConnTypes /\ Caught
  BY DEF TypeInv
<1>2. UNCHANGED <<requestVars, terminated>>
  BY DEF PieceFinished, ReadFails, RemoveTorrent, Shutdown
<1>3. StreamTypes' /\ ConnTypes'
  BY <1>1, <1>2 DEF requestVars, StreamTypes, ConnTypes
<1>4. valid' \in BOOLEAN /\ (valid' => valid) /\ cancelling' \subseteq Request /\ closing' \in BOOLEAN
  <2>1. CASE \E p \in Piece : PieceFinished(p) \/ ReadFails(p)
    BY <1>1, <2>1, ReadsSame DEF RequestTypes, shutdownVars
  <2>2. CASE RemoveTorrent
    BY <1>1, <2>2 DEF RemoveTorrent, RequestTypes, shutdownVars
  <2>3. CASE Shutdown
    BY <1>1, <2>3 DEF Shutdown, RequestTypes, torrentVars
  <2>. QED
    BY <2>1, <2>2, <2>3
<1>5. RequestTypes' /\ Caught'
  BY <1>1, <1>2, <1>4 DEF requestVars, RequestTypes, Caught
<1>6. TorrentTypes'
  <2>1. ASSUME NEW p \in Piece, PieceFinished(p) PROVE TorrentTypes'
    <3>1. PICK n, x : n = (IF p \in deadlines THEN 1 ELSE 0) /\ x = <<p, TRUE>>
      OBVIOUS
    <3>2. n \in Nat /\ x \in Piece \X BOOLEAN /\ alerts' = [alerts EXCEPT ![x] = alerts[x] + n]
      BY <2>1, <3>1 DEF PieceFinished
    <3>3. alerts' \in [Piece \X BOOLEAN -> Nat]
      BY <1>1, <3>2 DEF TorrentTypes
    <3>. QED
      BY <1>1, <2>1, <3>3 DEF PieceFinished, TorrentTypes
  <2>2. ASSUME NEW p \in Piece, ReadFails(p) PROVE TorrentTypes'
    <3>1. PICK x, y : x = <<p, TRUE>> /\ y = <<p, FALSE>>
      OBVIOUS
    <3>2. x \in Piece \X BOOLEAN /\ y \in Piece \X BOOLEAN /\ x # y
      BY <3>1
    <3>3. alerts' = [alerts EXCEPT ![x] = @ - 1, ![y] = @ + 1] /\ alerts[x] > 0
      BY <2>2, <3>1 DEF ReadFails
    <3>4. PICK i \in Nat, j \in Nat : i = alerts[x] - 1 /\ j = alerts[y] + 1
      BY <1>1, <3>2, <3>3 DEF TorrentTypes
    <3>5. PICK a \in [Piece \X BOOLEAN -> Nat] : a = [alerts EXCEPT ![x] = i]
      BY <1>1, <3>2 DEF TorrentTypes
    <3>6. a[y] = alerts[y]
      BY <1>1, <3>2, <3>5 DEF TorrentTypes
    <3>7. alerts' = [a EXCEPT ![y] = j]
      BY <3>3, <3>4, <3>5, <3>6
    <3>8. alerts' \in [Piece \X BOOLEAN -> Nat]
      BY <3>2, <3>4, <3>5, <3>7
    <3>9. UNCHANGED <<have, deadlines>>
      BY <2>2 DEF ReadFails
    <3>. QED
      BY <1>1, <3>8, <3>9 DEF TorrentTypes
  <2>3. CASE RemoveTorrent \/ Shutdown
    BY <1>1, <2>3 DEF RemoveTorrent, Shutdown, TorrentTypes, torrentVars
  <2>. QED
    BY <2>1, <2>2, <2>3
<1>. QED
  BY <1>3, <1>5, <1>6 DEF TypeInv

\* The handler of a request.
LEMMA HandlerTypes ==
  ASSUME TypeInv, ~terminated, NEW r \in Request, Start(r) \/ Handler(r)
  PROVE  TypeInv'
<1>1. TorrentTypes /\ RequestTypes /\ StreamTypes /\ ConnTypes /\ Caught
  BY DEF TypeInv
<1>2. UNCHANGED <<have, valid, range, due, wire, cancelling, closing, terminated>>
  BY DEF Start, Handler, SetPieceDeadlines, WriteHeader, torrentVars, shutdownVars
<1>3. Caught'
  BY <1>1, <1>2 DEF Caught
<1>4. CASE Start(r)
  <2>1. range[r] \in Ranges
    BY <1>1 DEF RequestTypes
  <2>2. NewConn(range[r]) \in Conn
    BY <2>1, NewConnFields
  <2>3. ConnTypes'
    BY <1>1, <1>4, <2>2 DEF Start, ConnTypes
  <2>4. IsFiniteSet(m_outstanding_requests')
    BY <1>1, <1>4, FS_AddElement DEF Start, RequestTypes
  <2>5. RequestTypes'
    BY <1>1, <1>2, <1>4, <2>4 DEF Start, RequestTypes, Step
  <2>6. StreamTypes' /\ TorrentTypes'
    BY <1>1, <1>2, <1>4 DEF Start, StreamTypes, TorrentTypes, torrentVars
  <2>. QED
    BY <1>3, <2>3, <2>5, <2>6 DEF TypeInv
<1>5. ASSUME HandlerThrows(r), UNCHANGED <<conn, m_outstanding_requests, deadlines, alerts>> PROVE TypeInv'
  <2>1. RequestTypes'
    BY <1>1, <1>2, <1>5 DEF HandlerThrows, RequestTypes, Step
  <2>2. StreamTypes'
    BY <1>1, <1>2, <1>5 DEF HandlerThrows, StreamTypes
  <2>3. ConnTypes' /\ TorrentTypes'
    BY <1>1, <1>2, <1>5 DEF ConnTypes, TorrentTypes
  <2>. QED
    BY <1>3, <2>1, <2>2, <2>3 DEF TypeInv
<1>6. CASE SetPieceDeadlines(r) /\ (valid \/ Prefetched(conn[r]) = {})
  <2>1. TorrentTypes' /\ ConnTypes' /\ pc' = [pc EXCEPT ![r] = "deadlines"]
    BY <1>6, DeadlinesGiven
  <2>2. UNCHANGED <<dones, fate, m_outstanding_requests>>
    BY <1>6, DeadlinesGiven
  <2>3. RequestTypes' /\ StreamTypes'
    BY <1>1, <1>2, <2>1, <2>2 DEF RequestTypes, StreamTypes, Step
  <2>. QED
    BY <1>3, <2>1, <2>3 DEF TypeInv
<1>7. CASE SetPieceDeadlines(r) /\ ~(valid \/ Prefetched(conn[r]) = {})
  BY <1>5, <1>7 DEF SetPieceDeadlines
<1>8. CASE WriteHeader(r) /\ valid
  <2>1. RequestTypes' /\ StreamTypes'
    BY <1>1, <1>2, <1>8 DEF WriteHeader, RequestTypes, StreamTypes, Step
  <2>2. TorrentTypes' /\ ConnTypes'
    BY <1>1, <1>8 DEF WriteHeader, TorrentTypes, ConnTypes, torrentVars
  <2>. QED
    BY <1>3, <2>1, <2>2 DEF TypeInv
<1>9. CASE WriteHeader(r) /\ ~valid
  BY <1>5, <1>9 DEF WriteHeader, torrentVars
<1>. QED
  BY <1>4, <1>6, <1>7, <1>8, <1>9 DEF Handler

\* Alerts.
LEMMA AlertTypes ==
  ASSUME TypeInv, ~terminated, NEW p \in Piece, HandleAlert(p)
  PROVE  TypeInv'
<1>1. TorrentTypes /\ RequestTypes /\ StreamTypes /\ ConnTypes /\ Caught
  BY DEF TypeInv
<1>2. UNCHANGED <<valid, pc, range, m_outstanding_requests, dones, cancelling, closing>>
  BY DEF HandleAlert, PieceRead, PieceNotRead, shutdownVars
<1>3. CASE PieceRead(p)
  <2>1. TorrentTypes' /\ Caught' /\ terminated' \in BOOLEAN /\ ConnTypes' /\ wire' \in [Request -> Seq(Int)]
    BY <1>3, PieceReadEffect
  <2>2. UNCHANGED <<due, fate>>
    BY <1>3 DEF PieceRead
  <2>3. RequestTypes' /\ StreamTypes'
    BY <1>1, <1>2, <2>1, <2>2 DEF RequestTypes, StreamTypes
  <2>. QED
    BY <2>1, <2>3 DEF TypeInv
<1>4. CASE PieceNotRead(p)
  <2>1. /\ TorrentTypes' /\ Caught' /\ terminated' \in BOOLEAN /\ ConnTypes'
        /\ fate' \in [Request -> {"open", "complete", "aborted"}] /\ due' \subseteq Request
    BY <1>4, PieceNotReadEffect
  <2>2. UNCHANGED wire
    BY <1>4 DEF PieceNotRead
  <2>3. RequestTypes' /\ StreamTypes'
    BY <1>1, <1>2, <2>1, <2>2 DEF RequestTypes, StreamTypes
  <2>. QED
    BY <2>1, <2>3 DEF TypeInv
<1>. QED
  BY <1>3, <1>4 DEF HandleAlert

\* Writes that end, and what follows them.
LEMMA WriteTypes ==
  ASSUME TypeInv, ~terminated, NEW r \in Request, OnWrite(r) \/ WriteFails(r) \/ Done(r) \/ Cancel(r)
  PROVE  TypeInv'
<1>1. TorrentTypes /\ RequestTypes /\ StreamTypes /\ ConnTypes /\ Caught
  BY DEF TypeInv
<1>2. UNCHANGED <<have, valid, range, closing>>
  BY DEF OnWrite, WriteStopped, WriteLast, WriteNext, WriteFails, Done, Cancel, torrentVars, shutdownVars
<1>3. Written(r) \in Conn
  BY <1>1, WrittenFields DEF Written, ConnTypes
<1>4. CASE WriteStopped(r)
  <2>1. ConnTypes'
    BY <1>1, <1>3, <1>4 DEF WriteStopped, ConnTypes
  <2>2. TorrentTypes' /\ RequestTypes' /\ StreamTypes' /\ Caught'
    BY <1>1, <1>4 DEF WriteStopped, TorrentTypes, RequestTypes, StreamTypes, Caught, torrentVars, shutdownVars
  <2>. QED
    BY <2>1, <2>2 DEF TypeInv
<1>5. CASE WriteLast(r)
  <2>1. [Written(r) EXCEPT !.m_stopped = TRUE] \in Conn
    BY <1>3, LastFields
  <2>2. ConnTypes'
    BY <1>1, <1>5, <2>1 DEF WriteLast, ConnTypes
  <2>3. RequestTypes' /\ StreamTypes'
    BY <1>1, <1>5 DEF WriteLast, RequestTypes, StreamTypes, torrentVars, shutdownVars
  <2>4. TorrentTypes' /\ Caught'
    BY <1>1, <1>5 DEF WriteLast, TorrentTypes, Caught, torrentVars
  <2>. QED
    BY <2>2, <2>3, <2>4 DEF TypeInv
<1>6. CASE WriteNext(r)
  <2>1. UNCHANGED <<pc, m_outstanding_requests, due, dones, fate, cancelling>>
    BY <1>6 DEF WriteNext, shutdownVars
  <2>2. CASE conn[r].m_next_piece \in conn[r].m_out_of_order
    <3>1. TorrentTypes' /\ Caught' /\ terminated' \in BOOLEAN /\ ConnTypes' /\ wire' \in [Request -> Seq(Int)]
      BY <1>6, <2>2, NextSent
    <3>2. RequestTypes' /\ StreamTypes'
      BY <1>1, <1>2, <2>1, <3>1 DEF RequestTypes, StreamTypes
    <3>. QED
      BY <3>1, <3>2 DEF TypeInv
  <2>3. CASE conn[r].m_next_piece \notin conn[r].m_out_of_order
    <3>1. conn' = [conn EXCEPT ![r] = Written(r)] /\ UNCHANGED <<deadlines, alerts, wire, terminated>>
      BY <1>6, <2>3 DEF WriteNext
    <3>2. ConnTypes'
      BY <1>1, <1>3, <3>1 DEF ConnTypes
    <3>3. TorrentTypes' /\ RequestTypes' /\ StreamTypes' /\ Caught'
      BY <1>1, <1>2, <2>1, <3>1 DEF TorrentTypes, RequestTypes, StreamTypes, Caught
    <3>. QED
      BY <3>2, <3>3 DEF TypeInv
  <2>. QED
    BY <2>2, <2>3
<1>7. ASSUME NEW c \in [Request -> Conn], Abort({r}, alerts, c),
             UNCHANGED <<pc, m_outstanding_requests, dones, wire>>, cancelling' \subseteq cancelling
      PROVE  TypeInv'
  <2>1. /\ TorrentTypes' /\ Caught' /\ terminated' \in BOOLEAN /\ ConnTypes'
        /\ fate' \in [Request -> {"open", "complete", "aborted"}] /\ due' \subseteq Request
    BY <1>2, <1>7, OneAborted
  <2>2. RequestTypes' /\ StreamTypes'
    BY <1>1, <1>2, <1>7, <2>1 DEF RequestTypes, StreamTypes
  <2>. QED
    BY <2>1, <2>2 DEF TypeInv
<1>8. CASE WriteFails(r)
  <2>1. [conn EXCEPT ![r] = Written(r)] \in [Request -> Conn]
    BY <1>1, <1>3 DEF ConnTypes
  <2>. QED
    BY <1>7, <1>8, <2>1 DEF WriteFails, shutdownVars
<1>9. CASE Done(r)
  <2>1. IsFiniteSet(m_outstanding_requests') /\ m_outstanding_requests' \subseteq Request
    <3>1. m_outstanding_requests' \subseteq m_outstanding_requests
      BY <1>9 DEF Done
    <3>. QED
      BY <1>1, <3>1, FS_Subset DEF RequestTypes
  <2>2. RequestTypes'
    BY <1>1, <1>2, <1>9, <2>1 DEF Done, RequestTypes, Step, shutdownVars
  <2>3. TorrentTypes' /\ StreamTypes' /\ ConnTypes' /\ Caught'
    BY <1>1, <1>9 DEF Done, TorrentTypes, StreamTypes, ConnTypes, Caught, torrentVars
  <2>. QED
    BY <2>2, <2>3 DEF TypeInv
<1>10. CASE Cancel(r)
  <2>1. CASE conn[r].m_stopped
    <3>1. UNCHANGED <<deadlines, alerts, conn, fate, due, terminated, pc, m_outstanding_requests, dones, wire>> /\ cancelling' \subseteq cancelling
      BY <1>10, <2>1 DEF Cancel
    <3>. QED
      BY <1>1, <1>2, <3>1 DEF TypeInv, TorrentTypes, RequestTypes, StreamTypes, ConnTypes, Caught
  <2>2. CASE ~conn[r].m_stopped
    <3>1. Abort({r}, alerts, conn) /\ UNCHANGED <<pc, m_outstanding_requests, dones, wire>> /\ cancelling' \subseteq cancelling
      BY <1>10, <2>2 DEF Cancel
    <3>. QED
      BY <1>1, <1>7, <3>1 DEF ConnTypes
  <2>. QED
    BY <2>1, <2>2
<1>. QED
  BY <1>4, <1>5, <1>6, <1>8, <1>9, <1>10 DEF OnWrite

-----------------------------------------------------------------------------
(* The requests, together.                                                 *)

RequestsInv == TypeInv /\ \A r \in Request : RequestInv(r)

\* A step of the program: no request loses its place, and the stream of each makes a
\* step or none.
LEMMA RequestsStep ==
  ASSUME RequestsInv, [Next]_vars
  PROVE  /\ RequestsInv' /\ UNCHANGED range
         /\ \A r \in Request : StreamStep(r)
<1>1. TypeInv /\ \A r \in Request : RequestInv(r)
  BY DEF RequestsInv
<1>2. CASE UNCHANGED vars
  <2>1. UNCHANGED <<have, deadlines, alerts, valid, cancelling, closing, terminated>>
    BY <1>2 DEF vars, torrentVars, shutdownVars
  <2>2. UNCHANGED <<pc, range, conn, m_outstanding_requests, due, dones, wire, fate>>
    BY <1>2 DEF vars, requestVars
  <2>3. TypeInv'
    BY <1>1, <2>1, <2>2 DEF TypeInv, TorrentTypes, RequestTypes, StreamTypes, ConnTypes, Caught
  <2>4. \A r \in Request : RequestInv(r)'
    BY <1>1, <2>1, <2>2 DEF RequestInv, Placed, Fates, Told
  <2>. QED
    BY <2>2, <2>3, <2>4 DEF RequestsInv, StreamStep
<1>3. CASE ~UNCHANGED vars
  <2>1. /\ ~terminated
        /\ \/ (\E p \in Piece : PieceFinished(p) \/ ReadFails(p)) \/ RemoveTorrent \/ Shutdown
           \/ \E p \in Piece : HandleAlert(p)
           \/ \E r \in Request : Start(r) \/ Handler(r) \/ OnWrite(r) \/ WriteFails(r) \/ Done(r) \/ Cancel(r)
    BY <1>3 DEF Next, Stop
  <2>2. TypeInv'
    BY <1>1, <2>1, OutsideTypes, AlertTypes, HandlerTypes, WriteTypes
  <2>3. (valid' => valid) /\ UNCHANGED range
    <3>1. ASSUME (\E p \in Piece : PieceFinished(p) \/ ReadFails(p)) \/ RemoveTorrent \/ Shutdown
          PROVE  (valid' => valid) /\ UNCHANGED range
      <4>1. CASE \E p \in Piece : PieceFinished(p) \/ ReadFails(p)
        BY <4>1, ReadsSame DEF requestVars
      <4>2. CASE RemoveTorrent \/ Shutdown
        BY <4>2 DEF RemoveTorrent, Shutdown, requestVars, torrentVars
      <4>. QED
        BY <3>1, <4>1, <4>2
    <3>2. ASSUME NEW p \in Piece, HandleAlert(p) PROVE (valid' => valid) /\ UNCHANGED range
      BY <3>2 DEF HandleAlert, PieceRead, PieceNotRead
    <3>3. ASSUME NEW r \in Request, Start(r) \/ Handler(r) PROVE (valid' => valid) /\ UNCHANGED range
      BY <3>3 DEF Start, Handler, SetPieceDeadlines, WriteHeader, torrentVars
    <3>4. ASSUME NEW r \in Request, OnWrite(r) \/ WriteFails(r) \/ Done(r) \/ Cancel(r)
          PROVE  (valid' => valid) /\ UNCHANGED range
      BY <3>4 DEF OnWrite, WriteStopped, WriteLast, WriteNext, WriteFails, Done, Cancel, torrentVars
    <3>. QED
      BY <2>1, <3>1, <3>2, <3>3, <3>4
  <2>4. Onward
    BY <1>1, <2>1, <2>2, <2>3 DEF Onward
  <2>5. ASSUME NEW r \in Request PROVE RequestInv(r)' /\ StreamStep(r)
    <3>1. RequestInv(r)
      BY <1>1
    <3>2. CASE (\E p \in Piece : PieceFinished(p) \/ ReadFails(p)) \/ RemoveTorrent \/ Shutdown
      BY <2>4, <3>1, <3>2, OutsideStep
    <3>3. CASE \E p \in Piece : HandleAlert(p)
      BY <2>4, <3>1, <3>3, ReadStep, NotReadStep DEF HandleAlert
    <3>4. ASSUME NEW q \in Request,
                 Start(q) \/ Handler(q) \/ OnWrite(q) \/ WriteFails(q) \/ Done(q) \/ Cancel(q)
          PROVE  RequestInv(r)' /\ StreamStep(r)
      <4>1. CASE q # r
        BY <2>4, <3>1, <3>4, <4>1, OthersStep
      <4>2. CASE q = r
        <5>1. Start(r) \/ (SetPieceDeadlines(r) \/ WriteHeader(r)) \/ WriteStopped(r) \/ WriteLast(r) \/ WriteNext(r)
              \/ WriteFails(r) \/ Done(r) \/ Cancel(r)
          BY <3>4, <4>2 DEF Handler, OnWrite
        <5>. QED
          BY <2>4, <3>1, <5>1, Started, HandlerGoesOn, StoppedWrite, LastWrite, MoreToWrite, FailedWrite,
             ToldDone, Cancelled
      <4>. QED
        BY <4>1, <4>2
    <3>. QED
      BY <2>1, <3>2, <3>3, <3>4
  <2>. QED
    BY <2>2, <2>3, <2>5 DEF RequestsInv
<1>. QED
  BY <1>2, <1>3

\* No request when the program starts.
LEMMA RequestsInit == Init => RequestsInv
<1> SUFFICES ASSUME Init PROVE RequestsInv
  OBVIOUS
<1>1. TypeInv
  BY TypeInit
<1>2. ASSUME NEW r \in Request PROVE RequestInv(r)
  <2>1. /\ pc[r] = "idle" /\ conn[r] = NoConn /\ fate[r] = "open" /\ wire[r] = <<>> /\ dones[r] = 0
        /\ r \notin m_outstanding_requests /\ r \notin due /\ r \notin cancelling /\ valid = TRUE
    BY DEF Init
  <2>2. ~conn[r].m_stopped
    BY <2>1, NoConnFields
  <2>. QED
    BY <2>1, <2>2 DEF RequestInv, Fates, Told
<1>. QED
  BY <1>1, <1>2 DEF RequestsInv

\* Every request is at its place in its range, has ended in one way at most, and its
\* connection was told at most once.
THEOREM RequestsInvariant == Spec => []RequestsInv
<1>1. RequestsInv /\ [Next]_vars => RequestsInv'
  BY RequestsStep
<1>. QED
  BY RequestsInit, <1>1, PTL DEF Spec

\* The variables of file_downloader and its requests keep their types: pieces, offsets
\* and what is left to send stay in their bounds.
THEOREM TypeCorrect == Spec => []TypeOK
<1>1. RequestsInv => TypeOK
  BY DEF RequestsInv, TypeInv, TorrentTypes, RequestTypes, ConnTypes, TypeOK
<1>. QED
  BY RequestsInvariant, <1>1, PTL

\* m_done is called once, and no request of a response that has ended is left in the map.
THEOREM ToldOnce == Spec => []DoneOnce
<1>1. RequestsInv => DoneOnce
  BY DEF RequestsInv, RequestInv, Told, DoneOnce
<1>. QED
  BY RequestsInvariant, <1>1, PTL

\* What is written to a connection are the bytes of its range, in order and once each,
\* whatever the order in which pieces are read and writes end; a complete response has
\* all of them.
THEOREM BytesInOrder == Spec => StreamsInOrder
<1>1. Init => Stream!Init
  BY DEF Init, Stream!Init
<1>2. RequestsInv /\ [Next]_vars => [Stream!Next]_Stream!vars
  BY RequestsStep DEF Stream!Next, StreamStep
<1>. QED
  BY RequestsInvariant, <1>1, <1>2, PTL DEF Spec, StreamsInOrder, Stream!Spec

-----------------------------------------------------------------------------
(* What a request waits for.                                               *)

Live(r) == pc[r] \in {"mapped", "deadlines", "header"} /\ ~conn[r].m_stopped

\* Every piece a request has asked for and not sent is kept or is going to be read; the
\* next one was asked for, and is not kept while the request waits.
AwaitInv(r) ==
  valid /\ Live(r) =>
    /\ r \in m_outstanding_requests
    /\ \A p \in Piece : p >= conn[r].m_next_piece /\ p < conn[r].m_next_priority_piece =>
         p \in conn[r].m_out_of_order \/ Coming(p)
    /\ pc[r] # "mapped" /\ conn[r].m_next_piece < conn[r].m_end_piece =>
         conn[r].m_next_piece < conn[r].m_next_priority_piece
    /\ pc[r] = "header" /\ ~conn[r].m_writing =>
         conn[r].m_next_piece < conn[r].m_end_piece /\ conn[r].m_next_piece \notin conn[r].m_out_of_order

\* What handlers other than those of alerts do to libtorrent.
ComingKept == \A p \in Piece : Coming(p) => Coming(p)'

\* The step is that of other requests, or the torrent's.
LEMMA AwaitOther ==
  ASSUME NEW r \in Request, AwaitInv(r), valid' => valid, pc'[r] = pc[r], conn'[r] = conn[r],
         r \in m_outstanding_requests /\ ~conn[r].m_stopped => r \in m_outstanding_requests',
         valid /\ Live(r) => \A p \in Piece :
           p >= conn[r].m_next_piece /\ p < conn[r].m_next_priority_piece /\ Coming(p) => Coming(p)'
  PROVE  AwaitInv(r)'
BY DEF AwaitInv, Live

\* A piece that is downloaded, or cannot be read, is still going to be handled.
LEMMA OutsideKept ==
  ASSUME TypeInv, valid', (\E p \in Piece : PieceFinished(p) \/ ReadFails(p)) \/ RemoveTorrent \/ Shutdown
  PROVE  ComingKept
<1>1. deadlines \subseteq Piece /\ alerts \in [Piece \X BOOLEAN -> Nat]
  BY DEF TypeInv, TorrentTypes
<1>2. ASSUME NEW p \in Piece, PieceFinished(p) PROVE ComingKept
  <2>1. PICK n, x : n = (IF p \in deadlines THEN 1 ELSE 0) /\ x = <<p, TRUE>>
    OBVIOUS
  <2>2. n \in Nat /\ x \in Piece \X BOOLEAN /\ alerts' = [alerts EXCEPT ![x] = alerts[x] + n] /\ deadlines' = deadlines \ {p}
    BY <1>2, <2>1 DEF PieceFinished
  <2>3. \A y \in Piece \X BOOLEAN : alerts'[y] \in Nat /\ alerts'[y] >= alerts[y]
    BY <1>1, <2>2
  <2>4. ASSUME NEW q \in Piece, NEW ok \in BOOLEAN, alerts[<<q, ok>>] > 0 PROVE Coming(q)'
    <3>1. PICK y \in Piece \X BOOLEAN : y = <<q, ok>>
      OBVIOUS
    <3>2. alerts'[y] > 0
      BY <1>1, <2>3, <2>4, <3>1
    <3>. QED
      BY <3>1, <3>2 DEF Coming
  <2>5. ASSUME NEW q \in Piece, q \in deadlines PROVE Coming(q)'
    <3>1. CASE q # p
      BY <2>2, <2>5, <3>1 DEF Coming
    <3>2. CASE q = p
      <4>1. alerts'[x] > 0
        BY <1>1, <2>1, <2>2, <2>5, <3>2
      <4>. QED
        BY <2>1, <3>2, <4>1 DEF Coming
    <3>. QED
      BY <3>1, <3>2
  <2>. QED
    BY <2>4, <2>5 DEF ComingKept, Coming
<1>3. ASSUME NEW p \in Piece, ReadFails(p) PROVE ComingKept
  <2>1. PICK x, y : x = <<p, TRUE>> /\ y = <<p, FALSE>>
    OBVIOUS
  <2>2. x \in Piece \X BOOLEAN /\ y \in Piece \X BOOLEAN /\ x # y
    BY <2>1
  <2>3. alerts' = [alerts EXCEPT ![x] = @ - 1, ![y] = @ + 1] /\ alerts[x] > 0 /\ deadlines' = deadlines
    BY <1>3, <2>1 DEF ReadFails
  <2>4. PICK i \in Nat, j \in Nat : i = alerts[x] - 1 /\ j = alerts[y] + 1
    BY <1>1, <2>2, <2>3
  <2>5. PICK a \in [Piece \X BOOLEAN -> Nat] : a = [alerts EXCEPT ![x] = i]
    BY <1>1, <2>2
  <2>6. a[y] = alerts[y] /\ alerts' = [a EXCEPT ![y] = j]
    BY <1>1, <2>2, <2>3, <2>4, <2>5
  <2>7. alerts'[y] > 0
    BY <2>2, <2>4, <2>5, <2>6
  <2>8. Coming(p)'
    BY <2>1, <2>7 DEF Coming
  <2>9. ASSUME NEW q \in Piece, q # p, NEW ok \in BOOLEAN, alerts[<<q, ok>>] > 0 PROVE Coming(q)'
    <3>1. PICK z \in Piece \X BOOLEAN : z = <<q, ok>>
      OBVIOUS
    <3>2. z # x /\ z # y
      <4>1. z[1] = q /\ x[1] = p /\ y[1] = p
        BY <2>1, <3>1
      <4>. QED
        BY <2>9, <4>1
    <3>3. alerts'[z] = alerts[z]
      BY <1>1, <2>5, <2>6, <3>2
    <3>. QED
      BY <2>9, <3>1, <3>3 DEF Coming
  <2>10. ASSUME NEW q \in Piece, q \in deadlines PROVE Coming(q)'
    BY <2>3, <2>10 DEF Coming
  <2>. QED
    BY <2>8, <2>9, <2>10 DEF ComingKept, Coming
<1>4. CASE RemoveTorrent
  BY <1>4 DEF RemoveTorrent
<1>5. CASE Shutdown
  BY <1>5 DEF Shutdown, torrentVars, ComingKept, Coming
<1>. QED
  BY <1>2, <1>3, <1>4, <1>5

\* No handler of a request loses a read.
LEMMA HandlersKeep ==
  ASSUME TypeInv, ~terminated, valid', NEW r \in Request,
         Start(r) \/ Handler(r) \/ OnWrite(r) \/ WriteFails(r) \/ Done(r) \/ Cancel(r)
  PROVE  ComingKept
<1>1. conn \in [Request -> Conn] /\ deadlines \subseteq Piece
  BY DEF TypeInv, ConnTypes, TorrentTypes
<1>2. valid
  BY DEF Start, Handler, SetPieceDeadlines, WriteHeader, OnWrite, WriteStopped, WriteLast, WriteNext, WriteFails,
         Done, Cancel, torrentVars
<1>3. CASE UNCHANGED <<deadlines, alerts>>
  BY <1>3 DEF ComingKept, Coming
<1>4. CASE SetPieceDeadlines(r)
  BY <1>2, <1>4, DeadlinesGiven DEF ComingKept
<1>5. CASE WriteNext(r) /\ conn[r].m_next_piece \in conn[r].m_out_of_order
  BY <1>2, <1>5, NextSent DEF ComingKept
<1>6. CASE WriteFails(r)
  <2>1. PICK m \in [Request -> Conn] : m = [conn EXCEPT ![r] = Written(r)]
    <3>1. Written(r) \in Conn
      BY <1>1, WrittenFields DEF Written
    <3>. QED
      BY <1>1, <3>1
  <2>2. Abort({r}, alerts, m) /\ UNCHANGED <<have, valid>>
    BY <1>6, <2>1 DEF WriteFails
  <2>. QED
    BY <1>2, <2>2, OneAborted DEF ComingKept
<1>7. CASE Cancel(r) /\ ~conn[r].m_stopped
  <2>1. Abort({r}, alerts, conn) /\ UNCHANGED <<have, valid>>
    BY <1>7 DEF Cancel
  <2>. QED
    BY <1>1, <1>2, <2>1, OneAborted DEF ComingKept
<1>8. CASE Start(r) \/ WriteHeader(r) \/ WriteStopped(r) \/ WriteLast(r) \/ Done(r)
  BY <1>3, <1>8 DEF Start, WriteHeader, WriteStopped, WriteLast, Done, torrentVars
<1>9. CASE WriteNext(r) /\ conn[r].m_next_piece \notin conn[r].m_out_of_order
  BY <1>3, <1>9 DEF WriteNext
<1>10. CASE Cancel(r) /\ conn[r].m_stopped
  BY <1>3, <1>10 DEF Cancel
<1>. QED
  BY <1>4, <1>5, <1>6, <1>7, <1>8, <1>9, <1>10 DEF Handler, OnWrite

\* The next piece is sent, and the pieces that come into its window get a deadline.
LEMMA AwaitSent ==
  ASSUME NEW r \in Request, NEW c \in Conn, c = conn[r], AwaitInv(r), valid, ~c.m_stopped,
         pc[r] = "header", pc'[r] = pc[r], r \in m_outstanding_requests',
         c.m_next_piece < Pieces, conn'[r] = WithDeadlines(Sending(c)),
         \A p \in Piece : p # c.m_next_piece /\ Coming(p) => Coming(p)',
         \A p \in Prefetched(Sending(c)) : Coming(p)'
  PROVE  AwaitInv(r)'
<1>1. PICK d : d = conn'[r]
  OBVIOUS
<1>2. /\ d.m_next_piece = c.m_next_piece + 1 /\ d.m_out_of_order = c.m_out_of_order \ {c.m_next_piece}
      /\ d.m_writing = TRUE /\ d.m_stopped = c.m_stopped
      /\ d.m_next_piece < d.m_end_piece => d.m_next_piece < d.m_next_priority_piece
      /\ \A p \in Nat :
           p \in Prefetched(Sending(c)) <=> p >= c.m_next_priority_piece /\ p < d.m_next_priority_piece
  BY <1>1, SentFields
<1>3. c.m_next_piece \in Nat /\ c.m_next_priority_piece \in Nat
  BY ConnFields
<1>4. ASSUME NEW p \in Piece, p >= d.m_next_piece, p < d.m_next_priority_piece
      PROVE  p \in d.m_out_of_order \/ Coming(p)'
  <2>1. p \in Nat /\ p # c.m_next_piece /\ p >= c.m_next_piece
    BY <1>2, <1>3, <1>4, Sizes DEF Piece
  <2>2. CASE p < c.m_next_priority_piece
    <3>1. p \in c.m_out_of_order \/ Coming(p)
      BY <2>1, <2>2 DEF AwaitInv, Live
    <3>. QED
      BY <1>2, <2>1, <3>1
  <2>3. CASE p >= c.m_next_priority_piece
    BY <1>2, <1>4, <2>1, <2>3
  <2>. QED
    BY <1>3, <2>1, <2>2, <2>3
<1>. QED
  BY <1>1, <1>2, <1>4 DEF AwaitInv, Live

\* A piece was read.
LEMMA AwaitRead ==
  ASSUME Onward, NEW r \in Request, RequestInv(r), AwaitInv(r), NEW p \in Piece, PieceRead(p), valid'
  PROVE  AwaitInv(r)'
<1>1. TypeInv /\ ~terminated /\ conn \in [Request -> Conn] /\ m_outstanding_requests \subseteq Request
  BY DEF Onward, TypeInv, ConnTypes, RequestTypes
<1>2. valid /\ UNCHANGED <<pc, m_outstanding_requests>>
  BY DEF Onward, PieceRead
<1>3. /\ \A q \in Waiting(p) : conn'[q] = WithDeadlines(Sending(conn[q]))
      /\ \A q \in Wanting(p) \ Waiting(p) : conn'[q] = [conn[q] EXCEPT !.m_out_of_order = @ \cup {p}]
      /\ \A q \in Request \ Wanting(p) : conn'[q] = conn[q]
      /\ \A q \in Piece : q # p /\ Coming(q) => Coming(q)'
      /\ \A s \in Waiting(p) : \A q \in Prefetched(Sending(conn[s])) : Coming(q)'
  BY <1>1, <1>2, PieceReadEffect
<1>4. PICK c \in Conn : c = conn[r]
  BY <1>1
<1>5. /\ c.m_next_piece \in Nat /\ c.m_next_priority_piece \in Nat /\ c.m_end_piece \in Nat
      /\ c.m_end_piece <= Pieces
  BY ConnFields
<1>6. CASE r \in Waiting(p)
  <2>1. /\ r \in m_outstanding_requests /\ ~c.m_stopped /\ ~c.m_writing /\ c.m_next_piece = p
    BY <1>4, <1>6 DEF Waiting, Wanting
  <2>2. pc[r] = "header" /\ c.m_next_piece < Pieces
    BY <1>4, <2>1, Sizes DEF RequestInv, Fates, Piece
  <2>. QED
    BY <1>2, <1>3, <1>4, <1>6, <2>1, <2>2, AwaitSent
<1>7. CASE r \in Wanting(p) \ Waiting(p)
  <2>1. PICK d : d = conn'[r]
    OBVIOUS
  <2>2. d = [c EXCEPT !.m_out_of_order = @ \cup {p}]
    BY <1>3, <1>4, <1>7, <2>1
  <2>3. /\ Alike(c, d) /\ d.m_stopped = c.m_stopped /\ d.m_writing = c.m_writing
        /\ d.m_out_of_order = c.m_out_of_order \cup {p}
    BY <2>2, EarlyFields
  <2>4. r \in m_outstanding_requests /\ (c.m_writing \/ c.m_next_piece # p)
    BY <1>4, <1>7 DEF Waiting, Wanting
  <2>5. ASSUME NEW q \in Piece, q \in c.m_out_of_order \/ Coming(q) PROVE q \in d.m_out_of_order \/ Coming(q)'
    BY <1>3, <2>3, <2>5
  <2>. QED
    BY <1>2, <1>4, <2>1, <2>3, <2>4, <2>5 DEF AwaitInv, Live, Alike
<1>8. CASE r \notin Wanting(p)
  <2>1. conn'[r] = conn[r]
    BY <1>3, <1>8
  <2>2. ASSUME Live(r), NEW q \in Piece, q >= c.m_next_piece, q < c.m_next_priority_piece, Coming(q) PROVE Coming(q)'
    <3>1. r \in m_outstanding_requests
      BY <1>2, <2>2 DEF AwaitInv
    <3>2. c.m_next_priority_piece <= c.m_end_piece
      BY <1>4, <2>2 DEF RequestInv, Placed, Live
    <3>3. ~(p \in c.m_next_piece .. c.m_end_piece - 1)
      BY <1>4, <1>8, <2>2, <3>1 DEF Wanting, Live
    <3>4. q # p
      BY <1>5, <2>2, <3>2, <3>3, Sizes DEF Piece
    <3>. QED
      BY <1>3, <2>2, <3>4
  <2>. QED
    BY <1>2, <1>4, <2>1, <2>2, AwaitOther
<1>. QED
  BY <1>6, <1>7, <1>8

\* A piece could not be read: whoever waits for it stops.
LEMMA AwaitNotRead ==
  ASSUME Onward, NEW r \in Request, RequestInv(r), AwaitInv(r), NEW p \in Piece, PieceNotRead(p), valid'
  PROVE  AwaitInv(r)'
<1>1. TypeInv /\ ~terminated /\ conn \in [Request -> Conn] /\ m_outstanding_requests \subseteq Request
  BY DEF Onward, TypeInv, ConnTypes, RequestTypes
<1>2. valid /\ UNCHANGED <<pc, m_outstanding_requests>>
  BY DEF Onward, PieceNotRead
<1>3. /\ \A q \in Wanting(p) : conn'[q] = Stopping(conn[q])
      /\ \A q \in Request \ Wanting(p) : conn'[q] = conn[q]
      /\ \A q \in Piece : q # p /\ Coming(q) => Coming(q)'
  BY <1>1, <1>2, PieceNotReadEffect
<1>4. PICK c \in Conn : c = conn[r]
  BY <1>1
<1>5. /\ c.m_next_piece \in Nat /\ c.m_next_priority_piece \in Nat /\ c.m_end_piece \in Nat
      /\ c.m_end_piece <= Pieces
  BY ConnFields
<1>6. CASE r \in Wanting(p)
  <2>1. conn'[r].m_stopped
    BY <1>3, <1>4, <1>6, StoppingFields
  <2>. QED
    BY <2>1 DEF AwaitInv, Live
<1>7. CASE r \notin Wanting(p)
  <2>1. conn'[r] = conn[r]
    BY <1>3, <1>7
  <2>2. ASSUME Live(r), NEW q \in Piece, q >= c.m_next_piece, q < c.m_next_priority_piece, Coming(q) PROVE Coming(q)'
    <3>1. r \in m_outstanding_requests
      BY <1>2, <2>2 DEF AwaitInv
    <3>2. c.m_next_priority_piece <= c.m_end_piece
      BY <1>4, <2>2 DEF RequestInv, Placed, Live
    <3>3. ~(p \in c.m_next_piece .. c.m_end_piece - 1)
      BY <1>4, <1>7, <2>2, <3>1 DEF Wanting, Live
    <3>4. q # p
      BY <1>5, <2>2, <3>2, <3>3, Sizes DEF Piece
    <3>. QED
      BY <1>3, <2>2, <3>4
  <2>. QED
    BY <1>2, <1>4, <2>1, <2>2, AwaitOther
<1>. QED
  BY <1>6, <1>7

\* A step of its own handler.
LEMMA AwaitHandler ==
  ASSUME Onward, NEW r \in Request, RequestInv(r), AwaitInv(r), valid', Start(r) \/ Handler(r), ComingKept
  PROVE  AwaitInv(r)'
<1>1. TypeInv /\ ~terminated /\ conn \in [Request -> Conn] /\ pc \in [Request -> Step] /\ valid
  BY DEF Onward, TypeInv, ConnTypes, RequestTypes
<1>2. PICK c \in Conn : c = conn[r]
  BY <1>1
<1>3. /\ c.m_next_piece \in Nat /\ c.m_next_priority_piece \in Nat /\ c.m_end_piece \in Nat
      /\ c.m_end_piece <= Pieces
  BY ConnFields
<1>4. CASE Start(r)
  <2>1. PICK a \in Ranges : a = range[r]
    BY DEF Onward, TypeInv, RequestTypes
  <2>2. PICK d : d = NewConn(a)
    OBVIOUS
  <2>3. conn'[r] = d /\ pc'[r] = "mapped" /\ r \in m_outstanding_requests'
    BY <1>1, <1>4, <2>1, <2>2 DEF Start
  <2>4. d.m_next_piece = PieceOf(a.first) /\ d.m_next_priority_piece = PieceOf(a.first) /\ PieceOf(a.first) \in Nat
    <3>1. PICK i : i = PieceOf(a.first)
      OBVIOUS
    <3>2. i \in 0 .. Pieces - 1
      BY <3>1, RangePieces
    <3>3. d.m_next_piece = i /\ d.m_next_priority_piece = i
      BY <2>2, <3>1, NewConnFields
    <3>. QED
      BY <3>1, <3>2, <3>3, Sizes
  <2>5. \A q \in Piece : ~(q >= d.m_next_piece /\ q < d.m_next_priority_piece)
    BY <2>4 DEF Piece
  <2>. QED
    BY <2>3, <2>5 DEF AwaitInv
<1>5. CASE SetPieceDeadlines(r)
  <2>1. /\ conn'[r] = WithDeadlines(c) /\ pc'[r] = "deadlines" /\ pc[r] = "mapped"
        /\ \A q \in Prefetched(c) : Coming(q)'
        /\ UNCHANGED m_outstanding_requests
    BY <1>1, <1>2, <1>5, DeadlinesGiven DEF SetPieceDeadlines
  <2>2. PICK d : d = conn'[r]
    OBVIOUS
  <2>3. /\ d.m_next_priority_piece = c.m_next_priority_piece + Cardinality(Prefetched(c))
        /\ d.m_next_piece = c.m_next_piece /\ d.m_end_piece = c.m_end_piece
        /\ d.m_out_of_order = c.m_out_of_order /\ d.m_stopped = c.m_stopped
    BY <2>1, <2>2, WithDeadlinesFields
  <2>4. CASE c.m_stopped
    BY <2>2, <2>3, <2>4 DEF AwaitInv, Live
  <2>5. CASE ~c.m_stopped
    <3>1. \A q \in Nat : q \in Prefetched(c) <=> q >= c.m_next_priority_piece /\ q < d.m_next_priority_piece
      BY <2>3, <2>5, PrefetchedPieces
    <3>2. c.m_next_piece < c.m_end_piece => c.m_next_piece < d.m_next_priority_piece
      BY <2>3, <2>5, PrefetchedPieces
    <3>3. Live(r)
      BY <1>2, <2>1, <2>5 DEF Live
    <3>4. ASSUME NEW q \in Piece, q >= d.m_next_piece, q < d.m_next_priority_piece
          PROVE  q \in d.m_out_of_order \/ Coming(q)'
      <4>1. CASE q < c.m_next_priority_piece
        <5>1. q \in c.m_out_of_order \/ Coming(q)
          BY <1>1, <1>2, <2>3, <3>3, <3>4, <4>1 DEF AwaitInv
        <5>. QED
          BY <2>3, <5>1 DEF ComingKept
      <4>2. CASE q >= c.m_next_priority_piece
        <5>1. q \in Nat
          BY Sizes DEF Piece
        <5>. QED
          BY <2>1, <3>1, <3>4, <4>2, <5>1
      <4>3. q \in Nat
        BY Sizes DEF Piece
      <4>. QED
        BY <1>3, <4>1, <4>2, <4>3
    <3>5. r \in m_outstanding_requests'
      BY <1>1, <2>1, <3>3 DEF AwaitInv
    <3>. QED
      BY <2>1, <2>2, <2>3, <3>2, <3>4, <3>5 DEF AwaitInv
  <2>. QED
    BY <2>4, <2>5
<1>6. CASE WriteHeader(r)
  <2>1. pc[r] = "deadlines" /\ pc'[r] = "header" /\ UNCHANGED <<conn, m_outstanding_requests>>
    BY <1>1, <1>6 DEF WriteHeader
  <2>2. CASE ~c.m_stopped
    <3>1. Live(r) /\ r \in m_outstanding_requests
      BY <1>1, <1>2, <2>1, <2>2 DEF Live, AwaitInv
    <3>2. c.m_writing
      BY <1>2, <2>1, <2>2, <3>1 DEF RequestInv, Fates
    <3>. QED
      BY <1>1, <1>2, <2>1, <3>1, <3>2 DEF AwaitInv, ComingKept
  <2>3. CASE c.m_stopped
    BY <1>2, <2>1, <2>3 DEF AwaitInv, Live
  <2>. QED
    BY <2>2, <2>3
<1>. QED
  BY <1>4, <1>5, <1>6 DEF Handler

\* A write of it ends or fails, it is told or cancelled.
LEMMA AwaitWrite ==
  ASSUME Onward, NEW r \in Request, RequestInv(r), AwaitInv(r), valid', ComingKept,
         OnWrite(r) \/ WriteFails(r) \/ Done(r) \/ Cancel(r)
  PROVE  AwaitInv(r)'
<1>1. TypeInv /\ ~terminated /\ conn \in [Request -> Conn] /\ pc \in [Request -> Step] /\ valid
  BY DEF Onward, TypeInv, ConnTypes, RequestTypes
<1>2. PICK c \in Conn : c = conn[r]
  BY <1>1
<1>3. ASSUME conn'[r].m_stopped PROVE AwaitInv(r)'
  BY <1>3 DEF AwaitInv, Live
<1>4. [c EXCEPT !.m_writing = FALSE] \in Conn
  BY WrittenFields
<1>5. CASE WriteStopped(r)
  <2>1. conn'[r] = [c EXCEPT !.m_writing = FALSE] /\ c.m_stopped
    BY <1>1, <1>2, <1>5 DEF WriteStopped, Written
  <2>. QED
    BY <1>3, <2>1, WrittenFields
<1>6. CASE WriteLast(r)
  <2>1. PICK w \in Conn : w = [c EXCEPT !.m_writing = FALSE]
    BY <1>4
  <2>2. conn'[r] = [w EXCEPT !.m_stopped = TRUE]
    BY <1>1, <1>2, <1>6, <2>1 DEF WriteLast, Written
  <2>. QED
    BY <1>3, <2>2, LastFields
<1>7. CASE WriteFails(r)
  <2>1. PICK w \in Conn : w = [c EXCEPT !.m_writing = FALSE]
    BY <1>4
  <2>2. PICK m \in [Request -> Conn] : m = [conn EXCEPT ![r] = w]
    BY <1>1
  <2>3. Abort({r}, alerts, m) /\ UNCHANGED <<have, valid>> /\ m[r] = w
    BY <1>1, <1>2, <1>7, <2>1, <2>2 DEF WriteFails, Written
  <2>4. conn'[r] = Stopping(w)
    BY <1>1, <2>3, OneAborted
  <2>. QED
    BY <1>3, <2>4, StoppingFields
<1>8. CASE Done(r)
  BY <1>1, <1>8 DEF Done, AwaitInv, Live
<1>9. CASE Cancel(r) /\ c.m_stopped
  BY <1>2, <1>3, <1>9 DEF Cancel
<1>10. CASE Cancel(r) /\ ~c.m_stopped
  <2>1. Abort({r}, alerts, conn) /\ UNCHANGED <<have, valid>>
    BY <1>2, <1>10 DEF Cancel
  <2>2. conn'[r] = Stopping(c)
    BY <1>1, <1>2, <2>1, OneAborted
  <2>. QED
    BY <1>3, <2>2, StoppingFields
<1>11. CASE WriteNext(r)
  <2>1. /\ ~c.m_stopped /\ c.m_next_piece # c.m_end_piece /\ UNCHANGED <<pc, m_outstanding_requests>>
        /\ pc[r] = "header" /\ Placed(r)
    BY <1>1, <1>2, <1>11, Sender DEF WriteNext
  <2>2. Live(r) /\ r \in m_outstanding_requests
    BY <1>1, <1>2, <2>1 DEF Live, AwaitInv
  <2>3. CASE c.m_next_piece \in c.m_out_of_order
    <3>1. /\ conn'[r] = WithDeadlines(Sending(c)) /\ c.m_next_piece < Pieces
          /\ \A q \in Prefetched(Sending(c)) : Coming(q)'
      BY <1>1, <1>2, <1>11, <2>3, NextSent
    <3>. QED
      BY <1>1, <1>2, <2>1, <2>2, <3>1, AwaitSent DEF ComingKept
  <2>4. CASE c.m_next_piece \notin c.m_out_of_order
    <3>1. PICK d : d = conn'[r]
      OBVIOUS
    <3>2. d = [c EXCEPT !.m_writing = FALSE]
      BY <1>1, <1>2, <1>11, <2>4, <3>1 DEF WriteNext, Written
    <3>3. Alike(c, d) /\ d.m_out_of_order = c.m_out_of_order /\ d.m_stopped = c.m_stopped
      BY <3>2, WrittenFields
    <3>4. c.m_next_piece < c.m_end_piece
      BY <1>2, <2>1, ConnFields DEF Placed
    <3>. QED
      BY <1>1, <1>2, <2>1, <2>2, <2>4, <3>1, <3>3, <3>4 DEF AwaitInv, Live, Alike, ComingKept
  <2>. QED
    BY <2>3, <2>4
<1>. QED
  BY <1>5, <1>6, <1>7, <1>8, <1>9, <1>10, <1>11 DEF OnWrite

\* Every step keeps what a request waits for.
LEMMA AwaitStep ==
  ASSUME RequestsInv, RequestsInv', [Next]_vars, UNCHANGED range, NEW r \in Request, AwaitInv(r)
  PROVE  AwaitInv(r)'
<1>1. TypeInv /\ TypeInv' /\ RequestInv(r)
  BY DEF RequestsInv
<1>2. CASE UNCHANGED vars
  BY <1>2 DEF vars, torrentVars, requestVars, AwaitInv, Live, Coming
<1>3. CASE ~valid'
  BY <1>3 DEF AwaitInv
<1>4. CASE valid' /\ ~UNCHANGED vars
  <2>1. /\ ~terminated
        /\ \/ (\E p \in Piece : PieceFinished(p) \/ ReadFails(p)) \/ RemoveTorrent \/ Shutdown
           \/ \E p \in Piece : HandleAlert(p)
           \/ \E q \in Request : Start(q) \/ Handler(q) \/ OnWrite(q) \/ WriteFails(q) \/ Done(q) \/ Cancel(q)
    BY <1>4 DEF Next, Stop
  <2>2. CASE (\E p \in Piece : PieceFinished(p) \/ ReadFails(p)) \/ RemoveTorrent \/ Shutdown
    <3>1. ComingKept
      BY <1>1, <1>4, <2>2, OutsideKept
    <3>2. UNCHANGED requestVars /\ (valid' => valid)
      <4>1. CASE \E p \in Piece : PieceFinished(p) \/ ReadFails(p)
        BY <4>1, ReadsSame
      <4>2. CASE RemoveTorrent \/ Shutdown
        BY <4>2 DEF RemoveTorrent, Shutdown, torrentVars
      <4>. QED
        BY <2>2, <4>1, <4>2
    <3>. QED
      BY <3>1, <3>2, AwaitOther DEF requestVars, ComingKept
  <2>3. ASSUME NEW p \in Piece, HandleAlert(p) PROVE AwaitInv(r)'
    <3>1. valid' = valid
      BY <2>3 DEF HandleAlert, PieceRead, PieceNotRead
    <3>2. Onward
      BY <1>1, <2>1, <3>1 DEF Onward
    <3>. QED
      BY <1>1, <1>4, <2>3, <3>2, AwaitRead, AwaitNotRead DEF HandleAlert
  <2>4. ASSUME NEW q \in Request, Start(q) \/ Handler(q) \/ OnWrite(q) \/ WriteFails(q) \/ Done(q) \/ Cancel(q)
        PROVE  AwaitInv(r)'
    <3>1. valid' = valid
      BY <2>4 DEF Start, Handler, SetPieceDeadlines, WriteHeader, OnWrite, WriteStopped, WriteLast, WriteNext,
         WriteFails, Done, Cancel, torrentVars
    <3>2. Onward
      BY <1>1, <2>1, <3>1 DEF Onward
    <3>3. ComingKept
      BY <1>1, <1>4, <2>1, <2>4, HandlersKeep
    <3>4. CASE q = r
      <4>1. (Start(r) \/ Handler(r)) \/ (OnWrite(r) \/ WriteFails(r) \/ Done(r) \/ Cancel(r))
        BY <2>4, <3>4
      <4>. QED
        BY <1>1, <1>4, <3>2, <3>3, <4>1, AwaitHandler, AwaitWrite
    <3>5. CASE q # r
      <4>1. /\ Untouched(r)
            /\ r \in m_outstanding_requests /\ ~conn[r].m_stopped => r \in m_outstanding_requests'
        BY <2>4, <3>2, <3>5, OthersSame
      <4>. QED
        BY <3>1, <3>3, <4>1, AwaitOther DEF Untouched, Elsewhere, ComingKept
    <3>. QED
      BY <3>4, <3>5
  <2>. QED
    BY <2>1, <2>2, <2>3, <2>4
<1>. QED
  BY <1>2, <1>3, <1>4

\* While the torrent is in the session, a request that waits for a piece is going to be
\* woken: the piece has a deadline, or a read of it is under way or has failed.
THEOREM NoneForgotten == Spec => []Awaited
<1> DEFINE Inv == RequestsInv /\ \A r \in Request : AwaitInv(r)
<1>1. Init => Inv
  <2>1. Init => \A r \in Request : AwaitInv(r)
    BY DEF Init, AwaitInv, Live
  <2>. QED
    BY <2>1, RequestsInit
<1>2. Inv /\ [Next]_vars => Inv'
  <2> SUFFICES ASSUME Inv, [Next]_vars PROVE Inv'
    OBVIOUS
  <2>1. RequestsInv' /\ UNCHANGED range
    BY RequestsStep
  <2>2. ASSUME NEW r \in Request PROVE AwaitInv(r)'
    BY <2>1, AwaitStep
  <2>. QED
    BY <2>1, <2>2
<1>3. Inv => Awaited
  <2> SUFFICES ASSUME Inv, valid, NEW r \in Request, pc[r] = "header", ~conn[r].m_stopped, ~conn[r].m_writing
               PROVE  /\ conn[r].m_next_piece < conn[r].m_end_piece
                      /\ Coming(conn[r].m_next_piece)
    BY DEF Awaited, Coming
  <2>1. PICK c \in Conn : c = conn[r]
    BY DEF RequestsInv, TypeInv, ConnTypes
  <2>2. c.m_next_piece < c.m_end_piece /\ c.m_next_piece < c.m_next_priority_piece /\ c.m_next_piece \notin c.m_out_of_order
    BY <2>1 DEF AwaitInv, Live
  <2>3. c.m_next_piece \in Piece /\ c.m_next_piece >= c.m_next_piece
    BY <2>2, ConnFields, Sizes DEF Piece
  <2>. QED
    BY <2>1, <2>2, <2>3 DEF AwaitInv, Live
<1> HIDE DEF Inv
<1>4. Inv => Awaited
  BY <1>3
<1>. QED
  BY <1>1, <1>2, <1>4, PTL DEF Spec
=============================================================================
