--------------------------- MODULE FileDownloader ----------------------------
(***************************************************************************)
(* file_downloader: responses to requests for a range of bytes of a file,  *)
(* streamed while its pieces are still being downloaded.  A request gives  *)
(* the pieces it is about to need a deadline, and libtorrent posts a       *)
(* read_piece_alert for each once it has it.  Alerts go to every request   *)
(* for the torrent, and pieces that come too early are kept.               *)
(*                                                                         *)
(* The actors: the threads that run the connections' handlers, the main    *)
(* thread that dispatches alerts, libtorrent (external), and shutdown.     *)
(* Every step below runs under m_mutex of the requests it changes.         *)
(***************************************************************************)
EXTENDS Integers, Sequences, FiniteSets, FiniteSetsExt

CONSTANTS
  Request,    \* the requests, each sent once
  Ranges,     \* the byte ranges asked for, as places in the torrent
  PieceSize,  \* m_piece_size
  Pieces,     \* the number of pieces of the torrent
  Prefetch,   \* how many pieces ahead get a deadline
  Removable   \* whether the torrent may be removed

ASSUME DownloaderAssumption ==
  /\ PieceSize \in Nat \ {0}
  /\ Pieces \in Nat \ {0}
  /\ Prefetch \in Nat \ {0}
  /\ Removable \in BOOLEAN
  /\ \A a \in Ranges :
       /\ a.first \in Nat /\ a.total \in Nat
       /\ a.first + a.total <= Pieces * PieceSize
       /\ a = [first |-> a.first, total |-> a.total]
       /\ a.first < Pieces * PieceSize

VARIABLES
  \* libtorrent
  have,       \* the pieces it has
  deadlines,  \* the pieces with a deadline, all alert_when_available
  alerts,     \* how many reads of each piece, good and bad, are to be handled
  valid,      \* the torrent is in the session
  \* the handler of each request and its file_request_conn
  pc,
  range,
  conn,
  m_outstanding_requests,
  due,        \* requests whose m_done is posted or about to be called
  dones,      \* how often a handler told the connection that it is done
  cancelling, \* requests shutdown() is yet to cancel
  closing,    \* shutdown() was called
  terminated, \* an exception left the main loop or a connection's thread
  \* what was written to each connection, and how its response ended
  wire,
  fate

requestVars == <<pc, range, conn, m_outstanding_requests, due, dones, wire, fate>>
torrentVars == <<have, deadlines, alerts, valid>>
shutdownVars == <<cancelling, closing>>
vars == <<torrentVars, requestVars, shutdownVars, terminated>>

Piece == 0 .. Pieces - 1
Bytes(f, n) == [i \in 1 .. n |-> f + i - 1]
Least(a, b) == IF a < b THEN a ELSE b

Step == {"idle", "mapped", "deadlines", "header", "failed", "done"}

Conn == [m_next_piece: 0 .. Pieces, m_next_priority_piece: 0 .. Pieces, m_end_piece: 0 .. Pieces,
         m_offset: 0 .. PieceSize - 1, m_left_to_send: Nat, m_out_of_order: SUBSET Piece,
         m_writing: BOOLEAN, m_stopped: BOOLEAN]

\* map_file() of the first and the last byte.  The last byte of an empty file
\* is the one before it; a division by the piece size truncates.
PieceOf(b) == IF b < 0 THEN 0 ELSE b \div PieceSize
NewConn(a) ==
  [m_next_piece |-> PieceOf(a.first), m_next_priority_piece |-> PieceOf(a.first),
   m_end_piece |-> PieceOf(a.first + a.total - 1) + 1,
   m_offset |-> a.first % PieceSize, m_left_to_send |-> a.total, m_out_of_order |-> {},
   m_writing |-> TRUE, m_stopped |-> FALSE]

NoConn == [m_next_piece |-> 0, m_next_priority_piece |-> 0, m_end_piece |-> 0, m_offset |-> 0,
           m_left_to_send |-> 0, m_out_of_order |-> {}, m_writing |-> FALSE, m_stopped |-> FALSE]

TypeOK ==
  /\ have \subseteq Piece
  /\ deadlines \subseteq Piece
  /\ alerts \in [Piece \X BOOLEAN -> Nat]
  /\ valid \in BOOLEAN
  /\ pc \in [Request -> Step]
  /\ range \in [Request -> Ranges]
  /\ conn \in [Request -> Conn]
  /\ m_outstanding_requests \subseteq Request
  /\ due \subseteq Request
  /\ dones \in [Request -> Nat]
  /\ cancelling \subseteq Request
  /\ closing \in BOOLEAN
  /\ terminated \in BOOLEAN

Init ==
  /\ have \in SUBSET Piece
  /\ deadlines = {}
  /\ alerts = [x \in Piece \X BOOLEAN |-> 0]
  /\ valid = TRUE
  /\ pc = [r \in Request |-> "idle"]
  /\ range \in [Request -> Ranges]
  /\ conn = [r \in Request |-> NoConn]
  /\ m_outstanding_requests = {}
  /\ due = {}
  /\ dones = [r \in Request |-> 0]
  /\ cancelling = {} /\ closing = FALSE
  /\ terminated = FALSE
  /\ wire = [r \in Request |-> <<>>]
  /\ fate = [r \in Request |-> "open"]

-----------------------------------------------------------------------------
(* file_request_conn, as functions of its members.                         *)

\* set_piece_deadlines_impl: the pieces it gives a deadline.  Mutant: the end
\* piece as well.
Prefetched_past(c) ==
  IF c.m_stopped THEN {}
  ELSE c.m_next_priority_piece .. Least(c.m_next_piece + Prefetch - 1, c.m_end_piece)
Prefetched(c) ==
  IF c.m_stopped THEN {}
  ELSE c.m_next_priority_piece .. Least(c.m_next_piece + Prefetch, c.m_end_piece) - 1
WithDeadlines(c) ==
  [c EXCEPT !.m_next_priority_piece = @ + Cardinality(Prefetched(c))]

\* async_write of the next piece, and what follows it.  Mutant: the offset of
\* the first piece stays.
Size(c) == Least(PieceSize - c.m_offset, c.m_left_to_send)
Sending_offset(c) ==
  [c EXCEPT !.m_next_piece = @ + 1, !.m_left_to_send = @ - Size(c),
            !.m_out_of_order = @ \ {c.m_next_piece}, !.m_writing = TRUE]
Sending(c) ==
  [c EXCEPT !.m_next_piece = @ + 1, !.m_left_to_send = @ - Size(c), !.m_offset = 0,
            !.m_out_of_order = @ \ {c.m_next_piece}, !.m_writing = TRUE]
Chunk(c) == Bytes(c.m_next_piece * PieceSize + c.m_offset, Size(c))

Stopping(c) == [c EXCEPT !.m_stopped = TRUE, !.m_out_of_order = {}]

\* The deadlines abort() takes back.
Released(c) == c.m_next_piece .. c.m_next_priority_piece - 1

Ready(c) == ~c.m_stopped /\ ~c.m_writing

-----------------------------------------------------------------------------
(* libtorrent.                                                             *)

\* set_piece_deadline of the pieces P[r] of each request: one that is there is
\* read at once.  a is alerts, or what a handler has left of it.
SetDeadlines(a, P) ==
  /\ deadlines' = deadlines \cup ((UNION {P[r] : r \in DOMAIN P}) \ have)
  /\ alerts' = [x \in Piece \X BOOLEAN |->
                  a[x] + IF x[2] /\ x[1] \in have
                         THEN Cardinality({r \in DOMAIN P : x[1] \in P[r]}) ELSE 0]

\* reset_piece_deadline of the pieces of P, each answered by a failed read
ResetDeadlines(a, P) ==
  /\ deadlines' = deadlines \ P
  /\ alerts' = [x \in Piece \X BOOLEAN |->
                  a[x] + IF ~x[2] /\ x[1] \in P \cap deadlines THEN 1 ELSE 0]

\* Nothing catches an exception of the handlers below.
Terminate == terminated' = TRUE /\ UNCHANGED <<deadlines, alerts>>

\* A piece is downloaded; one with a deadline is read.
PieceFinished(p) ==
  /\ valid
  /\ p \notin have
  /\ have' = have \cup {p}
  /\ deadlines' = deadlines \ {p}
  /\ alerts' = [alerts EXCEPT ![<<p, TRUE>>] = @ + IF p \in deadlines THEN 1 ELSE 0]
  /\ UNCHANGED <<valid, requestVars, shutdownVars, terminated>>

ReadFails(p) ==
  /\ alerts[<<p, TRUE>>] > 0
  /\ alerts' = [alerts EXCEPT ![<<p, TRUE>>] = @ - 1, ![<<p, FALSE>>] = @ + 1]
  /\ UNCHANGED <<have, deadlines, valid, requestVars, shutdownVars, terminated>>

\* Handles of a removed torrent throw; its deadlines are gone.
RemoveTorrent ==
  /\ Removable
  /\ valid
  /\ valid' = FALSE
  /\ deadlines' = {}
  /\ UNCHANGED <<have, alerts, requestVars, shutdownVars, terminated>>

-----------------------------------------------------------------------------
(* The handler of a request, on the connection's thread.                   *)

\* The request is entered into the map.
Start(r) ==
  /\ pc[r] = "idle"
  /\ valid
  /\ conn' = [conn EXCEPT ![r] = NewConn(range[r])]
  /\ m_outstanding_requests' = m_outstanding_requests \cup {r}
  /\ pc' = [pc EXCEPT ![r] = "mapped"]
  /\ UNCHANGED <<torrentVars, range, due, dones, wire, fate, shutdownVars, terminated>>

\* An exception in the handler: the connection answers with an error, and
\* the request stays in the map.
HandlerThrows(r) ==
  /\ pc' = [pc EXCEPT ![r] = "failed"]
  /\ dones' = [dones EXCEPT ![r] = @ + 1]
  /\ fate' = [fate EXCEPT ![r] = "aborted"]

\* freq->set_piece_deadlines()
SetPieceDeadlines(r) ==
  LET c == conn[r] IN
  /\ pc[r] = "mapped"
  /\ IF valid \/ Prefetched(c) = {}
     THEN /\ SetDeadlines(alerts, [q \in {r} |-> Prefetched(c)])
          /\ conn' = [conn EXCEPT ![r] = WithDeadlines(c)]
          /\ pc' = [pc EXCEPT ![r] = "deadlines"]
          /\ UNCHANGED <<dones, fate>>
     ELSE HandlerThrows(r) /\ UNCHANGED <<deadlines, alerts, conn>>
  /\ UNCHANGED <<have, valid, range, m_outstanding_requests, due, wire, shutdownVars,
                 terminated>>

\* get_renamed_files(), which throws when the torrent is gone, and the
\* header, which is written also when the request was cancelled meanwhile
WriteHeader(r) ==
  /\ pc[r] = "deadlines"
  /\ IF valid THEN pc' = [pc EXCEPT ![r] = "header"] /\ UNCHANGED <<dones, fate>>
     ELSE HandlerThrows(r)
  /\ UNCHANGED <<torrentVars, conn, range, m_outstanding_requests, due, wire, shutdownVars,
                 terminated>>

-----------------------------------------------------------------------------
(* What the requests of R do.  a is alerts and c is conn, or what a handler *)
(* has made of them before.                                                *)

\* abort(): the deadlines are taken back and m_done is posted.  On a removed
\* torrent it throws in between.
Abort(R, a, c) ==
  LET P == UNION {Released(c[r]) : r \in R} IN
  /\ conn' = [r \in Request |-> IF r \in R THEN Stopping(c[r]) ELSE c[r]]
  /\ IF valid \/ P = {}
     THEN /\ ResetDeadlines(a, P)
          /\ fate' = [r \in Request |-> IF r \in R THEN "aborted" ELSE fate[r]]
          /\ due' = due \cup R
          /\ UNCHANGED terminated
     ELSE Terminate /\ UNCHANGED <<fate, due>>

\* A piece is written to each, from the buffer just read or one kept.
Send(R, a) ==
  LET P == [r \in R |-> Prefetched(Sending(conn[r]))] IN
  /\ wire' = [r \in Request |-> IF r \in R THEN wire[r] \o Chunk(conn[r]) ELSE wire[r]]
  /\ IF valid \/ UNION {P[r] : r \in R} = {}
     THEN SetDeadlines(a, P) /\ UNCHANGED terminated
     ELSE Terminate

-----------------------------------------------------------------------------
(* read_piece_alert, on the main thread: all requests for the torrent.     *)

Wanting(p) ==
  {r \in m_outstanding_requests :
     ~conn[r].m_stopped /\ p \in conn[r].m_next_piece .. conn[r].m_end_piece - 1}

PieceRead(p) ==
  LET send == {r \in Wanting(p) : ~conn[r].m_writing /\ conn[r].m_next_piece = p} IN
  /\ alerts[<<p, TRUE>>] > 0
  /\ Send(send, [alerts EXCEPT ![<<p, TRUE>>] = @ - 1])
  /\ conn' = [r \in Request |->
                IF r \in send THEN WithDeadlines(Sending(conn[r]))
                ELSE IF r \in Wanting(p) THEN [conn[r] EXCEPT !.m_out_of_order = @ \cup {p}]
                ELSE conn[r]]
  /\ UNCHANGED <<have, valid, pc, range, m_outstanding_requests, due, dones, fate,
                 shutdownVars>>

PieceNotRead(p) ==
  /\ alerts[<<p, FALSE>>] > 0
  /\ Abort(Wanting(p), [alerts EXCEPT ![<<p, FALSE>>] = @ - 1], conn)
  /\ UNCHANGED <<have, valid, pc, range, m_outstanding_requests, dones, wire, shutdownVars>>

-----------------------------------------------------------------------------
(* on_write: the header or a piece was written, or could not be.           *)

\* A write may still be under way when m_done is called after an abort.
Writing(r) == pc[r] \in {"header", "done"} /\ conn[r].m_writing
Written(r) == [conn[r] EXCEPT !.m_writing = FALSE]

WriteStopped(r) ==
  /\ Writing(r)
  /\ conn[r].m_stopped
  /\ conn' = [conn EXCEPT ![r] = Written(r)]
  /\ UNCHANGED <<torrentVars, pc, range, m_outstanding_requests, due, dones, wire, fate,
                 shutdownVars, terminated>>

WriteFails(r) ==
  /\ Writing(r)
  /\ ~conn[r].m_stopped
  /\ Abort({r}, alerts, [conn EXCEPT ![r] = Written(r)])
  /\ UNCHANGED <<have, valid, pc, range, m_outstanding_requests, dones, wire, shutdownVars>>

\* The response is complete.
WriteLast(r) ==
  /\ Writing(r)
  /\ ~conn[r].m_stopped
  /\ conn[r].m_next_piece = conn[r].m_end_piece
  /\ conn' = [conn EXCEPT ![r] = [Written(r) EXCEPT !.m_stopped = TRUE]]
  /\ fate' = [fate EXCEPT ![r] = "complete"]
  /\ due' = due \cup {r}
  /\ UNCHANGED <<torrentVars, pc, range, m_outstanding_requests, dones, wire, shutdownVars,
                 terminated>>

\* The next piece is sent if it came early.  Mutant: it is waited for.
WriteNext_waits(r) ==
  /\ Writing(r)
  /\ ~conn[r].m_stopped
  /\ conn[r].m_next_piece # conn[r].m_end_piece
  /\ conn' = [conn EXCEPT ![r] = Written(r)]
  /\ UNCHANGED <<torrentVars, pc, range, m_outstanding_requests, due, dones, wire, fate,
                 shutdownVars, terminated>>

WriteNext(r) ==
  /\ Writing(r)
  /\ ~conn[r].m_stopped
  /\ conn[r].m_next_piece # conn[r].m_end_piece
  /\ IF conn[r].m_next_piece \in conn[r].m_out_of_order
     THEN /\ Send({r}, alerts)
          /\ conn' = [conn EXCEPT ![r] = WithDeadlines(Sending(conn[r]))]
     ELSE /\ conn' = [conn EXCEPT ![r] = Written(r)]
          /\ UNCHANGED <<deadlines, alerts, wire, terminated>>
  /\ UNCHANGED <<have, valid, pc, range, m_outstanding_requests, due, dones, fate, shutdownVars>>

\* m_done: every request that stopped leaves the map.
Done(r) ==
  /\ r \in due
  /\ pc[r] \in {"header", "failed"}
  /\ due' = due \ {r}
  /\ dones' = [dones EXCEPT ![r] = @ + 1]
  /\ m_outstanding_requests' = {q \in m_outstanding_requests : ~conn[q].m_stopped}
  /\ pc' = [pc EXCEPT ![r] = "done"]
  /\ UNCHANGED <<torrentVars, range, conn, wire, fate, shutdownVars, terminated>>

-----------------------------------------------------------------------------
(* shutdown() copies the map and then cancels the requests one by one.     *)
(* Mutant: abort() does not look whether the request has stopped.          *)

Shutdown ==
  /\ ~closing
  /\ closing' = TRUE
  /\ cancelling' = m_outstanding_requests
  /\ UNCHANGED <<torrentVars, requestVars, terminated>>

Cancel_restopped(r) ==
  /\ r \in cancelling
  /\ cancelling' = cancelling \ {r}
  /\ Abort({r}, alerts, conn)
  /\ UNCHANGED <<have, valid, pc, range, m_outstanding_requests, dones, wire, closing>>

Cancel(r) ==
  /\ r \in cancelling
  /\ cancelling' = cancelling \ {r}
  /\ IF conn[r].m_stopped THEN UNCHANGED <<deadlines, alerts, conn, fate, due, terminated>>
     ELSE Abort({r}, alerts, conn)
  /\ UNCHANGED <<have, valid, pc, range, m_outstanding_requests, dones, wire, closing>>

-----------------------------------------------------------------------------

Handler(r) == SetPieceDeadlines(r) \/ WriteHeader(r)
OnWrite(r) == WriteStopped(r) \/ WriteLast(r) \/ WriteNext(r)
HandleAlert(p) == PieceRead(p) \/ PieceNotRead(p)

Quiet == \A r \in Request : pc[r] \in {"idle", "failed", "done"} /\ r \notin due

\* The model stops when every request was sent and answered.  The requests of a
\* removed torrent wait for ever: nothing wakes them and they have no timeout.
Stop == (terminated \/ ~valid \/ Quiet) /\ UNCHANGED vars

Next ==
  \/ /\ ~terminated
     /\ \/ \E p \in Piece : PieceFinished(p) \/ ReadFails(p) \/ HandleAlert(p)
        \/ RemoveTorrent
        \/ \E r \in Request :
             \/ Start(r) \/ Handler(r) \/ OnWrite(r) \/ WriteFails(r) \/ Done(r) \/ Cancel(r)
        \/ Shutdown
  \/ Stop

Spec == Init /\ [][Next]_vars

\* The threads run, writes end, reads are answered, and pieces that were given
\* a deadline are downloaded at some time.
FairSpec ==
  /\ Spec
  /\ \A r \in Request : WF_vars(~terminated /\ (Handler(r) \/ OnWrite(r) \/ Done(r)))
  /\ \A p \in Piece : WF_vars(~terminated /\ HandleAlert(p))
  /\ \A p \in Piece : WF_vars(~terminated /\ p \in deadlines /\ PieceFinished(p))

-----------------------------------------------------------------------------

\* The bytes of the range, in order and once each.
Stream == INSTANCE ByteStream WITH range <- range, wire <- wire, fate <- fate
StreamsInOrder == Stream!Spec

\* The connection is told once that its response has ended, and no request of
\* a response that has ended is left to be woken.
DoneOnce ==
  valid => \A r \in Request :
    /\ dones[r] + (IF r \in due THEN 1 ELSE 0) <= 1
    /\ pc[r] = "done" => dones[r] = 1 /\ r \notin m_outstanding_requests

\* A request that waits for a piece is going to be woken: the piece has a
\* deadline, or a read of it is under way or has failed, whatever the other
\* requests did to the deadlines they share.
Awaited ==
  valid /\ ~terminated => \A r \in Request :
    pc[r] = "header" /\ ~conn[r].m_stopped /\ ~conn[r].m_writing =>
      /\ conn[r].m_next_piece < conn[r].m_end_piece
      /\ \/ conn[r].m_next_piece \in deadlines
         \/ \E ok \in BOOLEAN : alerts[<<conn[r].m_next_piece, ok>>] > 0

\* Every request ends while the torrent is in the session.
RequestsEnd ==
  \A r \in Request : pc[r] = "mapped" ~> (pc[r] = "done" \/ ~valid)
=============================================================================
