---------------------------- MODULE FileRequests ----------------------------
(***************************************************************************)
(* file_requests: a plugin that reads pieces of torrents for others, who   *)
(* wait on a future.  A piece that is there is read at once, another when  *)
(* it is finished.  Those that ask run on threads of their own; alerts and *)
(* ticks come from libtorrent, one at a time.  The set of pieces that are  *)
(* there has no lock: who looks into it while a piece is inserted may or   *)
(* may not find it.  One torrent; m_requests is ordered by the piece, and  *)
(* among those of a piece by when they came.                               *)
(***************************************************************************)
EXTENDS Integers, Sequences, FiniteSets

CONSTANTS
  Piece,       \* the pieces, numbers
  MaxRequests  \* bounds the requests

ASSUME FileRequestsAssumption == Piece \subseteq Nat /\ MaxRequests \in Nat

VARIABLES
  m_requests,      \* the ids of the requests
  m_next_timeout,  \* the one on_tick looks at next
  m_have_pieces,
  asked,           \* the piece of each request that was made
  asking,          \* where the call of each is
  finishing,       \* the piece whose alert is handled, and where
  reads,           \* how many times libtorrent is to read each piece
  answers,         \* how often each promise was given a value
  late             \* those whose timeout has passed

requestVars == <<m_requests, m_next_timeout, m_have_pieces, asked, asking, finishing, reads, answers, late>>

Asked == 1..Len(asked)
End == 0
NoPiece == [step |-> "no", piece |-> 0]

FileRequestsTypeOK ==
  /\ asked \in Seq(Piece) /\ Len(asked) <= MaxRequests
  /\ m_requests \subseteq Asked /\ m_next_timeout \in m_requests \cup {End}
  /\ m_have_pieces \subseteq Piece
  /\ asking \in [Asked -> {"read", "done"}]
  /\ finishing.step \in {"no", "insert", "find", "read"}
  /\ reads \in [Piece -> 0..MaxRequests + 1]
  /\ answers \in [Asked -> 0..1]
  /\ late \subseteq Asked

FileRequestsInit ==
  /\ m_requests = {} /\ m_next_timeout = End /\ m_have_pieces = {}
  /\ asked = <<>> /\ asking = <<>> /\ answers = <<>> /\ late = {}
  /\ finishing = NoPiece /\ reads = [p \in Piece |-> 0]

-----------------------------------------------------------------------------
(* The multiset                                                            *)

\* operator<; those that are equal keep the order they came in.
Before(q, r) == asked[q] < asked[r] \/ (asked[q] = asked[r] /\ q < r)

equal_range(p) == {r \in m_requests : asked[r] = p}

First(s) == IF s = {} THEN End ELSE CHOOSE r \in s : \A q \in s : q = r \/ Before(r, q)

\* The request after those that are erased, as the loops advance m_next_timeout.
After(r, erased) == First({q \in m_requests \ erased : Before(r, q)})

-----------------------------------------------------------------------------
(* read_piece                                                              *)

ReadPiece(p) ==
  /\ Len(asked) < MaxRequests
  /\ asked' = Append(asked, p)
  /\ asking' = Append(asking, "read") /\ answers' = Append(answers, 0)
  /\ m_requests' = m_requests \cup {Len(asked) + 1}
  /\ UNCHANGED <<m_next_timeout, m_have_pieces, finishing, reads, late>>

Inserting(p) == finishing = [step |-> "insert", piece |-> p]

\* The priority of the piece was raised, and the set is looked into.
ReadNow(r) ==
  /\ asking[r] = "read" /\ asking' = [asking EXCEPT ![r] = "done"]
  /\ \E have \in IF Inserting(asked[r]) THEN BOOLEAN ELSE {asked[r] \in m_have_pieces} :
       reads' = IF have THEN [reads EXCEPT ![asked[r]] = @ + 1] ELSE reads
  /\ UNCHANGED <<m_requests, m_next_timeout, m_have_pieces, asked, finishing, answers, late>>

-----------------------------------------------------------------------------
(* on_alert                                                                *)

\* piece_finished_alert: the piece is inserted, the requests are looked up, and the
\* piece is read.
PieceFinished(p) ==
  /\ finishing = NoPiece /\ p \notin m_have_pieces
  /\ finishing' = [step |-> "insert", piece |-> p]
  /\ UNCHANGED <<m_requests, m_next_timeout, m_have_pieces, asked, asking, reads, answers, late>>

InsertPiece ==
  /\ finishing.step = "insert"
  /\ m_have_pieces' = m_have_pieces \cup {finishing.piece}
  /\ finishing' = [finishing EXCEPT !.step = "find"]
  /\ UNCHANGED <<m_requests, m_next_timeout, asked, asking, reads, answers, late>>

\* The alert is done with when there is no request for this piece or a later one: where
\* equal_range begins is compared with the end.
Nobody(p) == \A r \in m_requests : asked[r] < p

FindRequests ==
  /\ finishing.step = "find"
  /\ finishing' = IF Nobody(finishing.piece) THEN NoPiece ELSE [finishing EXCEPT !.step = "read"]
  /\ UNCHANGED <<m_requests, m_next_timeout, m_have_pieces, asked, asking, reads, answers, late>>

ReadFinished ==
  /\ finishing.step = "read" /\ finishing' = NoPiece
  /\ reads' = [reads EXCEPT ![finishing.piece] = @ + 1]
  /\ UNCHANGED <<m_requests, m_next_timeout, m_have_pieces, asked, asking, answers, late>>

\* Where the cursor goes when requests are erased.  Mutant: it stays.
NextTimeout_left(erased) == m_next_timeout

NextTimeout(erased) == IF m_next_timeout \in erased THEN After(m_next_timeout, erased) ELSE m_next_timeout

\* read_piece_alert: all that wait for the piece are answered.
PieceRead(p) ==
  /\ reads[p] > 0 /\ finishing = NoPiece
  /\ reads' = [reads EXCEPT ![p] = @ - 1]
  /\ LET range == equal_range(p) IN
     /\ answers' = [r \in Asked |-> IF r \in range THEN answers[r] + 1 ELSE answers[r]]
     /\ m_next_timeout' = NextTimeout(range)
     /\ m_requests' = m_requests \ range
  /\ UNCHANGED <<m_have_pieces, asked, asking, finishing, late>>

\* torrent_paused_alert, torrent_removed_alert: the requests are dropped, and the
\* futures of those that wait are broken.
TorrentPaused ==
  /\ finishing = NoPiece
  /\ m_requests' = {} /\ m_next_timeout' = End
  /\ UNCHANGED <<m_have_pieces, asked, asking, finishing, reads, answers, late>>

-----------------------------------------------------------------------------
(* on_tick                                                                 *)

TimePasses(r) ==
  /\ r \notin late /\ late' = late \cup {r}
  /\ UNCHANGED <<m_requests, m_next_timeout, m_have_pieces, asked, asking, finishing, reads, answers>>

\* One request is looked at in each tick; it is dropped when its timeout has passed.
\* Mutant: one whose timeout has not passed is looked at again.
Ticked_again(at) ==
  /\ m_requests' = IF at \in late THEN m_requests \ {at} ELSE m_requests
  /\ m_next_timeout' = IF at \in late THEN After(at, {at}) ELSE at

Ticked(at) ==
  /\ m_requests' = IF at \in late THEN m_requests \ {at} ELSE m_requests
  /\ m_next_timeout' = After(at, {at})

OnTick ==
  /\ m_requests # {} /\ finishing = NoPiece
  /\ Ticked(IF m_next_timeout = End THEN First(m_requests) ELSE m_next_timeout)
  /\ UNCHANGED <<m_have_pieces, asked, asking, finishing, reads, answers, late>>

\* Mutant: the requests are looked up first.
AlertStep_last ==
  /\ \/ /\ finishing.step = "insert"
        /\ finishing' = [finishing EXCEPT !.step = IF Nobody(finishing.piece) THEN "find" ELSE "read"]
        /\ UNCHANGED <<m_have_pieces, reads>>
     \/ /\ finishing.step \in {"find", "read"} /\ finishing' = NoPiece
        /\ m_have_pieces' = m_have_pieces \cup {finishing.piece}
        /\ reads' = IF finishing.step = "read" THEN [reads EXCEPT ![finishing.piece] = @ + 1] ELSE reads
  /\ UNCHANGED <<m_requests, m_next_timeout, asked, asking, answers, late>>

AlertStep == InsertPiece \/ FindRequests \/ ReadFinished

FileRequestsNext ==
  \/ \E p \in Piece : ReadPiece(p) \/ PieceFinished(p) \/ PieceRead(p)
  \/ \E r \in Asked : ReadNow(r) \/ TimePasses(r)
  \/ AlertStep \/ TorrentPaused \/ OnTick

-----------------------------------------------------------------------------

\* A request for a piece that is there does not wait for nothing: the piece is being
\* read, or about to be by the one who asked or by the alert.
NoLostRead ==
  \A r \in m_requests :
    asked[r] \in m_have_pieces =>
      \/ reads[asked[r]] > 0
      \/ \E q \in Asked : asked[q] = asked[r] /\ asking[q] # "done"
      \/ finishing.step # "no" /\ finishing.piece = asked[r]

\* A request whose timeout has passed is dropped in the end, however the others come
\* and go: the cursor gets to it.
TimeoutsReached == \A r \in 1..MaxRequests : (r \in late /\ r \in m_requests) ~> r \notin m_requests
=============================================================================
