-------------------------- MODULE WebServerProofs --------------------------
(***************************************************************************)
(* Theorems about the web server, for any number of connections, packets,  *)
(* handlers, browsers and sessions, and any limits.                        *)
(***************************************************************************)
EXTENDS WebServer, SequenceTheorems, FiniteSetTheorems, WellFoundedInduction, TLAPS

-----------------------------------------------------------------------------
(* One websocket.                                                          *)

Socket == [stage: {"none", "accepting", "open"}, reading: BOOLEAN, m_send_buffer: Seq(Nat),
           m_stopping: BOOLEAN, closing: {"no", "close", "shutdown", "done"}]

\* Of a websocket w that accepted the packets a and delivered the packets d,
\* and failed to send when failed: it closes after it stopped and sent what it
\* has, and what it accepted is delivered or in its buffer.
Clean(w, a, d, failed_) ==
  /\ w \in Socket /\ a \in Seq(Nat) /\ d \in Seq(Nat)
  /\ w.closing # "no" => w.m_stopping /\ w.m_send_buffer = <<>>
  /\ ~failed_ => d \o w.m_send_buffer = a
  /\ ~failed_ /\ w.m_stopping /\ w.m_send_buffer = <<>> => w.closing # "no"

\* An open websocket that does not read is stopping.
Attended(w) == w.stage = "open" /\ ~w.reading => w.m_stopping

\* Sequences of packets.
LEMMA PacketsConcat ==
  ASSUME NEW s \in Seq(Nat), NEW t \in Seq(Nat), NEW p \in Nat
  PROVE  /\ (s \o <<p>>) \o t = s \o (<<p>> \o t)
         /\ s \o (t \o <<p>>) = (s \o t) \o <<p>>
         /\ s \o <<>> = s
<1>1. <<p>> \in Seq(Nat)
  OBVIOUS
<1>. QED
  BY <1>1, ConcatAssociative, ConcatEmptySeq

\* A queue of packets with one more is not empty.
LEMMA PacketsAppend ==
  ASSUME NEW s \in Seq(Nat), NEW p \in Nat
  PROVE  Append(s, p) \in Seq(Nat) /\ Append(s, p) # <<>> /\ Append(s, p) = s \o <<p>>
BY AppendProperties, AppendIsConcat

\* A queue that is not empty is its head followed by its tail.
LEMMA PacketsHead ==
  ASSUME NEW s \in Seq(Nat), s # <<>>
  PROVE  /\ Head(s) \in Nat /\ Tail(s) \in Seq(Nat) /\ s = <<Head(s)>> \o Tail(s)
         /\ Tail(s) = <<>> <=> Len(s) = 1
<1>1. Head(s) \in Nat /\ Tail(s) \in Seq(Nat) /\ Len(Tail(s)) = Len(s) - 1
  BY HeadTailProperties
<1>2. s = <<Head(s)>> \o Tail(s)
  BY <1>1, HeadTailProperties
<1>3. Tail(s) = <<>> <=> Len(Tail(s)) = 0
  BY <1>1, EmptySeq
<1>4. Tail(s) = <<>> <=> Len(s) = 1
  <2>1. PICK n, k : n = Len(s) /\ k = Len(Tail(s))
    OBVIOUS
  <2>2. n \in Nat /\ k = n - 1
    BY <1>1, <2>1, LenProperties
  <2>3. k = 0 <=> n = 1
    BY <2>2
  <2>. QED
    BY <1>3, <2>1, <2>3
<1>. QED
  BY <1>1, <1>2, <1>4

\* close() stops a websocket and leaves what it accepted in the buffer.
LEMMA ClosingClean ==
  ASSUME NEW w, NEW a, NEW d, NEW l, Clean(w, a, d, l)
  PROVE  /\ Clean(Closing(w), a, d, l)
         /\ Closing(w).m_stopping
         /\ Closing(w).stage = w.stage
<1>1. w \in Socket /\ a \in Seq(Nat) /\ d \in Seq(Nat)
  BY DEF Clean
<1>2. CASE w.m_stopping
  BY <1>2 DEF Clean, Closing
<1>3. CASE ~w.m_stopping
  <2>1. PICK x \in {"no", "close"} : x = IF w.m_send_buffer = <<>> THEN "close" ELSE "no"
    OBVIOUS
  <2>2. Closing(w) = [w EXCEPT !.m_stopping = TRUE, !.closing = x]
    BY <1>3, <2>1 DEF Closing
  <2>3. /\ Closing(w) \in Socket
        /\ Closing(w).m_stopping
        /\ Closing(w).closing = x
        /\ Closing(w).stage = w.stage
        /\ Closing(w).m_send_buffer = w.m_send_buffer
    BY <1>1, <2>2 DEF Socket
  <2>. QED
    BY <1>1, <2>1, <2>3 DEF Clean
<1>. QED
  BY <1>2, <1>3

\* send_packet() puts the packet behind the others, unless the websocket stops.
LEMMA SendingClean ==
  ASSUME NEW w, NEW a, NEW d, NEW l, Clean(w, a, d, l), NEW p \in Nat
  PROVE  /\ Clean(Sending(w, p), IF w.m_stopping THEN a ELSE Append(a, p), d, l)
         /\ Sending(w, p).m_stopping = w.m_stopping
         /\ Sending(w, p).stage = w.stage
         /\ Sending(w, p).reading = w.reading
<1>1. w \in Socket /\ a \in Seq(Nat) /\ d \in Seq(Nat) /\ w.m_send_buffer \in Seq(Nat)
  BY DEF Clean, Socket
<1>2. CASE w.m_stopping
  BY <1>2 DEF Sending
<1>3. CASE ~w.m_stopping
  <2>1. PICK b : b = Append(w.m_send_buffer, p)
    OBVIOUS
  <2>2. /\ b \in Seq(Nat) /\ b # <<>> /\ Append(a, p) \in Seq(Nat)
        /\ b = w.m_send_buffer \o <<p>> /\ Append(a, p) = a \o <<p>>
    BY <1>1, <2>1, PacketsAppend
  <2>3. Sending(w, p) = [w EXCEPT !.m_send_buffer = b]
    BY <1>3, <2>1 DEF Sending
  <2>4. /\ Sending(w, p) \in Socket
        /\ Sending(w, p).m_send_buffer = b
        /\ Sending(w, p).m_stopping = w.m_stopping
        /\ Sending(w, p).closing = w.closing
        /\ Sending(w, p).stage = w.stage
        /\ Sending(w, p).reading = w.reading
    BY <1>1, <2>2, <2>3 DEF Socket
  <2>5. ~l => d \o b = Append(a, p)
    <3>1. PICK c \in Seq(Nat) : c = w.m_send_buffer
      BY <1>1
    <3>2. d \o (c \o <<p>>) = (d \o c) \o <<p>>
      <4>1. d \in Seq(Nat)
        BY <1>1
      <4>. QED
        BY <4>1, PacketsConcat, Zenon
    <3>3. ~l => d \o c = a
      BY <3>1 DEF Clean
    <3>4. b = c \o <<p>> /\ Append(a, p) = a \o <<p>>
      BY <2>2, <3>1
    <3>. QED
      BY <3>2, <3>3, <3>4
  <2>. QED
    BY <1>1, <1>3, <2>2, <2>4, <2>5 DEF Clean
<1>. QED
  BY <1>2, <1>3

\* A packet that was sent leaves the buffer; the last one of a websocket that
\* stops lets it close.
LEMMA SentClean ==
  ASSUME NEW w, NEW a, NEW d, NEW l, Clean(w, a, d, l), w.m_send_buffer # <<>>,
         NEW after \in Socket,
         after.m_send_buffer = Tail(w.m_send_buffer),
         after.m_stopping = w.m_stopping,
         after.closing = IF w.m_stopping /\ Len(w.m_send_buffer) = 1 THEN "close" ELSE w.closing
  PROVE  Clean(after, a, Append(d, Head(w.m_send_buffer)), l)
<1>1. w \in Socket /\ a \in Seq(Nat) /\ d \in Seq(Nat) /\ w.m_send_buffer \in Seq(Nat)
  BY DEF Clean, Socket
<1>2. PICK b, h, t : b = w.m_send_buffer /\ h = Head(b) /\ t = Tail(b)
  OBVIOUS
<1>3. /\ h \in Nat /\ t \in Seq(Nat) /\ b = <<h>> \o t /\ Append(d, h) = d \o <<h>>
      /\ Append(d, h) \in Seq(Nat)
      /\ t = <<>> <=> Len(b) = 1
  BY <1>1, <1>2, PacketsHead, PacketsAppend
<1>4. w.closing = "no" /\ after.closing \in {"no", "close"}
  BY <1>1 DEF Clean, Socket
<1>5. ~l => Append(d, h) \o t = a
  <2>1. (d \o <<h>>) \o t = d \o (<<h>> \o t)
    <3>1. d \in Seq(Nat) /\ t \in Seq(Nat) /\ h \in Nat
      BY <1>1, <1>3
    <3>. QED
      BY <3>1, PacketsConcat, Zenon
  <2>2. ~l => d \o b = a
    BY <1>2 DEF Clean
  <2>3. Append(d, h) \o t = d \o b
    BY <1>3, <2>1
  <2>. QED
    BY <2>2, <2>3
<1>6. PICK e : e = Append(d, h)
  OBVIOUS
<1>7. Clean(after, a, e, l)
  BY <1>1, <1>2, <1>3, <1>4, <1>5, <1>6 DEF Clean
<1>. QED
  BY <1>2, <1>6, <1>7

-----------------------------------------------------------------------------
(* All connections.                                                        *)

HttpState == {"none", "handshake", "reading", "handling", "writing", "closing", "over", "upgraded"}

ConnectionTypes ==
  /\ http \in [Connection -> HttpState]
  /\ ws \in [Connection -> Socket]
  /\ {posted, accepted, delivered} \subseteq [Connection -> Seq(Nat)]
  /\ \A c \in newcomer : http[c] = "none"

\* A connection has a websocket once it was upgraded, and nothing is posted to
\* it before.
WsInv(c) ==
  /\ Clean(ws[c], accepted[c], delivered[c], c \in lost)
  /\ Attended(ws[c])
  /\ http[c] # "upgraded" => ws[c] = NoSocket /\ posted[c] = <<>>
  /\ http[c] = "upgraded" => ws[c].stage # "none"

ConnectionInv == ConnectionTypes /\ \A c \in Connection : WsInv(c)

\* The steps of the listener and of the requests leave every websocket alone.
LEMMA HttpStep ==
  ASSUME ConnectionInv, UNCHANGED wsVars, http' \in [Connection -> HttpState],
         \A c \in Connection : http'[c] = "upgraded" <=> http[c] = "upgraded",
         \A c \in newcomer' : http'[c] = "none"
  PROVE  ConnectionInv'
BY DEF ConnectionInv, ConnectionTypes, WsInv, wsVars

\* A step of websocket c.
LEMMA SocketStep ==
  ASSUME ConnectionInv, NEW c \in Connection, UNCHANGED <<http, newcomer>>,
         http[c] = "upgraded", posted' \in [Connection -> Seq(Nat)],
         NEW w \in Socket, NEW a \in Seq(Nat), NEW d \in Seq(Nat),
         ws' = [ws EXCEPT ![c] = w], accepted' = [accepted EXCEPT ![c] = a],
         delivered' = [delivered EXCEPT ![c] = d], lost' = lost \/ lost' = lost \cup {c},
         Clean(w, a, d, c \in lost'), Attended(w), w.stage # "none",
         \A e \in Connection \ {c} : posted[e] = <<>> => posted'[e] = <<>>
  PROVE  ConnectionInv'
<1>1. ConnectionTypes'
  BY DEF ConnectionInv, ConnectionTypes
<1>2. ASSUME NEW e \in Connection PROVE WsInv(e)'
  <2>1. CASE e = c
    <3>1. ws'[e] = w /\ accepted'[e] = a /\ delivered'[e] = d
      BY <2>1 DEF ConnectionInv, ConnectionTypes
    <3>. QED
      BY <2>1, <3>1 DEF WsInv
  <2>2. CASE e # c
    <3>1. /\ ws'[e] = ws[e] /\ accepted'[e] = accepted[e] /\ delivered'[e] = delivered[e]
          /\ e \in lost' <=> e \in lost
      BY <2>2 DEF ConnectionInv, ConnectionTypes
    <3>2. WsInv(e)
      BY DEF ConnectionInv
    <3>. QED
      BY <2>2, <3>1, <3>2 DEF WsInv
  <2>. QED
    BY <2>1, <2>2
<1>. QED
  BY <1>1, <1>2 DEF ConnectionInv

\* The number of the next packet is a natural number.
LEMMA NextPacket ==
  ASSUME ConnectionTypes, NEW c \in Connection
  PROVE  Next_(c) \in Nat
<1>1. accepted[c] \in Seq(Nat) /\ posted[c] \in Seq(Nat)
  BY DEF ConnectionTypes
<1>2. IsFiniteSet(1 .. Len(posted[c])) /\ DOMAIN posted[c] = 1 .. Len(posted[c])
  BY <1>1, FS_Interval
<1>. DEFINE P == {i \in DOMAIN posted[c] : posted[c][i] # 0}
<1>3. Cardinality(P) \in Nat
  <2>1. P \subseteq 1 .. Len(posted[c])
    BY <1>2
  <2>2. IsFiniteSet(P)
    BY <1>2, <2>1, FS_Subset
  <2>. QED
    BY <2>2, FS_CardinalityType
<1>4. Len(accepted[c]) \in Nat
  BY <1>1
<1>. QED
  BY <1>3, <1>4 DEF Next_

\* An upgraded connection starts with a new socket, in its handshake.
LEMMA UpgradeStep ==
  ASSUME ConnectionInv, NEW c \in Connection, http[c] = "reading", Upgrade(c),
         newcomer' = newcomer
  PROVE  ConnectionInv'
<1>1. NoSocket \in Socket
  BY DEF NoSocket, Socket
<1>2. PICK n : n = NoSocket
  OBVIOUS
<1>3. PICK w : w = [n EXCEPT !.stage = "accepting"]
  OBVIOUS
<1>4. /\ w \in Socket /\ w.stage = "accepting" /\ ~w.m_stopping
      /\ w.m_send_buffer = <<>> /\ w.closing = "no"
      /\ NoSocket.m_send_buffer = <<>>
  <2>1. n \in Socket /\ ~n.m_stopping /\ n.m_send_buffer = <<>> /\ n.closing = "no"
    BY <1>1, <1>2 DEF NoSocket
  <2>. QED
    BY <1>2, <1>3, <2>1 DEF Socket
<1>5. /\ http' = [http EXCEPT ![c] = "upgraded"] /\ ws' = [ws EXCEPT ![c] = w]
      /\ UNCHANGED <<posted, accepted, delivered, lost>>
  BY <1>2, <1>3 DEF Upgrade
<1>6. ConnectionTypes'
  BY <1>4, <1>5 DEF ConnectionInv, ConnectionTypes, HttpState
<1>7. ASSUME NEW e \in Connection PROVE WsInv(e)'
  <2>1. WsInv(e)
    BY DEF ConnectionInv
  <2>2. CASE e = c
    <3>1. ws'[e] = w /\ http'[e] = "upgraded"
      BY <1>5, <2>2 DEF ConnectionInv, ConnectionTypes
    <3>2. Clean(NoSocket, accepted[e], delivered[e], e \in lost)
      BY <2>1, <2>2 DEF WsInv
    <3>. QED
      BY <1>4, <1>5, <3>1, <3>2 DEF WsInv, Clean, Attended
  <2>3. CASE e # c
    BY <1>5, <2>1, <2>3 DEF WsInv, ConnectionInv, ConnectionTypes
  <2>. QED
    BY <2>2, <2>3
<1>. QED
  BY <1>6, <1>7 DEF ConnectionInv

\* Running a posted function on the strand keeps the invariant of every socket.
LEMMA RunStep ==
  ASSUME ConnectionInv, NEW c \in Connection, Run(c)
  PROVE  ConnectionInv'
<1>1. WsInv(c) /\ ConnectionTypes
  BY DEF ConnectionInv
<1>2. PICK w, a, d, p : w = ws[c] /\ a = accepted[c] /\ d = delivered[c] /\ p = Head(posted[c])
  OBVIOUS
<1>3. PICK l : l = (c \in lost)
  OBVIOUS
<1>4. /\ w \in Socket /\ a \in Seq(Nat) /\ d \in Seq(Nat) /\ p \in Nat
      /\ posted' = [posted EXCEPT ![c] = Tail(posted[c])] /\ Tail(posted[c]) \in Seq(Nat)
      /\ UNCHANGED <<http, newcomer, delivered, lost>>
  BY <1>1, <1>2, PacketsHead DEF ConnectionTypes, Run, listenerVars, httpVars
<1>5. http[c] = "upgraded"
  BY <1>1 DEF WsInv, Run
<1>6. posted' \in [Connection -> Seq(Nat)] /\ delivered' = [delivered EXCEPT ![c] = d]
  BY <1>1, <1>2, <1>4 DEF ConnectionTypes
<1>7. Clean(w, a, d, l) /\ Attended(w) /\ w.stage # "none"
  BY <1>1, <1>2, <1>3, <1>5 DEF WsInv
<1>8. \A e \in Connection \ {c} : posted[e] = <<>> => posted'[e] = <<>>
  BY <1>1, <1>4 DEF ConnectionTypes
<1>9. CASE p = 0
  <2>1. PICK x : x = Closing(w)
    OBVIOUS
  <2>2. Clean(x, a, d, l) /\ x.m_stopping /\ x.stage = w.stage
    BY <1>7, <2>1, ClosingClean
  <2>3. ws' = [ws EXCEPT ![c] = x] /\ accepted' = [accepted EXCEPT ![c] = a]
    BY <1>1, <1>2, <1>9, <2>1 DEF Run, ConnectionTypes
  <2>4. x \in Socket /\ Attended(x)
    BY <2>2 DEF Clean, Attended
  <2>. QED
    BY <1>3, <1>4, <1>5, <1>6, <1>7, <1>8, <2>2, <2>3, <2>4, SocketStep
<1>10. CASE p # 0
  <2>1. PICK x, b : x = Sending(w, p) /\ b = IF w.m_stopping THEN a ELSE Append(a, p)
    OBVIOUS
  <2>2. Clean(x, b, d, l) /\ x.m_stopping = w.m_stopping /\ x.stage = w.stage
        /\ x.reading = w.reading
    BY <1>4, <1>7, <2>1, SendingClean
  <2>3. ws' = [ws EXCEPT ![c] = x] /\ accepted' = [accepted EXCEPT ![c] = b]
    BY <1>1, <1>2, <1>10, <2>1 DEF Run, Sent, ConnectionTypes
  <2>4. x \in Socket /\ b \in Seq(Nat) /\ Attended(x)
    BY <1>7, <2>2 DEF Clean, Attended
  <2>. QED
    BY <1>3, <1>4, <1>5, <1>6, <1>7, <1>8, <2>2, <2>3, <2>4, SocketStep
<1>. QED
  BY <1>9, <1>10

\* A socket that is upgraded is one whose stage says so.
LEMMA StagedUpgraded ==
  ASSUME ConnectionInv, NEW c \in Connection,
         \/ ws[c].stage # "none" \/ ws[c].reading \/ ws[c].m_send_buffer # <<>>
         \/ ws[c].closing # "no"
  PROVE  http[c] = "upgraded"
<1>1. NoSocket.stage = "none" /\ ~NoSocket.reading /\ NoSocket.m_send_buffer = <<>>
      /\ NoSocket.closing = "no"
  BY DEF NoSocket
<1>. QED
  BY <1>1 DEF ConnectionInv, WsInv

\* The end of the handshake, good or bad, keeps the invariant.
LEMMA OnWsAcceptStep ==
  ASSUME ConnectionInv, NEW c \in Connection, OnWsAccept(c)
  PROVE  ConnectionInv'
<1>1. WsInv(c) /\ ConnectionTypes
  BY DEF ConnectionInv
<1>2. PICK w, a, d, l : w = ws[c] /\ a = accepted[c] /\ d = delivered[c] /\ l = (c \in lost)
  OBVIOUS
<1>3. /\ UNCHANGED <<http, newcomer, posted, accepted, delivered, lost>>
      /\ accepted' = [accepted EXCEPT ![c] = a] /\ delivered' = [delivered EXCEPT ![c] = d]
      /\ w \in Socket /\ a \in Seq(Nat) /\ d \in Seq(Nat) /\ Clean(w, a, d, l)
      /\ posted' \in [Connection -> Seq(Nat)]
  BY <1>1, <1>2 DEF OnWsAccept, listenerVars, httpVars, ConnectionTypes, WsInv
<1>4. http[c] = "upgraded"
  BY StagedUpgraded DEF OnWsAccept
<1>5. PICK o : o = [w EXCEPT !.stage = "open"]
  OBVIOUS
<1>6. PICK r \in BOOLEAN : r <=> ~w.m_stopping
  OBVIOUS
<1>7. PICK q : q = [o EXCEPT !.reading = r]
  OBVIOUS
<1>8. /\ o \in Socket /\ o.stage = "open" /\ o.m_stopping = w.m_stopping
      /\ o.m_send_buffer = w.m_send_buffer /\ o.closing = w.closing
  BY <1>3, <1>5 DEF Socket
<1>9. /\ q \in Socket /\ q.stage = "open" /\ q.m_stopping = w.m_stopping
      /\ q.m_send_buffer = w.m_send_buffer /\ q.closing = w.closing /\ q.reading = r
  BY <1>7, <1>8 DEF Socket
<1>10. Clean(q, a, d, l) /\ Clean(o, a, d, l)
  BY <1>3, <1>8, <1>9 DEF Clean
<1>11. PICK x : x = Closing(o)
  OBVIOUS
<1>12. Clean(x, a, d, l) /\ x.m_stopping /\ x.stage = "open"
  BY <1>8, <1>10, <1>11, ClosingClean
<1>13. ws' = [ws EXCEPT ![c] = q] \/ ws' = [ws EXCEPT ![c] = x]
  <2>1. r = ~w.m_stopping
    BY <1>3, <1>6 DEF Socket
  <2>. QED
    BY <1>2, <1>5, <1>7, <1>11, <2>1 DEF OnWsAccept
<1>14. PICK y \in {q, x} : ws' = [ws EXCEPT ![c] = y]
  BY <1>13
<1>15. Clean(y, a, d, l) /\ Attended(y) /\ y.stage # "none" /\ y \in Socket
  BY <1>6, <1>9, <1>10, <1>12, <1>14 DEF Attended, Clean
<1>. QED
  BY <1>2, <1>3, <1>4, <1>14, <1>15, SocketStep

\* A finished read, good or bad, keeps the invariant.
LEMMA OnWsReadStep ==
  ASSUME ConnectionInv, NEW c \in Connection, OnWsRead(c)
  PROVE  ConnectionInv'
<1>1. WsInv(c) /\ ConnectionTypes
  BY DEF ConnectionInv
<1>2. PICK w, a, d, l : w = ws[c] /\ a = accepted[c] /\ d = delivered[c] /\ l = (c \in lost)
  OBVIOUS
<1>3. /\ UNCHANGED <<http, newcomer, posted, delivered, lost>>
      /\ delivered' = [delivered EXCEPT ![c] = d]
      /\ w \in Socket /\ a \in Seq(Nat) /\ d \in Seq(Nat) /\ Clean(w, a, d, l) /\ Attended(w)
      /\ posted' \in [Connection -> Seq(Nat)]
  BY <1>1, <1>2 DEF OnWsRead, listenerVars, httpVars, ConnectionTypes, WsInv
<1>4. http[c] = "upgraded" /\ w.stage # "none"
  BY <1>1, <1>2, StagedUpgraded DEF OnWsRead, WsInv
<1>5. PICK i : i = [w EXCEPT !.reading = FALSE]
  OBVIOUS
<1>6. /\ i \in Socket /\ i.stage = w.stage /\ i.m_stopping = w.m_stopping
      /\ i.m_send_buffer = w.m_send_buffer /\ i.closing = w.closing
  BY <1>3, <1>5 DEF Socket
<1>7. Clean(i, a, d, l)
  BY <1>3, <1>6 DEF Clean
<1>8. PICK p : p = Next_(c)
  OBVIOUS
<1>9. p \in Nat
  BY <1>1, <1>8, NextPacket
<1>10. PICK x, y, z, b : /\ x = Closing(i)
                         /\ y = Closing(Sending(i, p))
                         /\ z = Sending(w, p)
                         /\ b = Append(a, p)
  OBVIOUS
<1>11. Clean(x, a, d, l) /\ x.m_stopping /\ x.stage = w.stage
  BY <1>6, <1>7, <1>10, ClosingClean
<1>12. ASSUME ~w.m_stopping
       PROVE  /\ Clean(y, b, d, l) /\ y.m_stopping /\ y.stage = w.stage
              /\ Clean(z, b, d, l) /\ Attended(z) /\ z.stage = w.stage
  <2>1. PICK s : s = Sending(i, p)
    OBVIOUS
  <2>2. Clean(s, b, d, l) /\ s.stage = w.stage
    BY <1>6, <1>7, <1>9, <1>10, <1>12, <2>1, SendingClean
  <2>3. Clean(y, b, d, l) /\ y.m_stopping /\ y.stage = w.stage
    BY <1>10, <2>1, <2>2, ClosingClean
  <2>4. /\ Clean(z, b, d, l) /\ z.stage = w.stage
        /\ z.reading = w.reading /\ z.m_stopping = w.m_stopping
    BY <1>3, <1>9, <1>10, <1>12, SendingClean
  <2>. QED
    BY <1>3, <2>3, <2>4 DEF Attended
<1>13. \/ ws' = [ws EXCEPT ![c] = x] /\ accepted' = accepted
       \/ ws' = [ws EXCEPT ![c] = i] /\ accepted' = accepted /\ w.m_stopping
       \/ /\ ws' = [ws EXCEPT ![c] = y] \/ ws' = [ws EXCEPT ![c] = z]
          /\ accepted' = [accepted EXCEPT ![c] = b] /\ ~w.m_stopping
  BY <1>2, <1>5, <1>8, <1>10 DEF OnWsRead, Sent
<1>14. accepted' = accepted => accepted' = [accepted EXCEPT ![c] = a]
  BY <1>1, <1>2 DEF ConnectionTypes
<1>15. PICK g, h : /\ ws' = [ws EXCEPT ![c] = g] /\ accepted' = [accepted EXCEPT ![c] = h]
                   /\ \/ g \in {x, i} /\ h = a /\ (g = i => w.m_stopping)
                      \/ g \in {y, z} /\ h = b /\ ~w.m_stopping
  <2>1. CASE ws' = [ws EXCEPT ![c] = x] /\ accepted' = accepted
    BY <1>14, <2>1, <1>10, <1>6, <1>11
  <2>2. CASE ws' = [ws EXCEPT ![c] = i] /\ accepted' = accepted /\ w.m_stopping
    BY <1>14, <2>2
  <2>3. CASE /\ ws' = [ws EXCEPT ![c] = y] \/ ws' = [ws EXCEPT ![c] = z]
             /\ accepted' = [accepted EXCEPT ![c] = b] /\ ~w.m_stopping
    BY <2>3
  <2>. QED
    BY <1>13, <2>1, <2>2, <2>3
<1>16. Clean(g, h, d, l) /\ Attended(g) /\ g.stage # "none" /\ g \in Socket /\ h \in Seq(Nat)
  BY <1>4, <1>6, <1>7, <1>11, <1>12, <1>15 DEF Attended, Clean
<1>. QED
  BY <1>2, <1>3, <1>4, <1>15, <1>16, SocketStep

\* A finished write, which starts the next one or the close, keeps the invariant.
LEMMA OnSendStep ==
  ASSUME ConnectionInv, NEW c \in Connection, OnSend(c)
  PROVE  ConnectionInv'
<1>1. WsInv(c) /\ ConnectionTypes
  BY DEF ConnectionInv
<1>2. PICK w, a, d, l : w = ws[c] /\ a = accepted[c] /\ d = delivered[c] /\ l = (c \in lost)
  OBVIOUS
<1>3. /\ UNCHANGED <<http, newcomer, posted, accepted>>
      /\ accepted' = [accepted EXCEPT ![c] = a]
      /\ w \in Socket /\ a \in Seq(Nat) /\ d \in Seq(Nat) /\ Clean(w, a, d, l) /\ Attended(w)
      /\ posted' \in [Connection -> Seq(Nat)] /\ w.m_send_buffer # <<>>
  BY <1>1, <1>2 DEF OnSend, listenerVars, httpVars, ConnectionTypes, WsInv
<1>4. http[c] = "upgraded" /\ w.stage # "none"
  BY <1>1, <1>2, StagedUpgraded DEF OnSend, WsInv
<1>5. CASE /\ ws' = [ws EXCEPT ![c].m_send_buffer = Tail(@),
                               ![c].closing = IF ws[c].m_stopping /\ Len(ws[c].m_send_buffer) = 1
                                              THEN "close" ELSE @]
           /\ delivered' = [delivered EXCEPT ![c] = Append(@, Head(ws[c].m_send_buffer))]
           /\ lost' = lost
  <2>1. PICK x : x = IF w.m_stopping /\ Len(w.m_send_buffer) = 1 THEN "close" ELSE w.closing
    OBVIOUS
  <2>2. PICK y, t, e : /\ y = [w EXCEPT !.m_send_buffer = t, !.closing = x]
                       /\ t = Tail(w.m_send_buffer)
                       /\ e = Append(d, Head(w.m_send_buffer))
    OBVIOUS
  <2>3. /\ Clean(y, a, e, l) /\ y.m_stopping = w.m_stopping
        /\ y.stage = w.stage /\ y.reading = w.reading
    <3>1. t \in Seq(Nat) /\ x \in {"no", "close", "shutdown", "done"}
      BY <1>3, <2>1, <2>2, PacketsHead DEF Socket
    <3>2. /\ y \in Socket /\ y.m_send_buffer = t /\ y.closing = x
          /\ y.m_stopping = w.m_stopping /\ y.stage = w.stage /\ y.reading = w.reading
      BY <1>3, <2>2, <3>1 DEF Socket
    <3>. QED
      BY <1>3, <2>1, <2>2, <3>2, SentClean
  <2>4. y \in Socket /\ e \in Seq(Nat) /\ Attended(y)
    BY <1>3, <2>3 DEF Clean, Attended
  <2>5. ws' = [ws EXCEPT ![c] = y] /\ delivered' = [delivered EXCEPT ![c] = e]
    BY <1>1, <1>2, <1>3, <1>5, <2>1, <2>2 DEF ConnectionTypes, Socket
  <2>. QED
    BY <1>2, <1>3, <1>4, <1>5, <2>3, <2>4, <2>5, SocketStep
<1>6. CASE /\ ws' = [ws EXCEPT ![c] = Closing([@ EXCEPT !.m_send_buffer = <<>>])]
           /\ lost' = lost \cup {c}
           /\ delivered' = delivered
  <2>1. PICK x : x = [w EXCEPT !.m_send_buffer = <<>>]
    OBVIOUS
  <2>2. /\ x \in Socket /\ x.m_send_buffer = <<>> /\ x.stage = w.stage
        /\ x.m_stopping = w.m_stopping /\ x.closing = w.closing
    <3>1. <<>> \in Seq(Nat)
      OBVIOUS
    <3>2. PICK n : n = <<>>
      OBVIOUS
    <3>. QED
      BY <1>3, <2>1, <3>1, <3>2 DEF Socket
  <2>3. Clean(x, a, d, TRUE)
    BY <1>3, <2>2 DEF Clean
  <2>4. PICK y : y = Closing(x)
    OBVIOUS
  <2>5. Clean(y, a, d, TRUE) /\ y.m_stopping /\ y.stage = w.stage
    BY <2>2, <2>3, <2>4, ClosingClean
  <2>6. Clean(y, a, d, c \in lost') /\ Attended(y) /\ y \in Socket
    BY <1>6, <2>5 DEF Clean, Attended
  <2>7. ws' = [ws EXCEPT ![c] = y] /\ delivered' = [delivered EXCEPT ![c] = d]
    BY <1>1, <1>2, <1>6, <2>1, <2>4 DEF ConnectionTypes
  <2>. QED
    BY <1>2, <1>3, <1>4, <1>6, <2>5, <2>6, <2>7, SocketStep
<1>. QED
  BY <1>5, <1>6 DEF OnSend

\* A finished close keeps the invariant.
LEMMA OnClosedStep ==
  ASSUME ConnectionInv, NEW c \in Connection, OnClosed(c)
  PROVE  ConnectionInv'
<1>1. WsInv(c) /\ ConnectionTypes
  BY DEF ConnectionInv
<1>2. PICK w, a, d, l : w = ws[c] /\ a = accepted[c] /\ d = delivered[c] /\ l = (c \in lost)
  OBVIOUS
<1>3. /\ UNCHANGED <<http, newcomer, posted, accepted, delivered, lost>>
      /\ accepted' = [accepted EXCEPT ![c] = a] /\ delivered' = [delivered EXCEPT ![c] = d]
      /\ w \in Socket /\ a \in Seq(Nat) /\ d \in Seq(Nat) /\ Clean(w, a, d, l) /\ Attended(w)
      /\ posted' \in [Connection -> Seq(Nat)] /\ w.closing \in {"close", "shutdown"}
  BY <1>1, <1>2 DEF OnClosed, listenerVars, httpVars, ConnectionTypes, WsInv
<1>4. http[c] = "upgraded" /\ w.stage # "none"
  BY <1>1, <1>2, <1>3, StagedUpgraded DEF WsInv
<1>5. PICK x : x = IF w.closing = "close" THEN "shutdown" ELSE "done"
  OBVIOUS
<1>6. PICK y : y = [w EXCEPT !.closing = x]
  OBVIOUS
<1>7. /\ y \in Socket /\ y.closing # "no" /\ y.stage = w.stage /\ y.reading = w.reading
      /\ y.m_stopping = w.m_stopping /\ y.m_send_buffer = w.m_send_buffer
  BY <1>3, <1>5, <1>6 DEF Socket
<1>8. ws' = [ws EXCEPT ![c] = y]
  BY <1>1, <1>2, <1>3, <1>5, <1>6 DEF OnClosed, ConnectionTypes
<1>9. Clean(y, a, d, l) /\ Attended(y)
  BY <1>3, <1>7 DEF Clean, Attended
<1>. QED
  BY <1>2, <1>3, <1>4, <1>7, <1>8, <1>9, SocketStep

\* Other threads post to the strand of a websocket that is there.
LEMMA PostStep ==
  ASSUME ConnectionInv, UNCHANGED <<http, newcomer, ws, accepted, delivered, lost>>,
         posted' \in [Connection -> Seq(Nat)],
         \A c \in Connection : posted'[c] = posted[c] \/ Alive(c)
  PROVE  ConnectionInv'
<1>1. ASSUME NEW c \in Connection, http[c] # "upgraded" PROVE ~Alive(c)
  BY <1>1 DEF Alive, Outstanding, ConnectionInv, WsInv, NoSocket
<1>2. \A c \in Connection : WsInv(c)'
  BY <1>1 DEF ConnectionInv, WsInv
<1>. QED
  BY <1>2 DEF ConnectionInv, ConnectionTypes

\* Every step of the server keeps the invariant, one step of the proof per action.
LEMMA ConnectionStep ==
  ASSUME ConnectionInv, ConnectionsNext
  PROVE  ConnectionInv'
<1>1. CASE OnAccept \/ DoAccept \/ AsyncAccept \/ Stop \/ CloseAcceptor \/ Join
  <2>1. CASE OnAccept
    <3>1. /\ http' = [c \in Connection |-> IF c \in newcomer THEN "handshake" ELSE http[c]]
          /\ newcomer' = {} /\ UNCHANGED wsVars
      BY <2>1 DEF OnAccept
    <3>2. \A c \in Connection : http'[c] = "upgraded" <=> http[c] = "upgraded"
      BY <3>1 DEF ConnectionInv, ConnectionTypes
    <3>3. http' \in [Connection -> HttpState]
      BY <3>1 DEF ConnectionInv, ConnectionTypes, HttpState
    <3>. QED
      BY <3>1, <3>2, <3>3, HttpStep
  <2>2. CASE newcomer' = newcomer /\ UNCHANGED httpVars /\ UNCHANGED wsVars
    <3>1. http' = http /\ newcomer' = newcomer /\ UNCHANGED wsVars
      BY <2>2 DEF httpVars
    <3>2. http' \in [Connection -> HttpState] /\ \A c \in newcomer' : http'[c] = "none"
      BY <3>1 DEF ConnectionInv, ConnectionTypes
    <3>. QED
      BY <3>1, <3>2, HttpStep
  <2>3. ASSUME DoAccept \/ AsyncAccept \/ Stop \/ CloseAcceptor \/ Join
        PROVE  newcomer' = newcomer /\ UNCHANGED httpVars /\ UNCHANGED wsVars
    BY <2>3 DEF DoAccept, AsyncAccept, Stop, CloseAcceptor, Join, listenerVars
  <2>. QED
    BY <1>1, <2>1, <2>2, <2>3
<1>2. ASSUME NEW c \in Connection,
             Arrives(c) \/ OnHandshake(c) \/ ReadEnds(c) \/ Done(c) \/ OnHttpShutdown(c)
      PROVE  ConnectionInv'
  <2>1. http \in [Connection -> HttpState] /\ \A e \in newcomer : http[e] = "none"
    BY DEF ConnectionInv, ConnectionTypes
  <2>2. CASE Arrives(c)
    <3>1. http' = http /\ newcomer' = {c} /\ http[c] = "none" /\ UNCHANGED wsVars
      BY <2>2 DEF Arrives, httpVars
    <3>. QED
      BY <2>1, <3>1, HttpStep
  <2>3. ASSUME NEW x \in HttpState, x # "upgraded", http' = [http EXCEPT ![c] = x],
               http[c] # "upgraded", http[c] # "none", newcomer' = newcomer, UNCHANGED wsVars
        PROVE  ConnectionInv'
    <3>1. http' \in [Connection -> HttpState]
      BY <2>1, <2>3
    <3>2. \A e \in Connection : http'[e] = "upgraded" <=> http[e] = "upgraded"
      BY <2>1, <2>3
    <3>3. \A e \in newcomer' : http'[e] = "none"
      BY <2>1, <2>3
    <3>. QED
      BY <2>3, <3>1, <3>2, <3>3, HttpStep
  <2>4. CASE OnHandshake(c)
    BY <2>3, <2>4 DEF OnHandshake, listenerVars, HttpState
  <2>5. CASE ReadEnds(c)
    BY <2>3, <2>5 DEF ReadEnds, listenerVars, HttpState
  <2>6. CASE Done(c)
    <3>1. PICK x \in {"closing", "reading"} : http' = [http EXCEPT ![c] = x]
      BY <2>6 DEF Done
    <3>. QED
      BY <2>3, <2>6, <3>1 DEF Done, listenerVars, HttpState
  <2>7. CASE OnHttpShutdown(c)
    BY <2>3, <2>7 DEF OnHttpShutdown, listenerVars, HttpState
  <2>. QED
    BY <1>2, <2>2, <2>4, <2>5, <2>6, <2>7
<1>3. ASSUME NEW c \in Connection, OnRead(c) PROVE ConnectionInv'
  <2>1. http[c] = "reading" /\ newcomer' = newcomer
    BY <1>3 DEF OnRead, listenerVars
  <2>2. Upgrade(c) \/ \E close : Respond(c, close)
    BY <1>3 DEF OnRead
  <2>3. ASSUME NEW close, Respond(c, close) PROVE ConnectionInv'
    BY <2>1, <2>3, HttpStep DEF Respond, ConnectionInv, ConnectionTypes, HttpState
  <2>. QED
    BY <2>1, <2>2, <2>3, UpgradeStep
<1>4. ASSUME NEW c \in Connection, SendLater(c) PROVE ConnectionInv'
  <2>1. PICK p : p = Next_(c)
    OBVIOUS
  <2>2. p \in Nat /\ posted' = [posted EXCEPT ![c] = Append(posted[c], p)]
    BY <1>4, <2>1, NextPacket DEF SendLater, ConnectionInv
  <2>3. Append(posted[c], p) \in Seq(Nat)
    BY <2>2, PacketsAppend DEF ConnectionInv, ConnectionTypes
  <2>. QED
    BY <1>4, <2>2, <2>3, PostStep
       DEF SendLater, listenerVars, httpVars, ConnectionInv, ConnectionTypes
<1>5. CASE Shutdown
  <2>1. \A c \in Connection : Append(posted[c], 0) \in Seq(Nat)
    BY PacketsAppend DEF ConnectionInv, ConnectionTypes
  <2>2. posted' \in [Connection -> Seq(Nat)]
    BY <1>5, <2>1 DEF Shutdown, ConnectionInv, ConnectionTypes
  <2>3. \A c \in Connection : posted'[c] = posted[c] \/ Alive(c)
    BY <1>5 DEF Shutdown
  <2>. QED
    BY <1>5, <2>2, <2>3, PostStep DEF Shutdown, listenerVars, httpVars
<1>. QED
  BY <1>1, <1>2, <1>3, <1>4, <1>5, RunStep, OnWsAcceptStep, OnWsReadStep, OnSendStep, OnClosedStep
     DEF ConnectionsNext

\* The web server keeps the invariant of its connections, in either part.
THEOREM ConnectionInvariant == Spec => []ConnectionInv
<1>1. Init => ConnectionInv
  <2>. SUFFICES ASSUME Init PROVE ConnectionInv
    OBVIOUS
  <2>1. PICK e : e = <<>>
    OBVIOUS
  <2>2. e \in Seq(Nat) /\ e \o e = e
    BY <2>1
  <2>3. NoSocket = [stage |-> "none", reading |-> FALSE, m_send_buffer |-> e,
                    m_stopping |-> FALSE, closing |-> "no"]
    BY <2>1 DEF NoSocket
  <2>4. NoSocket \in Socket
    BY <2>2, <2>3 DEF Socket
  <2>5. \A c \in Connection :
          /\ ws[c] = NoSocket /\ posted[c] = e /\ accepted[c] = e /\ delivered[c] = e
          /\ c \notin lost /\ http[c] = "none"
    BY <2>1 DEF Init, ConnectionsInit
  <2>6. ConnectionTypes
    BY <2>1, <2>2, <2>4 DEF Init, ConnectionsInit, ConnectionTypes, HttpState
  <2>7. NoSocket.m_send_buffer = e /\ NoSocket.closing = "no" /\ ~NoSocket.m_stopping
        /\ NoSocket.stage = "none"
    BY <2>3
  <2>8. ASSUME NEW c \in Connection PROVE WsInv(c)
    <3>1. Clean(NoSocket, e, e, c \in lost)
      BY <2>2, <2>4, <2>5, <2>7 DEF Clean
    <3>. QED
      BY <2>1, <2>5, <2>7, <3>1 DEF WsInv, Attended
  <2>. QED
    BY <2>6, <2>8 DEF ConnectionInv
<1>2. ConnectionInv /\ [Next]_serverVars => ConnectionInv'
  <2>1. ASSUME ConnectionInv, UNCHANGED connectionVars PROVE ConnectionInv'
    BY <2>1 DEF connectionVars, listenerVars, httpVars, wsVars, ConnectionInv, ConnectionTypes, WsInv
  <2>. QED
    BY <2>1, ConnectionStep DEF Next, serverVars
<1>. QED
  BY <1>1, <1>2, PTL DEF Spec

\* A websocket is closed once, after all it accepted was sent and in that order,
\* and one with nothing outstanding was closed: an open websocket that is not
\* stopping reads, so something holds on to it.
THEOREM ClosedClean == Spec => []ClosesClean
<1>1. ConnectionInv => ClosesClean
  <2>. SUFFICES ASSUME ConnectionInv PROVE ClosesClean
    OBVIOUS
  <2>1. Drained
    <3>. SUFFICES ASSUME NEW c \in Connection, c \notin lost
                  PROVE  /\ delivered[c] \o ws[c].m_send_buffer = accepted[c]
                         /\ ws[c].closing # "no" => delivered[c] = accepted[c]
      BY DEF Drained
    <3>1. PICK w, d, a : w = ws[c] /\ d = delivered[c] /\ a = accepted[c]
      OBVIOUS
    <3>2. Clean(w, a, d, FALSE)
      BY <3>1 DEF ConnectionInv, WsInv, Clean
    <3>3. d \o <<>> = d
      BY <3>2, ConcatEmptySeq DEF Clean
    <3>. QED
      BY <3>1, <3>2, <3>3 DEF Clean
  <2>2. NeverAbandoned
    BY DEF NeverAbandoned, ConnectionInv, ConnectionTypes, WsInv, Clean, Attended, Socket, Alive, Outstanding
  <2>. QED
    BY <2>1, <2>2 DEF ClosesClean
<1>. QED
  BY <1>1, ConnectionInvariant, PTL

-----------------------------------------------------------------------------
(* What the destructor waits for.                                          *)

\* Once the acceptor is closed nobody waits for a connection; and until
\* shutdown() every websocket with something outstanding is remembered.
ReachInv ==
  /\ main \in {"closed", "down", "joined"} => closed
  /\ closed => listening # "waiting"
  /\ main \in {"running", "stopping", "closed"} =>
       \A c \in Connection : http[c] = "upgraded" /\ Alive(c) => c \in m_connections

\* A step of websocket c that had something outstanding.
LEMMA ReachSocketStep ==
  ASSUME ReachInv, NEW c \in Connection, Alive(c),
         UNCHANGED <<listenerVars, main, httpVars, m_connections>>,
         \A e \in Connection \ {c} : ws'[e] = ws[e] /\ posted'[e] = posted[e]
  PROVE  ReachInv'
<1>1. \A e \in Connection : Alive(e)' => Alive(e)
  BY DEF Alive, Outstanding
<1>. QED
  BY <1>1 DEF ReachInv, listenerVars, httpVars

\* A step that upgrades no connection, and keeps the websockets as they are.
LEMMA ReachHttpStep ==
  ASSUME ReachInv, UNCHANGED wsVars,
         \A c \in Connection : http'[c] = "upgraded" => http[c] = "upgraded",
         main' \in {"closed", "down", "joined"} => closed',
         closed' => listening' # "waiting",
         main' \in {"running", "stopping", "closed"} => main \in {"running", "stopping", "closed"}
  PROVE  ReachInv'
<1>1. \A c \in Connection : Alive(c)' <=> Alive(c)
  BY DEF wsVars, Alive, Outstanding
<1>2. m_connections' = m_connections
  BY DEF wsVars
<1>. QED
  BY <1>1, <1>2 DEF ReachInv

\* Those that are alive stay known, and the new one is.
LEMMA ReachUpgrade ==
  ASSUME ConnectionInv, ReachInv, NEW c \in Connection, Upgrade(c), UNCHANGED <<listenerVars, main>>
  PROVE  ReachInv'
<1>1. ASSUME NEW e \in Connection, e # c, http'[e] = "upgraded", Alive(e)'
      PROVE  http[e] = "upgraded" /\ Alive(e)
  <2>1. http'[e] = http[e] /\ ws'[e] = ws[e] /\ posted'[e] = posted[e]
    BY <1>1 DEF Upgrade, ConnectionInv, ConnectionTypes
  <2>. QED
    BY <1>1, <2>1 DEF Alive, Outstanding
<1>. QED
  BY <1>1 DEF ReachInv, Upgrade, listenerVars

\* No step hides a connection from the shutdown that walks over them.
LEMMA ReachStep ==
  ASSUME ConnectionInv, ReachInv, ConnectionsNext
  PROVE  ReachInv'
<1>1. http \in [Connection -> HttpState] /\ ws \in [Connection -> Socket]
      /\ posted \in [Connection -> Seq(Nat)]
      /\ delivered \in [Connection -> Seq(Nat)] /\ accepted \in [Connection -> Seq(Nat)]
      /\ \A c \in newcomer : http[c] = "none"
  BY DEF ConnectionInv, ConnectionTypes
<1>2. CASE OnAccept
  <2>1. \A c \in Connection : http'[c] = "upgraded" => http[c] = "upgraded"
    BY <1>2 DEF OnAccept
  <2>. QED
    BY <1>2, <2>1, ReachHttpStep DEF OnAccept, ReachInv
<1>3. CASE DoAccept
  BY <1>3, ReachHttpStep DEF DoAccept, ReachInv, httpVars
<1>4. CASE AsyncAccept
  BY <1>4, ReachHttpStep DEF AsyncAccept, ReachInv, httpVars
<1>5. CASE Stop
  BY <1>5, ReachHttpStep DEF Stop, ReachInv, httpVars
<1>6. CASE CloseAcceptor
  BY <1>6, ReachHttpStep DEF CloseAcceptor, ReachInv, httpVars
<1>7. CASE Join
  BY <1>7, ReachHttpStep DEF Join, ReachInv, httpVars, listenerVars
<1>8. CASE Shutdown
  BY <1>8 DEF Shutdown, ReachInv, listenerVars
<1>9. ASSUME NEW c \in Connection, Arrives(c) PROVE ReachInv'
  BY <1>9, ReachHttpStep DEF Arrives, ReachInv, httpVars
<1>10. ASSUME NEW c \in Connection, NEW x \in HttpState, x # "upgraded",
              http' = [http EXCEPT ![c] = x], UNCHANGED <<listenerVars, main, wsVars>>
       PROVE  ReachInv'
  <2>1. \A e \in Connection : http'[e] = "upgraded" => http[e] = "upgraded"
    BY <1>1, <1>10
  <2>. QED
    BY <1>10, <2>1, ReachHttpStep DEF ReachInv, listenerVars
<1>11. ASSUME NEW c \in Connection, OnHandshake(c) \/ ReadEnds(c) \/ OnHttpShutdown(c)
       PROVE  ReachInv'
  BY <1>10, <1>11 DEF OnHandshake, ReadEnds, OnHttpShutdown, HttpState
<1>12. ASSUME NEW c \in Connection, Done(c) PROVE ReachInv'
  <2>1. PICK x \in {"closing", "reading"} : http' = [http EXCEPT ![c] = x]
    BY <1>12 DEF Done
  <2>. QED
    BY <1>10, <1>12, <2>1 DEF Done, HttpState
<1>13. ASSUME NEW c \in Connection, OnRead(c) PROVE ReachInv'
  <2>1. UNCHANGED <<listenerVars, main>> /\ (Upgrade(c) \/ \E close : Respond(c, close))
    BY <1>13 DEF OnRead
  <2>2. CASE \E close : Respond(c, close)
    BY <1>10, <2>1, <2>2 DEF Respond, HttpState
  <2>. QED
    BY <2>1, <2>2, ReachUpgrade
<1>14. ASSUME NEW c \in Connection, OnWsAccept(c) PROVE ReachInv'
  <2>1. \A e \in Connection \ {c} : ws'[e] = ws[e] /\ posted'[e] = posted[e]
    BY <1>1, <1>14 DEF OnWsAccept
  <2>. QED
    BY <1>14, <2>1, ReachSocketStep DEF OnWsAccept, Alive, Outstanding
<1>15. ASSUME NEW c \in Connection, OnWsRead(c) PROVE ReachInv'
  <2>1. \A e \in Connection \ {c} : ws'[e] = ws[e] /\ posted'[e] = posted[e]
    BY <1>1, <1>15 DEF OnWsRead
  <2>. QED
    BY <1>15, <2>1, ReachSocketStep DEF OnWsRead, Alive, Outstanding
<1>16. ASSUME NEW c \in Connection, OnSend(c) PROVE ReachInv'
  <2>1. \A e \in Connection \ {c} : ws'[e] = ws[e] /\ posted'[e] = posted[e]
    BY <1>1, <1>16 DEF OnSend
  <2>. QED
    BY <1>16, <2>1, ReachSocketStep DEF OnSend, Alive, Outstanding
<1>17. ASSUME NEW c \in Connection, OnClosed(c) PROVE ReachInv'
  <2>1. \A e \in Connection \ {c} : ws'[e] = ws[e] /\ posted'[e] = posted[e]
    BY <1>1, <1>17 DEF OnClosed
  <2>. QED
    BY <1>17, <2>1, ReachSocketStep DEF OnClosed, Alive, Outstanding
<1>18. ASSUME NEW c \in Connection, Run(c) PROVE ReachInv'
  <2>1. \A e \in Connection \ {c} : ws'[e] = ws[e] /\ posted'[e] = posted[e]
    BY <1>1, <1>18 DEF Run
  <2>. QED
    BY <1>18, <2>1, ReachSocketStep DEF Run, Alive
<1>19. ASSUME NEW c \in Connection, SendLater(c) PROVE ReachInv'
  <2>1. \A e \in Connection \ {c} : ws'[e] = ws[e] /\ posted'[e] = posted[e]
    BY <1>1, <1>19 DEF SendLater
  <2>. QED
    BY <1>19, <2>1, ReachSocketStep DEF SendLater
<1>. QED
  BY <1>2, <1>3, <1>4, <1>5, <1>6, <1>7, <1>8, <1>9, <1>11, <1>12, <1>13, <1>14, <1>15, <1>16,
     <1>17, <1>18, <1>19 DEF ConnectionsNext

\* The listener is told to stop in time, and shutdown() finds every websocket
\* that has something outstanding: what is forgotten never comes to life again.
THEOREM ShutdownFindsAll == Spec => []ShutdownReaches
<1>1. Init => ReachInv
  BY DEF Init, ConnectionsInit, ReachInv
<1>2. ConnectionInv /\ ReachInv /\ [Next]_serverVars => ReachInv'
  <2>1. ASSUME ReachInv, UNCHANGED connectionVars PROVE ReachInv'
    BY <2>1 DEF connectionVars, listenerVars, httpVars, wsVars, ReachInv, Alive, Outstanding
  <2>. QED
    BY <2>1, ReachStep DEF Next, serverVars
<1>3. ReachInv => ShutdownReaches
  BY DEF ReachInv, ShutdownReaches
<1>. QED
  BY <1>1, <1>2, <1>3, ConnectionInvariant, PTL DEF Spec

-----------------------------------------------------------------------------
(* Logging in.                                                             *)

\* What is left of a session and how long it was not used add up; that needs
\* the domains, too, because a session of a stale cookie is used no more.
SessionInv ==
  /\ DOMAIN m_sessions \subseteq Session
  /\ idle \in [Session -> 0..IdleTimeout]
  /\ \A s \in DOMAIN m_sessions : m_sessions[s] = IdleTimeout - idle[s]

\* A step that ends a session or none, and uses none.
LEMMA SessionEnds ==
  ASSUME SessionInv, NEW s,
         m_sessions' = m_sessions \/ m_sessions' = Without(m_sessions, s), UNCHANGED idle
  PROVE  SessionInv'
BY DEF SessionInv, Without

\* A step that makes or uses a session.
LEMMA SessionUsed ==
  ASSUME SessionInv, NEW s \in Session, idle' = [idle EXCEPT ![s] = 0],
         DOMAIN m_sessions' = DOMAIN m_sessions \cup {s}, m_sessions'[s] = IdleTimeout,
         \A r \in DOMAIN m_sessions \ {s} : m_sessions'[r] = m_sessions[r]
  PROVE  SessionInv'
<1>1. IdleTimeout \in Nat
  BY LoginAssumption
<1>2. idle' \in [Session -> 0..IdleTimeout] /\ idle'[s] = 0
      /\ \A r \in Session \ {s} : idle'[r] = idle[r]
  BY <1>1 DEF SessionInv
<1>3. ASSUME NEW r \in DOMAIN m_sessions' PROVE r \in Session /\ m_sessions'[r] = IdleTimeout - idle'[r]
  BY <1>1, <1>2, <1>3 DEF SessionInv
<1>. QED
  BY <1>2, <1>3 DEF SessionInv

\* Whatever the login code does, what is left of a session and its idle time add up.
LEMMA SessionStep ==
  ASSUME SessionInv, LoginNext
  PROVE  SessionInv'
<1>1. IdleTimeout \in Nat
  BY LoginAssumption
<1>2. ASSUME NEW b \in Browser, Attempt(b) \/ Record(b) \/ Destroy(b) \/ Logout(b)
      PROVE  SessionInv'
  BY <1>2, SessionEnds DEF Attempt, Record, Destroy, Logout
<1>3. ASSUME NEW b \in Browser, Create(b) PROVE SessionInv'
  <2>1. PICK s \in Session \ DOMAIN m_sessions :
          m_sessions' = With(m_sessions, s, IdleTimeout) /\ idle' = [idle EXCEPT ![s] = 0]
    BY <1>3 DEF Create
  <2>. QED
    BY <1>1, <2>1, SessionUsed DEF With
<1>4. ASSUME NEW b \in Browser, Authenticate(b) PROVE SessionInv'
  <2>1. CASE Accepted(cookie[b])
    <3>1. PICK s : s = cookie[b]
      OBVIOUS
    <3>2. /\ s \in DOMAIN m_sessions
          /\ m_sessions' = [m_sessions EXCEPT ![s] = IdleTimeout]
          /\ idle' = [idle EXCEPT ![s] = 0]
      BY <1>4, <2>1, <3>1 DEF Authenticate, Accepted
    <3>. QED
      BY <1>1, <3>2, SessionUsed DEF SessionInv
  <2>2. CASE ~Accepted(cookie[b])
    BY <1>4, <2>2, SessionEnds DEF Authenticate
  <2>. QED
    BY <2>1, <2>2
<1>5. CASE Tick
  <2>1. DOMAIN m_sessions' = DOMAIN m_sessions /\ DOMAIN m_sessions \subseteq Session
    BY <1>5 DEF Tick, SessionInv
  <2>2. ASSUME NEW s \in Session PROVE idle'[s] \in 0..IdleTimeout
    <3>1. idle'[s] = IF s \in DOMAIN m_sessions THEN More(idle[s], IdleTimeout) ELSE 0
      BY <1>5 DEF Tick
    <3>2. PICK i \in 0..IdleTimeout : i = idle[s]
      BY DEF SessionInv
    <3>3. More(i, IdleTimeout) \in 0..IdleTimeout /\ 0 \in 0..IdleTimeout
      BY <1>1, <3>2 DEF More
    <3>. QED
      BY <3>1, <3>2, <3>3
  <2>3. idle' = [s \in Session |-> idle'[s]]
    BY <1>5 DEF Tick
  <2>4. ASSUME NEW s \in DOMAIN m_sessions PROVE m_sessions'[s] = IdleTimeout - idle'[s]
    <3>1. /\ m_sessions'[s] = Less(m_sessions[s]) /\ idle'[s] = More(idle[s], IdleTimeout)
          /\ m_sessions[s] = IdleTimeout - idle[s] /\ idle[s] \in 0..IdleTimeout
      BY <1>5, <2>1 DEF Tick, SessionInv
    <3>2. PICK i \in 0..IdleTimeout : i = idle[s]
      BY <3>1
    <3>3. Less(IdleTimeout - i) = IdleTimeout - More(i, IdleTimeout)
      BY <1>1, <3>2 DEF Less, More
    <3>. QED
      BY <3>1, <3>2, <3>3
  <2>. QED
    BY <2>1, <2>2, <2>3, <2>4 DEF SessionInv
<1>. QED
  BY <1>2, <1>3, <1>4, <1>5 DEF LoginNext

\* A session is accepted as long as it was used within the idle timeout, and no
\* longer, whoever logs in or out and whenever the clock ticks in between.
THEOREM SessionsEnd == Spec => []SessionsIdleOut
<1>1. Init => SessionInv
  <2>1. IdleTimeout \in Nat
    BY LoginAssumption
  <2>2. 0 \in 0..IdleTimeout
    BY <2>1
  <2>3. DOMAIN <<>> = {}
    OBVIOUS
  <2>. QED
    BY <2>2, <2>3 DEF Init, LoginInit, SessionInv
<1>2. SessionInv /\ [Next]_serverVars => SessionInv'
  <2>1. ASSUME SessionInv, UNCHANGED loginVars PROVE SessionInv'
    BY <2>1 DEF loginVars, SessionInv
  <2>. QED
    BY <2>1, SessionStep DEF Next, serverVars
<1>3. SessionInv => SessionsIdleOut
  BY DEF SessionInv, SessionsIdleOut
<1>. QED
  BY <1>1, <1>2, <1>3, PTL DEF Spec

\* Neither of the two tables is larger than its limit.
Bounded(table) ==
  \A family : IsFiniteSet(Of(table, family)) /\ Cardinality(Of(table, family)) <= MaxEntries

TablesBounded == Bounded(m_table)

\* A table with fewer networks.
LEMMA FewerBounded ==
  ASSUME NEW t, Bounded(t), NEW u, DOMAIN u \subseteq DOMAIN t
  PROVE  Bounded(u)
<1>. SUFFICES ASSUME NEW family
              PROVE  IsFiniteSet(Of(u, family)) /\ Cardinality(Of(u, family)) <= MaxEntries
  BY DEF Bounded
<1>. DEFINE S == Of(t, family)
            T == Of(u, family)
<1>1. IsFiniteSet(S) /\ Cardinality(S) <= MaxEntries /\ T \subseteq S
  BY DEF Bounded, Of
<1>2. IsFiniteSet(T) /\ Cardinality(T) <= Cardinality(S)
        /\ Cardinality(S) \in Nat /\ Cardinality(T) \in Nat
  BY <1>1, FS_Subset, FS_CardinalityType
<1>3. MaxEntries \in Nat
  BY LoginAssumption
<1>. HIDE DEF S, T
<1>4. Cardinality(T) <= MaxEntries
  BY <1>1, <1>2, <1>3
<1>. QED
  BY <1>2, <1>4 DEF T

\* A network that is new to a table of its family that has room.
LEMMA OneMoreBounded ==
  ASSUME NEW t, Bounded(t), NEW n, NEW e,
         n \in DOMAIN t \/ Cardinality(Of(t, n.family)) < MaxEntries
  PROVE  Bounded(With(t, n, e))
<1>1. DOMAIN With(t, n, e) = DOMAIN t \cup {n}
  BY DEF With
<1>2. CASE n \in DOMAIN t
  BY <1>1, <1>2, FewerBounded
<1>3. CASE n \notin DOMAIN t /\ Cardinality(Of(t, n.family)) < MaxEntries
  <2>. SUFFICES ASSUME NEW family
                PROVE  /\ IsFiniteSet(Of(With(t, n, e), family))
                       /\ Cardinality(Of(With(t, n, e), family)) <= MaxEntries
    BY DEF Bounded
  <2>1. IsFiniteSet(Of(t, family)) /\ Cardinality(Of(t, family)) <= MaxEntries
    BY DEF Bounded
  <2>2. Of(With(t, n, e), family)
          = IF n.family = family THEN Of(t, family) \cup {n} ELSE Of(t, family)
    BY <1>1 DEF Of
  <2>3. n \notin Of(t, family)
    BY <1>3 DEF Of
  <2>4. /\ IsFiniteSet(Of(t, family) \cup {n})
        /\ Cardinality(Of(t, family) \cup {n}) = Cardinality(Of(t, family)) + 1
        /\ Cardinality(Of(t, family)) \in Nat
    BY <2>1, <2>3, FS_AddElement, FS_CardinalityType
  <2>5. MaxEntries \in Nat
    BY LoginAssumption
  <2>6. CASE n.family = family
    BY <1>3, <2>2, <2>4, <2>5, <2>6
  <2>7. CASE n.family # family
    BY <2>1, <2>2, <2>7
  <2>. QED
    BY <2>6, <2>7
<1>. QED
  BY <1>2, <1>3

\* A failure recorded for an address keeps each family of the table within its limit.
LEMMA FailureBounded ==
  ASSUME TablesBounded, NEW n, RecordFailure(n)
  PROVE  TablesBounded'
<1>. DEFINE full(t) == n \notin DOMAIN t /\ Cardinality(Of(t, n.family)) >= MaxEntries
            Recorded(t) == With(t, n, Failure(IF n \in DOMAIN t THEN t[n] ELSE NewEntry))
<1>1. PICK room : room = IF full(m_table) THEN Pruned(m_table, n.family) ELSE m_table
  OBVIOUS
<1>2. DOMAIN room \subseteq DOMAIN m_table
  BY <1>1 DEF Pruned
<1>3. Bounded(room)
  BY <1>2, FewerBounded DEF TablesBounded
<1>4. \/ ~full(room) /\ m_table' = Recorded(room)
      \/ m_table' = room
      \/ /\ full(room)
         /\ \E victim \in Of(room, n.family) : m_table' = Recorded(Without(room, victim))
  BY <1>1 DEF RecordFailure
<1>5. MaxEntries \in Nat /\ Cardinality(Of(room, n.family)) \in Nat
  BY <1>3, FS_CardinalityType, LoginAssumption DEF Bounded
<1>6. CASE ~full(room) /\ m_table' = Recorded(room)
  BY <1>3, <1>5, <1>6, OneMoreBounded DEF TablesBounded
<1>7. CASE m_table' = room
  BY <1>3, <1>7 DEF TablesBounded
<1>8. ASSUME full(room), NEW victim \in Of(room, n.family), m_table' = Recorded(Without(room, victim))
      PROVE  TablesBounded'
  <2>1. PICK t : t = Without(room, victim)
    OBVIOUS
  <2>2. DOMAIN t = DOMAIN room \ {victim}
    BY <2>1 DEF Without
  <2>3. Bounded(t)
    BY <1>3, <2>2, FewerBounded
  <2>4. Of(t, n.family) = Of(room, n.family) \ {victim}
    BY <2>2 DEF Of
  <2>5. IsFiniteSet(Of(room, n.family)) /\ Cardinality(Of(room, n.family)) <= MaxEntries
    BY <1>3 DEF Bounded
  <2>6. Cardinality(Of(t, n.family)) = Cardinality(Of(room, n.family)) - 1
    BY <1>8, <2>4, <2>5, FS_RemoveElement
  <2>7. Cardinality(Of(t, n.family)) < MaxEntries
    BY <1>5, <2>5, <2>6
  <2>. QED
    BY <1>8, <2>1, <2>3, <2>7, OneMoreBounded DEF TablesBounded
<1>. QED
  BY <1>4, <1>6, <1>7, <1>8

\* However many networks fail to log in, the throttler keeps no more of each
\* family than its limit: a new one takes the place of another, or is dropped.
THEOREM ThrottlerBounded == Spec => []TablesBounded
<1>1. Init => TablesBounded
  <2>1. ASSUME Init, NEW family PROVE Of(m_table, family) = {}
    <3>1. DOMAIN <<>> = {}
      OBVIOUS
    <3>. QED
      BY <2>1, <3>1 DEF Init, LoginInit, Of
  <2>2. MaxEntries \in Nat
    BY LoginAssumption
  <2>3. IsFiniteSet({}) /\ Cardinality({}) = 0 /\ 0 <= MaxEntries
    BY <2>2, FS_EmptySet
  <2>. QED
    BY <2>1, <2>3 DEF TablesBounded, Bounded
<1>2. ASSUME TablesBounded, LoginNext PROVE TablesBounded'
  <2>1. ASSUME DOMAIN m_table' \subseteq DOMAIN m_table PROVE TablesBounded'
    BY <1>2, <2>1, FewerBounded DEF TablesBounded
  <2>2. ASSUME NEW b \in Browser, Attempt(b) PROVE TablesBounded'
    BY <2>1, <2>2 DEF Attempt, Looked, Without, With
  <2>3. ASSUME NEW b \in Browser, Record(b) PROVE TablesBounded'
    <3>1. m_table' = Without(m_table, NetworkOf(b)) \/ RecordFailure(NetworkOf(b))
      BY <2>3 DEF Record
    <3>. QED
      BY <1>2, <2>1, <3>1, FailureBounded DEF Without
  <2>4. ASSUME NEW b \in Browser, Destroy(b) \/ Create(b) \/ Authenticate(b) \/ Logout(b)
        PROVE  TablesBounded'
    BY <2>1, <2>4 DEF Destroy, Create, Authenticate, Logout
  <2>5. CASE Tick
    BY <2>1, <2>5 DEF Tick
  <2>. QED
    BY <1>2, <2>2, <2>3, <2>4, <2>5 DEF LoginNext
<1>3. TablesBounded /\ [Next]_serverVars => TablesBounded'
  BY <1>2 DEF Next, serverVars, loginVars, TablesBounded
<1>. QED
  BY <1>1, <1>3, PTL DEF Spec

-----------------------------------------------------------------------------
(* The entries of the throttler.                                           *)

\* A set of natural numbers has a least one.
LEMMA LeastNat ==
  ASSUME NEW T \in SUBSET Nat, T # {}
  PROVE  \E n \in T : \A m \in T : n <= m
<1>1. IsWellFoundedOn(OpToRel(<, Nat), Nat)
  BY NatLessThanWellFounded
<1>2. PICK R : R = OpToRel(<, Nat)
  OBVIOUS
<1>3. PICK n \in T : \A m \in T : ~(<<m, n>> \in R)
  BY <1>1, <1>2, WFMin
<1>4. ASSUME NEW x \in Nat, NEW y \in Nat, x < y PROVE <<x, y>> \in R
  BY <1>2, <1>4 DEF OpToRel
<1>5. \A m \in T : ~(m < n)
  BY <1>3, <1>4
<1>. QED
  BY <1>5

\* So many failures are popped.
Popped(ages, k) ==
  /\ k \in 0..Len(ages)
  /\ \A i \in 1..k : ages[i] >= Window
  /\ k < Len(ages) => ages[k + 1] < Window

\* Failures are popped until the oldest one is in the window.
LEMMA RecentPops ==
  ASSUME NEW S \in SUBSET Nat, NEW ages \in Seq(S)
  PROVE  \E k : Popped(ages, k) /\ Recent(ages) = SubSeq(ages, k + 1, Len(ages))
<1>. DEFINE T == {k \in 0..Len(ages) : k < Len(ages) => ages[k + 1] < Window}
<1>1. Len(ages) \in T /\ T \in SUBSET Nat
  BY LenProperties
<1>2. PICK k \in T : \A m \in T : k <= m
  BY <1>1, LeastNat
<1>3. \A i \in 1..k : ages[i] >= Window
  <2>. SUFFICES ASSUME NEW i \in 1..k PROVE ages[i] >= Window
    OBVIOUS
  <2>1. k \in 0..Len(ages) /\ Len(ages) \in Nat
    BY <1>2, LenProperties
  <2>2. i - 1 \in 0..Len(ages) /\ i - 1 < Len(ages) /\ i - 1 < k /\ (i - 1) + 1 = i
    BY <2>1
  <2>3. i - 1 \notin T
    BY <1>2, <2>1, <2>2
  <2>4. ~(ages[i] < Window)
    BY <2>2, <2>3
  <2>5. ages[i] \in Nat /\ Window \in Nat
    <3>1. i \in 1..Len(ages)
      BY <2>1
    <3>2. ages[i] \in S
      BY <3>1, ElementOfSeq
    <3>. QED
      BY <3>2, LoginAssumption
  <2>. QED
    BY <2>4, <2>5
<1>4. Popped(ages, k)
  BY <1>2, <1>3 DEF Popped
<1>5. Recent(ages) = SubSeq(ages, (CHOOSE j \in 0..Len(ages) : Popped(ages, j)) + 1, Len(ages))
  BY DEF Recent, Popped
<1>6. PICK j : j = CHOOSE i \in 0..Len(ages) : Popped(ages, i)
  OBVIOUS
<1>7. Popped(ages, j)
  BY <1>4, <1>6 DEF Popped
<1>. QED
  BY <1>5, <1>6, <1>7

\* The failures that are left when k are popped.
LEMMA PoppedOnce ==
  ASSUME NEW S \in SUBSET Nat, NEW ages \in Seq(S), NEW k, Popped(ages, k)
  PROVE  /\ Recent(ages) \in Seq(S)
         /\ Len(Recent(ages)) = Len(ages) - k
         /\ \A i \in 1..Len(ages) - k : Recent(ages)[i] = ages[k + i]
<1>1. PICK j : Popped(ages, j) /\ Recent(ages) = SubSeq(ages, j + 1, Len(ages))
  BY RecentPops
<1>2. /\ Len(ages) \in Nat /\ Window \in Nat /\ j \in 0..Len(ages) /\ k \in 0..Len(ages)
      /\ \A i \in 1..Len(ages) : ages[i] \in S /\ ages[i] \in Nat
  BY <1>1, LenProperties, ElementOfSeq, LoginAssumption DEF Popped
<1>3. j = k
  <2>1. CASE j < k
    <3>1. j + 1 \in 1..k /\ j + 1 \in 1..Len(ages) /\ j < Len(ages)
      BY <1>2, <2>1
    <3>2. ages[j + 1] < Window /\ ages[j + 1] >= Window /\ ages[j + 1] \in Nat
      BY <1>1, <1>2, <3>1 DEF Popped
    <3>. QED
      BY <1>2, <3>2
  <2>2. CASE k < j
    <3>1. k + 1 \in 1..j /\ k + 1 \in 1..Len(ages) /\ k < Len(ages)
      BY <1>2, <2>2
    <3>2. ages[k + 1] < Window /\ ages[k + 1] >= Window /\ ages[k + 1] \in Nat
      BY <1>1, <1>2, <3>1 DEF Popped
    <3>. QED
      BY <1>2, <3>2
  <2>. QED
    BY <1>2, <2>1, <2>2
<1>4. k + 1 \in Int /\ Len(ages) \in Int /\ \A i \in (k + 1)..Len(ages) : ages[i] \in S
  BY <1>2
<1>5. PICK n : n = Len(ages)
  OBVIOUS
<1>6. PICK r : r = SubSeq(ages, k + 1, n)
  OBVIOUS
<1>7. /\ r \in Seq(S)
      /\ Len(r) = IF k + 1 <= n THEN n - (k + 1) + 1 ELSE 0
      /\ \A i \in 1..n - (k + 1) + 1 : r[i] = ages[(k + 1) + i - 1]
  BY <1>4, <1>5, <1>6, SubSeqProperties
<1>8. n - (k + 1) + 1 = n - k /\ Len(r) = n - k /\ \A i \in 1..n - k : (k + 1) + i - 1 = k + i
  BY <1>2, <1>5, <1>7
<1>9. Recent(ages) = r
  BY <1>1, <1>3, <1>5, <1>6
<1>. QED
  BY <1>5, <1>7, <1>8, <1>9

\* The failures that are left: no more of them, of the same ages.
LEMMA RecentType ==
  ASSUME NEW S \in SUBSET Nat, NEW ages \in Seq(S)
  PROVE  Recent(ages) \in Seq(S) /\ Len(Recent(ages)) <= Len(ages)
<1>1. PICK k : Popped(ages, k)
  BY RecentPops
<1>2. k \in 0..Len(ages) /\ Len(ages) \in Nat
  BY <1>1, LenProperties DEF Popped
<1>3. Recent(ages) \in Seq(S) /\ Len(Recent(ages)) = Len(ages) - k
  BY <1>1, PoppedOnce
<1>. QED
  BY <1>2, <1>3

\* What is known of the limits.
LEMMA Limits ==
  /\ MaxFailures \in Nat /\ Window \in Nat /\ BlockDuration \in Nat /\ IdleTimeout \in Nat
  /\ Second \in Nat /\ CheckTime \in Nat /\ MaxFailures > 0 /\ Window > 0 /\ Second > 0
  /\ BlockDuration > 0 /\ CheckTime + Window <= BlockDuration
<1>1. \A x \in Nat \ {0} : x \in Nat /\ x > 0
  OBVIOUS
<1>. QED
  BY <1>1, LoginAssumption

\* A new entry says nothing.
LEMMA NewEntryType == IsEntry(NewEntry)
<1>1. PICK q : q = <<>>
  OBVIOUS
<1>2. q \in Seq(0..Window) /\ Len(q) = 0
  BY <1>1
<1>3. NewEntry = [failures |-> q, until |-> [blocked |-> FALSE, wait |-> 0]]
  BY <1>1 DEF NewEntry, NotBlocked
<1>4. MaxFailures \in Nat /\ BlockDuration \in Nat
  BY LoginAssumption
<1>5. 0 \in 0..BlockDuration
  BY <1>4
<1>. QED
  BY <1>2, <1>3, <1>4, <1>5 DEF IsEntry, Block

\* An entry from which what time takes is gone.
LEMMA ExpireType ==
  ASSUME NEW e, IsEntry(e)
  PROVE  /\ IsEntry(expire(e))
         /\ ~expire(e).until.blocked => ~e.until.blocked \/ e.until.wait = 0
         /\ expire(e).until.blocked => e.until.blocked /\ e.until.wait # 0 /\ expire(e).until = e.until
<1>1. CASE e.until.blocked /\ e.until.wait = 0
  BY <1>1, NewEntryType DEF expire, NewEntry, NotBlocked
<1>2. CASE ~(e.until.blocked /\ e.until.wait = 0)
  <2>1. e.failures \in Seq(0..Window) /\ Len(e.failures) <= MaxFailures /\ e.until \in Block
    BY DEF IsEntry
  <2>2. PICK r : r = Recent(e.failures)
    OBVIOUS
  <2>3. 0..Window \in SUBSET Nat
    BY Limits
  <2>4. r \in Seq(0..Window) /\ Len(r) <= Len(e.failures)
    BY <2>1, <2>2, <2>3, RecentType
  <2>5. Len(r) <= MaxFailures
    <3>1. Len(r) \in Nat /\ Len(e.failures) \in Nat /\ MaxFailures \in Nat
      BY <2>1, <2>4, LenProperties, LoginAssumption
    <3>. QED
      BY <2>1, <2>4, <3>1
  <2>6. expire(e) = [e EXCEPT !.failures = r]
    BY <1>2, <2>2 DEF expire
  <2>7. /\ expire(e) \in [failures: Seq(0..Window), until: Block]
        /\ expire(e).failures = r /\ expire(e).until = e.until
    BY <2>4, <2>6 DEF IsEntry
  <2>8. e.until.blocked \in BOOLEAN
    BY <2>1 DEF Block
  <2>. QED
    BY <1>2, <2>5, <2>7, <2>8 DEF IsEntry
<1>. QED
  BY <1>1, <1>2

\* The entry of a network that just failed to log in.
LEMMA FailureType ==
  ASSUME NEW e, IsEntry(e)
  PROVE  IsEntry(Failure(e))
<1>1. PICK now : now = expire(e)
  OBVIOUS
<1>2. now.failures \in Seq(0..Window) /\ Len(now.failures) <= MaxFailures /\ now.until \in Block
  BY <1>1, ExpireType DEF IsEntry
<1>3. MaxFailures \in Nat \ {0} /\ Window \in Nat /\ BlockDuration \in Nat /\ 0 \in 0..Window
  BY Limits
<1>4. PICK s \in Seq(0..Window) : s = now.failures
  BY <1>2
<1>5. PICK kept : kept = IF Len(s) = MaxFailures THEN Tail(s) ELSE s
  OBVIOUS
<1>6. kept \in Seq(0..Window) /\ Len(kept) < MaxFailures /\ Len(kept) \in Nat
  <2>1. Len(s) \in Nat /\ Len(s) <= MaxFailures
    BY <1>2, <1>4, LenProperties
  <2>2. CASE Len(s) = MaxFailures
    <3>1. s # <<>>
      BY <1>3, <2>2
    <3>2. Tail(s) \in Seq(0..Window) /\ Len(Tail(s)) = Len(s) - 1
      BY <3>1, HeadTailProperties
    <3>. QED
      BY <1>3, <1>5, <2>1, <2>2, <3>2
  <2>3. CASE Len(s) # MaxFailures
    BY <1>3, <1>5, <2>1, <2>3
  <2>. QED
    BY <2>2, <2>3
<1>7. PICK q : q = Append(kept, 0)
  OBVIOUS
<1>8. q \in Seq(0..Window) /\ Len(q) = Len(kept) + 1
  BY <1>3, <1>6, <1>7, AppendProperties
<1>9. PICK u \in Block : u = IF Len(kept) + 1 >= MaxFailures
                             THEN [blocked |-> TRUE, wait |-> BlockDuration] ELSE now.until
  <2>1. BlockDuration \in 0..BlockDuration
    BY <1>3
  <2>. QED
    BY <1>2, <2>1 DEF Block
<1>10. Failure(e) = [failures |-> q, until |-> u]
  BY <1>1, <1>4, <1>5, <1>7, <1>9 DEF Failure
<1>. QED
  BY <1>3, <1>6, <1>8, <1>10 DEF IsEntry

\* A table of networks and their entries.
Entries(table) == DOMAIN table \subseteq Network /\ \A n \in DOMAIN table : IsEntry(table[n])

\* The table is one whatever is looked up, pruned or recorded.
LEMMA EntriesKept ==
  ASSUME NEW t, Entries(t), NEW n \in Network
  PROVE  /\ Entries(Without(t, n))
         /\ Entries(Looked(t, n))
         /\ \A family : Entries(Pruned(t, family))
         /\ \A e : IsEntry(e) => Entries(With(t, n, e))
<1>1. Entries(Without(t, n))
  BY DEF Entries, Without
<1>2. ASSUME NEW e, IsEntry(e) PROVE Entries(With(t, n, e))
  BY <1>2 DEF Entries, With
<1>3. Entries(Looked(t, n))
  <2>1. n \in DOMAIN t => IsEntry(expire(t[n]))
    BY ExpireType DEF Entries
  <2>. QED
    BY <1>1, <1>2, <2>1 DEF Looked
<1>4. ASSUME NEW family PROVE Entries(Pruned(t, family))
  <2>1. \A k \in DOMAIN t : IsEntry(expire(t[k])) /\ IsEntry(t[k])
    BY ExpireType DEF Entries
  <2>2. PICK gone : gone = {k \in Of(t, family) : Spent(expire(t[k]))}
    OBVIOUS
  <2>3. Pruned(t, family) = [k \in DOMAIN t \ gone |-> IF k.family = family THEN expire(t[k]) ELSE t[k]]
    BY <2>2 DEF Pruned
  <2>4. DOMAIN Pruned(t, family) = DOMAIN t \ gone
    BY <2>3
  <2>5. \A k \in DOMAIN t \ gone : IsEntry(Pruned(t, family)[k])
    BY <2>1, <2>3
  <2>. QED
    BY <2>4, <2>5 DEF Entries
<1>. QED
  BY <1>1, <1>2, <1>3, <1>4

\* What a failure leaves is a table.
LEMMA RecordEntries ==
  ASSUME Entries(m_table), NEW n \in Network, RecordFailure(n)
  PROVE  Entries(m_table')
<1>. DEFINE full(t) == n \notin DOMAIN t /\ Cardinality(Of(t, n.family)) >= MaxEntries
            Recorded(t) == With(t, n, Failure(IF n \in DOMAIN t THEN t[n] ELSE NewEntry))
<1>1. PICK room : room = IF full(m_table) THEN Pruned(m_table, n.family) ELSE m_table
  OBVIOUS
<1>2. Entries(room)
  BY <1>1, EntriesKept
<1>3. ASSUME NEW t, Entries(t) PROVE Entries(Recorded(t))
  <2>1. PICK e : e = IF n \in DOMAIN t THEN t[n] ELSE NewEntry
    OBVIOUS
  <2>2. IsEntry(e)
    BY <1>3, <2>1, NewEntryType DEF Entries
  <2>3. IsEntry(Failure(e))
    BY <2>2, FailureType
  <2>. QED
    BY <1>3, <2>1, <2>3, EntriesKept
<1>4. \/ m_table' = Recorded(room)
      \/ m_table' = room
      \/ \E victim \in Of(room, n.family) : m_table' = Recorded(Without(room, victim))
  BY <1>1 DEF RecordFailure
<1>5. ASSUME NEW victim \in Of(room, n.family) PROVE Entries(Without(room, victim))
  <2>1. victim \in Network
    BY <1>2 DEF Of, Entries
  <2>. QED
    BY <1>2, <2>1, EntriesKept
<1>. QED
  BY <1>2, <1>3, <1>4, <1>5

\* The types of what logging in keeps, the limit of the table aside.
LoginTypes ==
  /\ Entries(m_table)
  /\ DOMAIN m_sessions \subseteq Session
  /\ \A s \in DOMAIN m_sessions : m_sessions[s] \in 0..IdleTimeout
  /\ pc \in [Browser -> {"idle", "verify", "destroy", "create"}]
  /\ cookie \in [Browser -> Session \cup {None}]
  /\ request \in [Browser -> [content: DOMAIN Content \cup {None}, session: Session \cup {None},
                              age: 0..CheckTime]]
  /\ \A b \in Browser : pc[b] # "idle" => request[b].content \in Sends[b]

\* Time that passes for an entry.
LEMMA AgedEntry ==
  ASSUME NEW e, IsEntry(e)
  PROVE  IsEntry([failures |-> [i \in DOMAIN e.failures |-> More(e.failures[i], Window)],
                  until |-> [e.until EXCEPT !.wait = Less(@)]])
<1>1. PICK q, u : q = e.failures /\ u = e.until
  OBVIOUS
<1>2. q \in Seq(0..Window) /\ Len(q) <= MaxFailures /\ u \in Block
  BY <1>1 DEF IsEntry
<1>3. PICK r : r = [i \in DOMAIN q |-> More(q[i], Window)]
  OBVIOUS
<1>4. /\ r \in Seq(0..Window) /\ Len(r) = Len(q)
      /\ DOMAIN r = 1..Len(r)
  <2>1. DOMAIN q = 1..Len(q) /\ Len(q) \in Nat
    BY <1>2, LenProperties
  <2>2. \A x \in 0..Window : More(x, Window) \in 0..Window
    BY Limits DEF More
  <2>3. \A i \in 1..Len(q) : q[i] \in 0..Window
    BY <1>2, ElementOfSeq
  <2>4. r = [i \in 1..Len(q) |-> More(q[i], Window)]
    BY <1>3, <2>1
  <2>5. \A i \in 1..Len(q) : More(q[i], Window) \in 0..Window
    BY <2>2, <2>3
  <2>6. PICK n \in Nat : n = Len(q)
    BY <2>1
  <2>7. r \in Seq(0..Window)
    BY <2>4, <2>5, <2>6
  <2>8. Len(r) = n
    BY <2>4, <2>6
  <2>. QED
    BY <2>4, <2>6, <2>7, <2>8
<1>5. PICK v \in Block : v = [u EXCEPT !.wait = Less(@)]
  <2>1. \A w \in 0..BlockDuration : Less(w) \in 0..BlockDuration
    BY Limits DEF Less
  <2>2. u.wait \in 0..BlockDuration
    BY <1>2 DEF Block
  <2>3. Less(u.wait) \in 0..BlockDuration
    BY <2>1, <2>2
  <2>. QED
    BY <1>2, <2>3 DEF Block
<1>6. IsEntry([failures |-> r, until |-> v])
  BY <1>2, <1>4, <1>5 DEF IsEntry
<1>. QED
  BY <1>1, <1>3, <1>5, <1>6

\* The networks the browsers are in.
LEMMA BrowserNetwork == \A b \in Browser : NetworkOf(b) \in Network
BY LoginAssumption DEF NetworkOf, Network

\* A request is of a login the browser sends.
LEMMA RequestContent ==
  ASSUME NEW b \in Browser, NEW c \in Sends[b]
  PROVE  c \in DOMAIN Content
BY LoginAssumption

\* Every step of a login, every other use of a session and every tick of the
\* clock keep the types.
LEMMA LoginTypesStep ==
  ASSUME LoginTypes, LoginNext
  PROVE  LoginTypes'
<1>. DEFINE Requests == [content: DOMAIN Content \cup {None}, session: Session \cup {None},
                         age: 0..CheckTime]
            Stage == {"idle", "verify", "destroy", "create"}
<1>1. ASSUME NEW b \in Browser, Attempt(b) PROVE LoginTypes'
  <2>1. Entries(m_table')
    BY <1>1, BrowserNetwork, EntriesKept DEF LoginTypes, Attempt
  <2>2. CASE UNCHANGED <<pc, request>>
    BY <1>1, <2>1, <2>2 DEF LoginTypes, Attempt
  <2>3. ASSUME NEW req \in Sends[b], pc' = [pc EXCEPT ![b] = "verify"],
               request' = [request EXCEPT ![b] = [content |-> req, session |-> cookie[b], age |-> 0]]
        PROVE  LoginTypes'
    <3>1. [content |-> req, session |-> cookie[b], age |-> 0] \in Requests
      BY RequestContent, Limits DEF LoginTypes
    <3>2. /\ request' \in [Browser -> Requests] /\ pc' \in [Browser -> Stage]
          /\ request'[b].content = req
          /\ \A d \in Browser \ {b} : request'[d] = request[d] /\ pc'[d] = pc[d]
      BY <2>3, <3>1 DEF LoginTypes
    <3>3. \A d \in Browser : pc'[d] # "idle" => request'[d].content \in Sends[d]
      BY <3>2 DEF LoginTypes
    <3>. QED
      BY <1>1, <2>1, <3>2, <3>3 DEF LoginTypes, Attempt
  <2>. QED
    BY <1>1, <2>2, <2>3 DEF Attempt
<1>2. NoRequest \in Requests
  BY Limits DEF NoRequest
<1>3. ASSUME NEW b \in Browser, pc' = [pc EXCEPT ![b] = "idle"],
             request' = [request EXCEPT ![b] = NoRequest]
      PROVE  /\ request' \in [Browser -> Requests] /\ pc' \in [Browser -> Stage]
             /\ \A d \in Browser : pc'[d] # "idle" => request'[d].content \in Sends[d]
  BY <1>2, <1>3 DEF LoginTypes
<1>4. ASSUME NEW b \in Browser, pc[b] # "idle", request' = request,
             NEW x \in Stage, pc' = [pc EXCEPT ![b] = x]
      PROVE  /\ pc' \in [Browser -> Stage]
             /\ \A d \in Browser : pc'[d] # "idle" => request'[d].content \in Sends[d]
  BY <1>4 DEF LoginTypes
<1>5. ASSUME NEW b \in Browser, Record(b) PROVE LoginTypes'
  <2>1. CASE /\ m_table' = Without(m_table, NetworkOf(b))
             /\ pc' = [pc EXCEPT ![b] = IF request[b].session = None THEN "create" ELSE "destroy"]
             /\ UNCHANGED request
    <3>1. PICK x \in Stage : pc' = [pc EXCEPT ![b] = x]
      BY <2>1
    <3>2. Entries(m_table')
      BY <2>1, BrowserNetwork, EntriesKept DEF LoginTypes
    <3>3. pc[b] # "idle"
      BY <1>5 DEF Record
    <3>. QED
      BY <1>4, <1>5, <2>1, <3>1, <3>2, <3>3 DEF LoginTypes, Record
  <2>2. CASE /\ RecordFailure(NetworkOf(b))
             /\ pc' = [pc EXCEPT ![b] = "idle"]
             /\ request' = [request EXCEPT ![b] = NoRequest]
    <3>1. Entries(m_table')
      BY <2>2, BrowserNetwork, RecordEntries DEF LoginTypes
    <3>. QED
      BY <1>3, <1>5, <2>2, <3>1 DEF LoginTypes, Record
  <2>. QED
    BY <1>5, <2>1, <2>2 DEF Record
<1>6. ASSUME NEW b \in Browser, Destroy(b) PROVE LoginTypes'
  BY <1>4, <1>6 DEF LoginTypes, Destroy, Without
<1>7. ASSUME NEW b \in Browser, Create(b) PROVE LoginTypes'
  <2>1. PICK s \in Session \ DOMAIN m_sessions :
          /\ m_sessions' = With(m_sessions, s, IdleTimeout)
          /\ cookie' \in {cookie, [cookie EXCEPT ![b] = s]}
    BY <1>7 DEF Create
  <2>2. DOMAIN m_sessions' \subseteq Session /\ \A t \in DOMAIN m_sessions' : m_sessions'[t] \in 0..IdleTimeout
    BY <2>1, Limits DEF LoginTypes, With
  <2>3. cookie' \in [Browser -> Session \cup {None}]
    BY <2>1 DEF LoginTypes
  <2>. QED
    BY <1>3, <1>7, <2>2, <2>3 DEF LoginTypes, Create
<1>8. ASSUME NEW b \in Browser, Authenticate(b) \/ Logout(b) PROVE LoginTypes'
  <2>1. \/ m_sessions' = Without(m_sessions, cookie[b])
        \/ m_sessions' = [m_sessions EXCEPT ![cookie[b]] = IdleTimeout]
    BY <1>8 DEF Authenticate, Logout
  <2>2. DOMAIN m_sessions' \subseteq Session /\ \A t \in DOMAIN m_sessions' : m_sessions'[t] \in 0..IdleTimeout
    <3>1. CASE m_sessions' = Without(m_sessions, cookie[b])
      BY <3>1 DEF LoginTypes, Without
    <3>2. CASE m_sessions' = [m_sessions EXCEPT ![cookie[b]] = IdleTimeout]
      BY <3>2, Limits DEF LoginTypes
    <3>. QED
      BY <2>1, <3>1, <3>2
  <2>3. cookie' \in [Browser -> Session \cup {None}] /\ UNCHANGED <<m_table, pc, request>>
    BY <1>8 DEF LoginTypes, Authenticate, Logout
  <2>. QED
    BY <2>2, <2>3 DEF LoginTypes
<1>9. CASE Tick
  <2>1. Entries(m_table')
    <3>1. /\ DOMAIN m_table' = DOMAIN m_table
          /\ \A n \in DOMAIN m_table : m_table'[n] =
               [failures |-> [i \in DOMAIN m_table[n].failures |-> More(m_table[n].failures[i], Window)],
                until |-> [m_table[n].until EXCEPT !.wait = Less(@)]]
      BY <1>9 DEF Tick
    <3>2. \A n \in DOMAIN m_table : IsEntry(m_table'[n])
      <4>. SUFFICES ASSUME NEW n \in DOMAIN m_table PROVE IsEntry(m_table'[n])
        OBVIOUS
      <4>1. IsEntry(m_table[n])
        BY DEF LoginTypes, Entries
      <4>. QED
        BY <3>1, <4>1, AgedEntry
    <3>. QED
      BY <3>1, <3>2 DEF Entries, LoginTypes
  <2>2. DOMAIN m_sessions' \subseteq Session /\ \A t \in DOMAIN m_sessions' : m_sessions'[t] \in 0..IdleTimeout
    <3>1. \A x \in 0..IdleTimeout : Less(x) \in 0..IdleTimeout
      BY Limits DEF Less
    <3>. QED
      BY <1>9, <3>1 DEF LoginTypes, Tick
  <2>3. /\ request' \in [Browser -> Requests]
        /\ \A b \in Browser : request'[b].content = request[b].content
    <3>1. ASSUME NEW b \in Browser, pc[b] = "verify"
          PROVE  /\ [request[b] EXCEPT !.age = @ + 1] \in Requests
                 /\ [request[b] EXCEPT !.age = @ + 1].content = request[b].content
      <4>1. request[b].age + 1 \in 0..CheckTime
        BY <1>9, <3>1, Limits DEF Tick, LoginTypes
      <4>. QED
        BY <4>1 DEF LoginTypes
    <3>2. request' = [b \in Browser |-> IF pc[b] = "verify" THEN [request[b] EXCEPT !.age = @ + 1] ELSE request[b]]
      BY <1>9 DEF Tick
    <3>. QED
      BY <3>1, <3>2 DEF LoginTypes
  <2>4. UNCHANGED <<pc, cookie>>
    BY <1>9 DEF Tick
  <2>. QED
    BY <2>1, <2>2, <2>3, <2>4 DEF LoginTypes
<1>. QED
  BY <1>1, <1>5, <1>6, <1>7, <1>8, <1>9 DEF LoginNext

\* Everything a login keeps has its type at every step of the server.
LEMMA LoginTyped == Spec => []LoginTypes
<1>1. Init => LoginTypes
  <2>. SUFFICES ASSUME Init PROVE LoginTypes
    OBVIOUS
  <2>1. PICK e : e = <<>>
    OBVIOUS
  <2>2. DOMAIN e = {}
    BY <2>1
  <2>3. m_table = e /\ m_sessions = e
    BY <2>1 DEF Init, LoginInit
  <2>4. NoRequest \in [content: DOMAIN Content \cup {None}, session: Session \cup {None}, age: 0..CheckTime]
    BY Limits DEF NoRequest
  <2>. QED
    BY <2>2, <2>3, <2>4 DEF Init, LoginInit, LoginTypes, Entries
<1>2. LoginTypes /\ [Next]_serverVars => LoginTypes'
  <2>1. ASSUME LoginTypes, UNCHANGED loginVars PROVE LoginTypes'
    BY <2>1 DEF loginVars, LoginTypes, Entries
  <2>. QED
    BY <2>1, LoginTypesStep DEF Next, serverVars
<1>. QED
  BY <1>1, <1>2, PTL DEF Spec

-----------------------------------------------------------------------------
(* A block is served.                                                      *)

EntryOf(table, n) == IF n \in DOMAIN table THEN table[n] ELSE NewEntry

\* The oldest failure is first.
Aged(ages) == \A i, j \in DOMAIN ages : i <= j => ages[i] >= ages[j]

\* The entry e of a network counts the failures f.  While it is not blocked the
\* entry has them all, and they are fewer than it takes.  While it is blocked,
\* none is much younger than the block: it is of a check of a password that
\* began before the block did, and such a check is soon over.
CountedBy(e, f) ==
  /\ ~e.until.blocked => f = Recent(e.failures) /\ Len(f) < MaxFailures
  /\ e.until.blocked =>
       \A i \in DOMAIN f : f[i] + CheckTime + e.until.wait >= BlockDuration

\* No check began since network n was blocked.
NoneBegan(n) ==
  EntryOf(m_table, n).until.blocked =>
    \A b \in Browser : NetworkOf(b) = n /\ pc[b] = "verify" =>
      request[b].age + EntryOf(m_table, n).until.wait >= BlockDuration

\* There is nothing to pop from no failures.
LEMMA RecentEmpty == Recent(<<>>) = <<>>
<1>1. PICK e : e = <<>>
  OBVIOUS
<1>2. e \in Seq({}) /\ Len(e) = 0
  BY <1>1
<1>3. PICK r : r = Recent(e)
  OBVIOUS
<1>4. r \in Seq({}) /\ Len(r) <= 0
  BY <1>2, <1>3, RecentType
<1>5. Len(r) = 0
  BY <1>4, LenProperties
<1>6. r = <<>>
  BY <1>4, <1>5, EmptySeq
<1>. QED
  BY <1>1, <1>3, <1>6

\* Failures in the window stay.
LEMMA RecentAll ==
  ASSUME NEW ages \in Seq(0..Window - 1)
  PROVE  Recent(ages) = ages
<1>1. Len(ages) \in Nat /\ \A i \in 1..Len(ages) : ages[i] \in 0..Window - 1
  BY LenProperties, ElementOfSeq
<1>2. Popped(ages, 0)
  BY <1>1, Limits DEF Popped
<1>3. PICK S \in SUBSET Nat : S = 0..Window - 1
  BY Limits
<1>4. PICK r : r = Recent(ages)
  OBVIOUS
<1>5. /\ r \in Seq(S) /\ Len(r) = Len(ages) - 0
      /\ \A i \in 1..Len(ages) - 0 : r[i] = ages[0 + i]
  BY <1>2, <1>3, <1>4, PoppedOnce
<1>6. Len(r) = Len(ages) /\ \A i \in 1..Len(ages) : r[i] = ages[i]
  BY <1>1, <1>5
<1>7. r = ages
  BY <1>3, <1>5, <1>6, SeqEqual
<1>. QED
  BY <1>4, <1>7

\* Those that are left are all in the window when they get younger and younger.
LEMMA RecentAged ==
  ASSUME NEW S \in SUBSET Nat, NEW ages \in Seq(S), Aged(ages)
  PROVE  Recent(ages) \in Seq(0..Window - 1) /\ Aged(Recent(ages))
<1>1. PICK k : Popped(ages, k)
  BY RecentPops
<1>2. PICK n \in Nat : n = Len(ages)
  BY LenProperties
<1>3. k \in 0..n /\ DOMAIN ages = 1..n /\ \A i \in 1..n : ages[i] \in Nat
  BY <1>1, <1>2, LenProperties, ElementOfSeq DEF Popped
<1>4. PICK r : r = Recent(ages)
  OBVIOUS
<1>5. r \in Seq(S) /\ Len(r) = n - k /\ \A i \in 1..n - k : r[i] = ages[k + i]
  BY <1>1, <1>2, <1>4, PoppedOnce
<1>6. DOMAIN r = 1..n - k
  BY <1>5, LenProperties
<1>7. Aged(r)
  <2>. SUFFICES ASSUME NEW i \in 1..n - k, NEW j \in 1..n - k, i <= j PROVE r[i] >= r[j]
    BY <1>6 DEF Aged
  <2>1. k + i \in 1..n /\ k + j \in 1..n /\ k + i <= k + j
    BY <1>3
  <2>2. ages[k + i] >= ages[k + j]
    BY <1>3, <2>1 DEF Aged
  <2>. QED
    BY <1>5, <2>2
<1>8. \A i \in 1..n - k : r[i] \in 0..Window - 1
  <2>. SUFFICES ASSUME NEW i \in 1..n - k PROVE r[i] \in 0..Window - 1
    OBVIOUS
  <2>1. k < n /\ k + 1 \in 1..n /\ k + i \in 1..n /\ k + 1 <= k + i
    BY <1>3
  <2>2. ages[k + 1] < Window /\ ages[k + 1] >= ages[k + i]
    BY <1>1, <1>2, <1>3, <2>1 DEF Popped, Aged
  <2>3. ages[k + i] \in Nat /\ ages[k + 1] \in Nat /\ r[i] = ages[k + i]
    BY <1>3, <1>5, <2>1
  <2>. QED
    BY <2>2, <2>3, Limits
<1>9. r \in Seq(0..Window - 1)
  <2>1. PICK m \in Nat : m = Len(r)
    BY <1>5, LenProperties
  <2>2. r = [i \in 1..m |-> r[i]] /\ \A i \in 1..m : r[i] \in 0..Window - 1
    BY <1>5, <1>6, <1>8, <2>1
  <2>3. r \in [1..m -> 0..Window - 1]
    BY <2>2
  <2>4. \A T : r \in [1..m -> T] => r \in Seq(T)
    BY <2>1
  <2>. QED
    BY <2>3, <2>4
<1>. QED
  BY <1>4, <1>7, <1>9

\* One more failure, of this moment.
LEMMA AgedAppend ==
  ASSUME NEW f \in Seq(0..Window - 1), Aged(f)
  PROVE  Append(f, 0) \in Seq(0..Window - 1) /\ Aged(Append(f, 0))
<1>1. 0 \in 0..Window - 1
  BY Limits
<1>2. PICK n \in Nat : n = Len(f)
  BY LenProperties
<1>3. DOMAIN f = 1..n /\ \A i \in 1..n : f[i] \in Nat
  <2>1. \A i \in 1..n : f[i] \in 0..Window - 1
    BY <1>2, ElementOfSeq
  <2>. QED
    BY <1>2, <2>1, LenProperties
<1>4. PICK g : g = Append(f, 0)
  OBVIOUS
<1>5. /\ g \in Seq(0..Window - 1) /\ Len(g) = n + 1 /\ g[n + 1] = 0
      /\ \A i \in 1..n : g[i] = f[i]
  BY <1>1, <1>2, <1>4, AppendProperties
<1>6. DOMAIN g = 1..n + 1
  BY <1>5, LenProperties
<1>7. ASSUME NEW i \in 1..n + 1, NEW j \in 1..n + 1, i <= j PROVE g[i] >= g[j]
  <2>1. CASE j = n + 1
    <3>1. g[i] \in Nat
      BY <1>3, <1>5
    <3>. QED
      BY <1>5, <2>1, <3>1
  <2>2. CASE j # n + 1
    <3>1. i \in 1..n /\ j \in 1..n
      BY <1>7, <2>2
    <3>. QED
      BY <1>3, <1>5, <1>7, <3>1 DEF Aged
  <2>. QED
    BY <2>1, <2>2
<1>. QED
  BY <1>4, <1>5, <1>6, <1>7 DEF Aged

\* Popping what is out of the window loses nothing that counts; a block that is
\* over has no failures left in the window.
LEMMA CountedExpire ==
  ASSUME NEW e, IsEntry(e), NEW f \in Seq(0..Window - 1), CountedBy(e, f)
  PROVE  /\ CountedBy(expire(e), f)
         /\ ~expire(e).until.blocked => expire(e).failures = f
<1>1. CASE e.until.blocked /\ e.until.wait = 0
  <2>1. Len(f) = 0
    <3>. SUFFICES ASSUME Len(f) # 0 PROVE FALSE
      OBVIOUS
    <3>1. 1 \in DOMAIN f /\ 1 \in 1..Len(f)
      BY LenProperties
    <3>2. f[1] \in 0..Window - 1
      BY <3>1, ElementOfSeq
    <3>3. f[1] + CheckTime + 0 >= BlockDuration
      BY <1>1, <3>1 DEF CountedBy
    <3>. QED
      BY <3>2, <3>3, Limits
  <2>2. f = <<>>
    BY <2>1, EmptySeq
  <2>3. expire(e).failures = <<>> /\ ~expire(e).until.blocked
    BY <1>1 DEF expire, NewEntry, NotBlocked
  <2>4. 0 < MaxFailures
    BY Limits
  <2>. QED
    BY <2>1, <2>2, <2>3, <2>4, RecentEmpty DEF CountedBy
<1>2. CASE ~(e.until.blocked /\ e.until.wait = 0)
  <2>1. PICK r : r = Recent(e.failures)
    OBVIOUS
  <2>2. expire(e) = [e EXCEPT !.failures = r]
    BY <1>2, <2>1 DEF expire
  <2>3. expire(e).failures = r /\ expire(e).until = e.until
    BY <2>2 DEF IsEntry
  <2>4. ~e.until.blocked => r = f /\ Recent(r) = f
    BY <2>1, RecentAll DEF CountedBy
  <2>. QED
    BY <2>3, <2>4 DEF CountedBy
<1>. QED
  BY <1>1, <1>2

\* A failure is counted, and begins a block when there are enough; one during a
\* block is of a check that began before it.
LEMMA CountedFailure ==
  ASSUME NEW e, IsEntry(e), NEW f \in Seq(0..Window - 1), CountedBy(e, f),
         e.until.blocked => CheckTime + e.until.wait >= BlockDuration
  PROVE  /\ CountedBy(Failure(e), Append(f, 0))
         /\ Failure(e).until.blocked =>
              Failure(e).until.wait = BlockDuration \/ (e.until.blocked /\ Failure(e).until = e.until)
<1>1. PICK now : now = expire(e)
  OBVIOUS
<1>2. /\ IsEntry(now) /\ CountedBy(now, f)
      /\ ~now.until.blocked => now.failures = f
      /\ now.until.blocked => e.until.blocked /\ now.until = e.until
  BY <1>1, CountedExpire, ExpireType
<1>3. PICK n \in Nat : n = Len(f)
  BY LenProperties
<1>4. PICK g : g = Append(f, 0)
  OBVIOUS
<1>5. /\ g \in Seq(0..Window - 1) /\ Len(g) = n + 1 /\ g[n + 1] = 0 /\ DOMAIN g = 1..n + 1
      /\ \A i \in 1..n : g[i] = f[i] /\ f[i] \in Nat
  <2>1. 0 \in 0..Window - 1
    BY Limits
  <2>2. g \in Seq(0..Window - 1) /\ Len(g) = n + 1 /\ g[n + 1] = 0 /\ \A i \in 1..n : g[i] = f[i]
    BY <1>3, <1>4, <2>1, AppendProperties
  <2>3. \A i \in 1..n : f[i] \in 0..Window - 1
    BY <1>3, ElementOfSeq
  <2>. QED
    BY <2>2, <2>3, LenProperties
<1>6. PICK kept : kept = IF Len(now.failures) = MaxFailures THEN Tail(now.failures) ELSE now.failures
  OBVIOUS
<1>7. PICK u : u = IF Len(kept) + 1 >= MaxFailures
                   THEN [blocked |-> TRUE, wait |-> BlockDuration] ELSE now.until
  OBVIOUS
<1>8. Failure(e).failures = Append(kept, 0) /\ Failure(e).until = u
  BY <1>1, <1>6, <1>7 DEF Failure
<1>9. u = [blocked |-> TRUE, wait |-> BlockDuration] \/ u = now.until
  BY <1>7
<1>10. u.blocked => u.wait = BlockDuration \/ (e.until.blocked /\ u = e.until)
  BY <1>2, <1>9
<1>11. ASSUME u.blocked, NEW i \in DOMAIN g PROVE g[i] + CheckTime + u.wait >= BlockDuration
  <2>1. g[i] \in Nat
    BY <1>5
  <2>2. CASE u.wait = BlockDuration
    BY <2>1, <2>2, Limits
  <2>3. CASE e.until.blocked /\ u = e.until
    <3>1. CheckTime + u.wait >= BlockDuration
      BY <2>3
    <3>2. u.wait \in Nat
      BY <2>3, Limits DEF IsEntry, Block
    <3>. QED
      BY <2>1, <3>1, <3>2, Limits
  <2>. QED
    BY <1>10, <1>11, <2>2, <2>3
<1>12. ASSUME ~u.blocked
       PROVE  g = Recent(Failure(e).failures) /\ Len(g) < MaxFailures
  <2>1. u = now.until /\ ~(Len(kept) + 1 >= MaxFailures)
    BY <1>7, <1>12
  <2>2. now.failures = f /\ Len(f) < MaxFailures
    BY <1>2, <1>12, <2>1 DEF CountedBy
  <2>3. kept = f
    BY <1>3, <1>6, <2>2, Limits
  <2>4. Failure(e).failures = g
    BY <1>4, <1>8, <2>3
  <2>5. Len(g) < MaxFailures
    BY <1>3, <1>5, <2>1, <2>3, Limits
  <2>. QED
    BY <1>5, <2>4, <2>5, RecentAll
<1>. QED
  BY <1>4, <1>8, <1>10, <1>11, <1>12 DEF CountedBy

\* A new entry stays as it is.
LEMMA NewEntryExpires == expire(NewEntry) = NewEntry
<1>1. PICK e, q : q = <<>> /\ e = [failures |-> q, until |-> [blocked |-> FALSE, wait |-> 0]]
  OBVIOUS
<1>2. NewEntry = e
  BY <1>1 DEF NewEntry, NotBlocked
<1>3. Recent(q) = q
  BY <1>1, RecentEmpty
<1>4. expire(e) = [e EXCEPT !.failures = Recent(q)]
  BY <1>1 DEF expire
<1>5. [e EXCEPT !.failures = q] = e
  BY <1>1
<1>. QED
  BY <1>2, <1>3, <1>4, <1>5

\* The entry of a network after another, or itself, was looked up or recorded.
LEMMA EntryAfter ==
  ASSUME NEW t, NEW k, NEW n
  PROVE  /\ EntryOf(Without(t, k), n) = IF n = k THEN NewEntry ELSE EntryOf(t, n)
         /\ \A e : EntryOf(With(t, k, e), n) = IF n = k THEN e ELSE EntryOf(t, n)
         /\ EntryOf(Looked(t, k), n) = IF n = k THEN expire(EntryOf(t, n)) ELSE EntryOf(t, n)
         /\ \A family : EntryOf(Pruned(t, family), n) \in {EntryOf(t, n), expire(EntryOf(t, n))}
<1>1. EntryOf(Without(t, k), n) = IF n = k THEN NewEntry ELSE EntryOf(t, n)
  BY DEF Without, EntryOf
<1>2. ASSUME NEW e PROVE EntryOf(With(t, k, e), n) = IF n = k THEN e ELSE EntryOf(t, n)
  BY DEF With, EntryOf
<1>3. EntryOf(Looked(t, k), n) = IF n = k THEN expire(EntryOf(t, n)) ELSE EntryOf(t, n)
  <2>1. CASE k \notin DOMAIN t
    BY <2>1, NewEntryExpires DEF Looked, EntryOf
  <2>2. CASE k \in DOMAIN t /\ Spent(expire(t[k]))
    <3>1. Looked(t, k) = Without(t, k) /\ expire(t[k]) = NewEntry
      BY <2>2 DEF Looked, Spent
    <3>2. k = n => EntryOf(t, n) = t[k]
      BY <2>2 DEF EntryOf
    <3>. QED
      BY <1>1, <3>1, <3>2
  <2>3. CASE k \in DOMAIN t /\ ~Spent(expire(t[k]))
    <3>1. Looked(t, k) = With(t, k, expire(t[k]))
      BY <2>3 DEF Looked
    <3>2. k = n => EntryOf(t, n) = t[k]
      BY <2>3 DEF EntryOf
    <3>. QED
      BY <1>2, <3>1, <3>2
  <2>. QED
    BY <2>1, <2>2, <2>3
<1>4. ASSUME NEW family
      PROVE  EntryOf(Pruned(t, family), n) \in {EntryOf(t, n), expire(EntryOf(t, n))}
  <2>1. PICK gone : gone = {x \in Of(t, family) : Spent(expire(t[x]))}
    OBVIOUS
  <2>2. PICK p : p = Pruned(t, family)
    OBVIOUS
  <2>3. p = [x \in DOMAIN t \ gone |-> IF x.family = family THEN expire(t[x]) ELSE t[x]]
    BY <2>1, <2>2 DEF Pruned
  <2>4. DOMAIN p = DOMAIN t \ gone
    BY <2>3
  <2>5. CASE n \in gone
    <3>1. n \in DOMAIN t /\ expire(t[n]) = NewEntry
      BY <2>1, <2>5 DEF Of, Spent
    <3>2. EntryOf(p, n) = NewEntry /\ EntryOf(t, n) = t[n]
      BY <2>4, <2>5, <3>1 DEF EntryOf
    <3>. QED
      BY <2>2, <3>1, <3>2
  <2>6. CASE n \in DOMAIN t \ gone
    <3>1. EntryOf(p, n) = p[n] /\ EntryOf(t, n) = t[n] /\ p[n] \in {t[n], expire(t[n])}
      BY <2>3, <2>4, <2>6 DEF EntryOf
    <3>. QED
      BY <2>2, <3>1
  <2>7. CASE n \notin DOMAIN t
    BY <2>2, <2>4, <2>7 DEF EntryOf
  <2>. QED
    BY <2>5, <2>6, <2>7
<1>. QED
  BY <1>1, <1>2, <1>3, <1>4

\* What is counted of every network, the checks that are under way aside.
FailuresCounted ==
  /\ DOMAIN failed = Network
  /\ \A n \in Network :
       failed[n] \in Seq(0..Window - 1) /\ Aged(failed[n]) /\ CountedBy(EntryOf(m_table, n), failed[n])

\* Entries of networks with or without one.
LEMMA EntryOfType ==
  ASSUME NEW t, Entries(t), NEW n
  PROVE  IsEntry(EntryOf(t, n))
BY NewEntryType DEF EntryOf, Entries

\* No failures of a network that has no entry, and those of a new one.
LEMMA NoFailures ==
  /\ <<>> \in Seq(0..Window - 1) /\ Aged(<<>>) /\ CountedBy(NewEntry, <<>>)
  /\ \A f : CountedBy(NewEntry, f) => f = <<>>
<1>1. PICK q, e : q = <<>> /\ e = [failures |-> q, until |-> [blocked |-> FALSE, wait |-> 0]]
  OBVIOUS
<1>2. e = NewEntry /\ e.failures = q /\ ~e.until.blocked
  BY <1>1 DEF NewEntry, NotBlocked
<1>3. q \in Seq(0..Window - 1) /\ Len(q) = 0 /\ DOMAIN q = {}
  BY <1>1
<1>4. Recent(q) = q /\ 0 < MaxFailures
  BY <1>1, RecentEmpty, Limits
<1>5. CountedBy(e, q) /\ \A f : CountedBy(e, f) => f = q
  BY <1>2, <1>3, <1>4 DEF CountedBy
<1>. QED
  BY <1>1, <1>2, <1>3, <1>5 DEF Aged

\* What record() does about a failure counts it; the entry that is blocked was
\* before, or is from now on.
LEMMA RecordCounts ==
  ASSUME Entries(m_table), FailuresCounted, NEW n \in Network, RecordFailure(n),
         EntryOf(m_table, n).until.blocked =>
           CheckTime + EntryOf(m_table, n).until.wait >= BlockDuration
  PROVE  /\ FailuresCounted'
         /\ \A k \in Network : EntryOf(m_table', k).until.blocked =>
              \/ EntryOf(m_table', k).until.wait = BlockDuration
              \/ /\ EntryOf(m_table, k).until.blocked
                 /\ EntryOf(m_table', k).until = EntryOf(m_table, k).until
<1>. DEFINE full(t) == n \notin DOMAIN t /\ Cardinality(Of(t, n.family)) >= MaxEntries
            Recorded(t) == With(t, n, Failure(EntryOf(t, n)))
            Good(t, f, k) == /\ f[k] \in Seq(0..Window - 1) /\ Aged(f[k])
                             /\ CountedBy(EntryOf(t, k), f[k])
            Same(t, k) == EntryOf(t, k).until.blocked =>
                            \/ EntryOf(t, k).until.wait = BlockDuration
                            \/ /\ EntryOf(m_table, k).until.blocked
                               /\ EntryOf(t, k).until = EntryOf(m_table, k).until
<1>1. PICK room : room = IF full(m_table) THEN Pruned(m_table, n.family) ELSE m_table
  OBVIOUS
<1>2. Entries(room)
  BY <1>1, EntriesKept
<1>3. ASSUME NEW k \in Network
      PROVE  /\ Good(room, failed, k)
             /\ EntryOf(room, k).until.blocked =>
                  EntryOf(m_table, k).until.blocked /\ EntryOf(room, k).until = EntryOf(m_table, k).until
  <2>1. EntryOf(room, k) \in {EntryOf(m_table, k), expire(EntryOf(m_table, k))}
    BY <1>1, EntryAfter
  <2>2. IsEntry(EntryOf(m_table, k)) /\ Good(m_table, failed, k)
    BY EntryOfType DEF FailuresCounted
  <2>3. CASE EntryOf(room, k) = EntryOf(m_table, k)
    BY <2>2, <2>3
  <2>4. CASE EntryOf(room, k) = expire(EntryOf(m_table, k))
    BY <2>2, <2>4, CountedExpire, ExpireType
  <2>. QED
    BY <2>1, <2>3, <2>4
<1>4. /\ CountedBy(Failure(EntryOf(room, n)), Append(failed[n], 0))
      /\ Append(failed[n], 0) \in Seq(0..Window - 1) /\ Aged(Append(failed[n], 0))
      /\ Failure(EntryOf(room, n)).until.blocked =>
           \/ Failure(EntryOf(room, n)).until.wait = BlockDuration
           \/ /\ EntryOf(m_table, n).until.blocked
              /\ Failure(EntryOf(room, n)).until = EntryOf(m_table, n).until
  <2>1. PICK e : e = EntryOf(room, n)
    OBVIOUS
  <2>2. IsEntry(e) /\ Good(room, failed, n)
    BY <1>2, <1>3, <2>1, EntryOfType
  <2>3. e.until.blocked => EntryOf(m_table, n).until.blocked /\ e.until = EntryOf(m_table, n).until
    BY <1>3, <2>1
  <2>4. e.until.blocked => CheckTime + e.until.wait >= BlockDuration
    BY <2>3
  <2>5. /\ CountedBy(Failure(e), Append(failed[n], 0))
        /\ Failure(e).until.blocked =>
             Failure(e).until.wait = BlockDuration \/ (e.until.blocked /\ Failure(e).until = e.until)
    BY <2>1, <2>2, <2>4, CountedFailure
  <2>. QED
    BY <2>1, <2>2, <2>3, <2>5, AgedAppend
<1>5. CASE m_table' = room /\ UNCHANGED failed
  BY <1>3, <1>5 DEF FailuresCounted
<1>6. ASSUME m_table' = Recorded(room), failed' = [failed EXCEPT ![n] = Append(@, 0)], NEW k \in Network
      PROVE  Good(m_table', failed', k) /\ Same(m_table', k)
  <2>1. EntryOf(m_table', k) = IF k = n THEN Failure(EntryOf(room, n)) ELSE EntryOf(room, k)
    <3>1. PICK r : r = Failure(EntryOf(room, n))
      OBVIOUS
    <3>2. m_table' = With(room, n, r)
      BY <1>6, <3>1
    <3>3. EntryOf(With(room, n, r), k) = IF k = n THEN r ELSE EntryOf(room, k)
      BY DEF With, EntryOf
    <3>. QED
      BY <3>1, <3>2, <3>3
  <2>2. failed'[k] = IF k = n THEN Append(failed[n], 0) ELSE failed[k]
    BY <1>6 DEF FailuresCounted
  <2>3. CASE k = n
    BY <1>4, <2>1, <2>2, <2>3
  <2>4. CASE k # n
    BY <1>3, <2>1, <2>2, <2>4
  <2>. QED
    BY <2>3, <2>4
<1>7. ASSUME NEW victim \in Of(room, n.family), m_table' = Recorded(Without(room, victim)), full(room),
             failed' = [failed EXCEPT ![victim] = <<>>, ![n] = << 0 >>], NEW k \in Network
      PROVE  Good(m_table', failed', k) /\ Same(m_table', k)
  <2>1. PICK t : t = Without(room, victim)
    OBVIOUS
  <2>2. \A x : EntryOf(t, x) = IF x = victim THEN NewEntry ELSE EntryOf(room, x)
    BY <2>1, EntryAfter
  <2>3. EntryOf(room, n) = NewEntry /\ EntryOf(t, n) = NewEntry
    BY <1>7, <2>2 DEF EntryOf
  <2>4. failed[n] = <<>> /\ victim # n
    <3>1. CountedBy(NewEntry, failed[n])
      BY <1>3, <2>3
    <3>2. victim # n
      BY <1>7 DEF Of
    <3>. QED
      BY <3>1, <3>2, NoFailures
  <2>5. Append(failed[n], 0) = <<0>>
    BY <2>4
  <2>6. EntryOf(m_table', k) = IF k = n THEN Failure(EntryOf(room, n)) ELSE EntryOf(t, k)
    <3>1. PICK r : r = Failure(EntryOf(room, n))
      OBVIOUS
    <3>2. m_table' = With(t, n, r)
      BY <1>7, <2>1, <2>3, <3>1
    <3>3. EntryOf(With(t, n, r), k) = IF k = n THEN r ELSE EntryOf(t, k)
      BY DEF With, EntryOf
    <3>. QED
      BY <3>1, <3>2, <3>3
  <2>7. failed'[k] = IF k = n THEN <<0>> ELSE IF k = victim THEN <<>> ELSE failed[k]
    BY <1>7 DEF FailuresCounted
  <2>8. CASE k = n
    BY <1>4, <2>5, <2>6, <2>7, <2>8
  <2>9. CASE k = victim /\ k # n
    <3>1. EntryOf(m_table', k) = NewEntry /\ failed'[k] = <<>>
      BY <2>2, <2>6, <2>7, <2>9
    <3>2. ~NewEntry.until.blocked
      BY DEF NewEntry, NotBlocked
    <3>. QED
      BY <3>1, <3>2, NoFailures
  <2>10. CASE k # victim /\ k # n
    BY <1>3, <2>2, <2>6, <2>7, <2>10
  <2>. QED
    BY <2>8, <2>9, <2>10
<1>8. DOMAIN failed' = Network
  BY DEF RecordFailure, FailuresCounted
<1>9. \A t : Recorded(t) = With(t, n, Failure(IF n \in DOMAIN t THEN t[n] ELSE NewEntry))
  BY DEF EntryOf
<1>10. \/ m_table' = Recorded(room) /\ failed' = [failed EXCEPT ![n] = Append(@, 0)]
       \/ m_table' = room /\ UNCHANGED failed
       \/ /\ full(room)
          /\ \E victim \in Of(room, n.family) :
               /\ m_table' = Recorded(Without(room, victim))
               /\ failed' = [failed EXCEPT ![victim] = <<>>, ![n] = << 0 >>]
  BY <1>1, <1>9 DEF RecordFailure
<1>11. \A k \in Network : Good(m_table', failed', k) /\ Same(m_table', k)
  <2>1. CASE m_table' = Recorded(room) /\ failed' = [failed EXCEPT ![n] = Append(@, 0)]
    BY <1>6, <2>1
  <2>2. CASE m_table' = room /\ UNCHANGED failed
    BY <1>3, <2>2
  <2>3. CASE /\ full(room)
             /\ \E victim \in Of(room, n.family) :
                  /\ m_table' = Recorded(Without(room, victim))
                  /\ failed' = [failed EXCEPT ![victim] = <<>>, ![n] = << 0 >>]
    BY <1>7, <2>3
  <2>. QED
    BY <1>10, <2>1, <2>2, <2>3
<1>. QED
  BY <1>8, <1>11 DEF FailuresCounted

\* Failures grow older.
LEMMA OlderType ==
  ASSUME NEW f \in Seq(0..Window - 1), NEW g, g = [i \in DOMAIN f |-> f[i] + 1]
  PROVE  /\ g \in Seq(0..Window) /\ Len(g) = Len(f) /\ DOMAIN g = DOMAIN f
         /\ Aged(f) => Aged(g)
<1>1. PICK n \in Nat : n = Len(f)
  BY LenProperties
<1>2. DOMAIN f = 1..n
  BY <1>1, LenProperties
<1>3. \A i \in 1..n : f[i] \in 0..Window - 1
  BY <1>1, ElementOfSeq
<1>4. \A i \in 1..n : f[i] \in Nat /\ f[i] + 1 \in 0..Window
  BY <1>3, Limits
<1>5. g = [i \in 1..n |-> f[i] + 1] /\ g \in [1..n -> 0..Window]
  BY <1>2, <1>4
<1>6. \A T : g \in [1..n -> T] => g \in Seq(T)
  OBVIOUS
<1>7. g \in Seq(0..Window) /\ Len(g) = n
  BY <1>5, <1>6
<1>8. ASSUME Aged(f) PROVE Aged(g)
  <2>. SUFFICES ASSUME NEW i \in 1..n, NEW j \in 1..n, i <= j PROVE g[i] >= g[j]
    BY <1>5 DEF Aged
  <2>1. f[i] >= f[j] /\ f[i] \in Nat /\ f[j] \in Nat
    BY <1>2, <1>4, <1>8 DEF Aged
  <2>2. g[i] = f[i] + 1 /\ g[j] = f[j] + 1
    BY <1>5
  <2>. QED
    BY <2>1, <2>2
<1>. QED
  BY <1>1, <1>2, <1>5, <1>7, <1>8

\* The failures of an entry and those that are counted leave the window together.
LEMMA RecentOlder ==
  ASSUME NEW x \in Seq(0..Window), Recent(x) \in Seq(0..Window - 1)
  PROVE  Recent([i \in DOMAIN x |-> More(x[i], Window)])
           = Recent([i \in DOMAIN Recent(x) |-> Recent(x)[i] + 1])
<1>1. PICK k : Popped(x, k)
  BY RecentPops, Limits
<1>2. PICK n \in Nat : n = Len(x)
  BY LenProperties
<1>3. DOMAIN x = 1..n /\ k \in 0..n /\ \A i \in 1..n : x[i] \in 0..Window
  BY <1>1, <1>2, LenProperties, ElementOfSeq DEF Popped
<1>4. PICK f : f = Recent(x)
  OBVIOUS
<1>5. PICK W \in SUBSET Nat : W = 0..Window
  BY Limits
<1>6. /\ f \in Seq(0..Window - 1) /\ Len(f) = n - k /\ DOMAIN f = 1..n - k
      /\ \A i \in 1..n - k : f[i] = x[k + i]
  <2>1. x \in Seq(W)
    BY <1>5
  <2>2. /\ Len(f) = Len(x) - k
        /\ \A i \in 1..Len(x) - k : f[i] = x[k + i]
    BY <1>1, <1>4, <2>1, PoppedOnce
  <2>. QED
    BY <1>2, <1>4, <2>2, LenProperties
<1>7. \A i \in 1..n - k : f[i] \in 0..Window - 1
  BY <1>6, ElementOfSeq
<1>8. PICK g : g = [i \in DOMAIN f |-> f[i] + 1]
  OBVIOUS
<1>9. /\ g \in Seq(W) /\ Len(g) = n - k
      /\ \A i \in 1..n - k : g[i] = f[i] + 1
  <2>1. g \in Seq(0..Window) /\ Len(g) = Len(f)
    BY <1>6, <1>8, OlderType
  <2>. QED
    BY <1>5, <1>6, <1>8, <2>1
<1>10. PICK y : y = [i \in DOMAIN x |-> More(x[i], Window)]
  OBVIOUS
<1>11. /\ y \in Seq(W) /\ Len(y) = n
       /\ \A i \in 1..n : y[i] = More(x[i], Window)
  <2>1. \A i \in 1..n : More(x[i], Window) \in 0..Window
    BY <1>3, Limits DEF More
  <2>2. y = [i \in 1..n |-> More(x[i], Window)] /\ y \in [1..n -> W]
    BY <1>3, <1>5, <1>10, <2>1
  <2>3. \A T : y \in [1..n -> T] => y \in Seq(T)
    OBVIOUS
  <2>. QED
    BY <2>2, <2>3
<1>12. \A i \in 1..k : y[i] = Window
  <2>. SUFFICES ASSUME NEW i \in 1..k PROVE y[i] = Window
    OBVIOUS
  <2>1. i \in 1..n
    BY <1>3
  <2>2. x[i] >= Window /\ x[i] \in 0..Window
    BY <1>1, <1>3, <2>1 DEF Popped
  <2>3. x[i] = Window
    BY <2>2, Limits
  <2>. QED
    BY <1>11, <2>1, <2>3 DEF More
<1>13. \A i \in 1..n - k : k + i \in 1..n /\ y[k + i] = g[i]
  <2>. SUFFICES ASSUME NEW i \in 1..n - k PROVE k + i \in 1..n /\ y[k + i] = g[i]
    OBVIOUS
  <2>1. k + i \in 1..n
    BY <1>3
  <2>2. x[k + i] = f[i] /\ f[i] \in 0..Window - 1 /\ f[i] # Window
    BY <1>6, <1>7, Limits
  <2>3. More(x[k + i], Window) = f[i] + 1
    BY <2>2 DEF More
  <2>. QED
    BY <1>9, <1>11, <2>1, <2>3
<1>14. PICK j : Popped(g, j)
  BY <1>9, RecentPops
<1>15. /\ j \in 0..n - k
       /\ \A i \in 1..j : g[i] >= Window
       /\ j < n - k => g[j + 1] < Window
  BY <1>9, <1>14 DEF Popped
<1>16. Popped(y, k + j)
  <2>1. k + j \in 0..n
    BY <1>3, <1>15
  <2>2. ASSUME NEW i \in 1..k + j PROVE y[i] >= Window
    <3>1. CASE i <= k
      <4>1. i \in 1..k
        BY <1>3, <1>15, <3>1
      <4>. QED
        BY <1>12, <4>1, Limits
    <3>2. CASE ~(i <= k)
      <4>1. i - k \in 1..j /\ i - k \in 1..n - k /\ k + (i - k) = i
        BY <1>3, <1>15, <3>2
      <4>2. y[k + (i - k)] = g[i - k] /\ g[i - k] >= Window
        BY <1>13, <1>15, <4>1
      <4>. QED
        BY <4>1, <4>2
    <3>. QED
      BY <3>1, <3>2
  <2>3. ASSUME k + j < n PROVE y[(k + j) + 1] < Window
    <3>1. j < n - k /\ j + 1 \in 1..n - k /\ k + (j + 1) = (k + j) + 1
      BY <1>3, <1>15, <2>3
    <3>2. y[k + (j + 1)] = g[j + 1] /\ g[j + 1] < Window
      BY <1>13, <1>15, <3>1
    <3>. QED
      BY <3>1, <3>2
  <2>. QED
    BY <1>11, <2>1, <2>2, <2>3 DEF Popped
<1>17. PICK p, q : p = Recent(y) /\ q = Recent(g)
  OBVIOUS
<1>18. /\ p \in Seq(W) /\ Len(p) = n - (k + j)
       /\ \A i \in 1..n - (k + j) : p[i] = y[(k + j) + i]
  BY <1>11, <1>16, <1>17, PoppedOnce
<1>19. /\ q \in Seq(W) /\ Len(q) = (n - k) - j
       /\ \A i \in 1..(n - k) - j : q[i] = g[j + i]
  BY <1>9, <1>14, <1>17, PoppedOnce
<1>20. n - (k + j) = (n - k) - j
  BY <1>3, <1>15
<1>21. \A i \in 1..(n - k) - j : p[i] = q[i]
  <2>. SUFFICES ASSUME NEW i \in 1..(n - k) - j PROVE p[i] = q[i]
    OBVIOUS
  <2>1. j + i \in 1..n - k /\ k + (j + i) = (k + j) + i
    BY <1>3, <1>15
  <2>2. y[k + (j + i)] = g[j + i]
    BY <1>13, <2>1
  <2>. QED
    BY <1>18, <1>19, <1>20, <2>1, <2>2
<1>22. p = q
  BY <1>18, <1>19, <1>20, <1>21, SeqEqual
<1>. QED
  BY <1>4, <1>8, <1>10, <1>17, <1>22

\* An entry a tick later.
Older(e) == [failures |-> [i \in DOMAIN e.failures |-> More(e.failures[i], Window)],
             until |-> [e.until EXCEPT !.wait = Less(@)]]

\* The count of failures stays that of the entry as time passes.
LEMMA TickCounts ==
  ASSUME NEW e, IsEntry(e), NEW f \in Seq(0..Window - 1), Aged(f), CountedBy(e, f),
         NEW g, g = Recent([i \in DOMAIN f |-> f[i] + 1])
  PROVE  g \in Seq(0..Window - 1) /\ Aged(g) /\ CountedBy(Older(e), g)
<1>1. PICK h : h = [i \in DOMAIN f |-> f[i] + 1]
  OBVIOUS
<1>2. PICK W \in SUBSET Nat : W = 0..Window
  BY Limits
<1>3. h \in Seq(W) /\ Len(h) = Len(f) /\ DOMAIN h = DOMAIN f /\ Aged(h)
  BY <1>1, <1>2, OlderType
<1>4. g = Recent(h)
  BY <1>1
<1>5. g \in Seq(0..Window - 1) /\ Aged(g)
  BY <1>3, <1>4, RecentAged
<1>6. Len(g) <= Len(f) /\ Len(g) \in Nat /\ Len(f) \in Nat
  BY <1>3, <1>4, <1>5, RecentType, LenProperties
<1>7. PICK q, u : q = e.failures /\ u = e.until
  OBVIOUS
<1>8. q \in Seq(0..Window) /\ u \in Block
  BY <1>7 DEF IsEntry
<1>9. /\ Older(e).failures = [i \in DOMAIN q |-> More(q[i], Window)]
      /\ Older(e).until.blocked <=> u.blocked
      /\ Older(e).until.wait = Less(u.wait)
  BY <1>7, <1>8 DEF Older, Block
<1>10. ASSUME ~u.blocked PROVE g = Recent(Older(e).failures) /\ Len(g) < MaxFailures
  <2>1. f = Recent(q) /\ Len(f) < MaxFailures
    BY <1>7, <1>10 DEF CountedBy
  <2>2. Recent([i \in DOMAIN q |-> More(q[i], Window)]) = Recent(h)
    BY <1>1, <1>8, <2>1, RecentOlder
  <2>. QED
    BY <1>4, <1>6, <1>9, <2>1, <2>2, Limits
<1>11. ASSUME u.blocked, NEW i \in DOMAIN g
       PROVE  g[i] + CheckTime + Less(u.wait) >= BlockDuration
  <2>1. PICK k : Popped(h, k)
    BY <1>3, RecentPops
  <2>2. k \in 0..Len(h) /\ Len(g) = Len(h) - k /\ \A j \in 1..Len(h) - k : g[j] = h[k + j]
    <3>1. k \in 0..Len(h)
      BY <2>1 DEF Popped
    <3>2. Len(Recent(h)) = Len(h) - k /\ \A j \in 1..Len(h) - k : Recent(h)[j] = h[k + j]
      BY <1>3, <2>1, PoppedOnce
    <3>. QED
      BY <1>4, <3>1, <3>2
  <2>3. DOMAIN g = 1..Len(g) /\ DOMAIN f = 1..Len(f)
    BY <1>5, LenProperties
  <2>4. i \in 1..Len(h) - k
    BY <2>2, <2>3
  <2>5. k + i \in DOMAIN f
    BY <1>3, <1>6, <2>2, <2>3, <2>4
  <2>6. g[i] = f[k + i] + 1
    BY <1>1, <2>2, <2>4, <2>5
  <2>7. f[k + i] \in Nat
    <3>1. f[k + i] \in 0..Window - 1
      BY <2>3, <2>5, ElementOfSeq
    <3>. QED
      BY <3>1
  <2>8. f[k + i] + CheckTime + u.wait >= BlockDuration
    BY <1>7, <1>11, <2>5 DEF CountedBy
  <2>9. u.wait \in 0..BlockDuration
    BY <1>8 DEF Block
  <2>. QED
    <3>1. CASE u.wait = 0
      <4>1. Less(u.wait) = 0
        BY <3>1 DEF Less
      <4>. QED
        BY <2>6, <2>7, <2>8, <3>1, <4>1, Limits
    <3>2. CASE u.wait # 0
      <4>1. Less(u.wait) = u.wait - 1
        BY <3>2 DEF Less
      <4>2. PICK a, w : a = f[k + i] /\ w = u.wait
        OBVIOUS
      <4>3. a \in Nat /\ w \in Int /\ a + CheckTime + w >= BlockDuration
        BY <2>7, <2>8, <2>9, <4>2
      <4>4. (a + 1) + CheckTime + (w - 1) >= BlockDuration
        BY <4>3, Limits
      <4>. QED
        BY <2>6, <4>1, <4>2, <4>4
    <3>. QED
      BY <3>1, <3>2
<1>. QED
  BY <1>5, <1>9, <1>10, <1>11 DEF CountedBy

\* A check of a password that is under way began before the block did.
NoCheckSince == \A n \in Network : NoneBegan(n)

\* What is left of a block is a second, or more.
LEMMA BlockedRoundsUp ==
  ASSUME NEW t, NEW n, BlockedFor(t, n) = 0, Entries(t), EntryOf(t, n).until.blocked
  PROVE  EntryOf(t, n).until.wait = 0
<1>1. n \in DOMAIN t
  BY DEF EntryOf, NewEntry, NotBlocked
<1>2. PICK w \in Nat : w = t[n].until.wait
  BY <1>1, Limits DEF Entries, IsEntry, Block
<1>3. EntryOf(t, n) = t[n]
  BY <1>1 DEF EntryOf
<1>4. (w + Second - 1) \div Second = 0
  BY <1>1, <1>2, <1>3 DEF BlockedFor
<1>5. ASSUME w >= 1 PROVE FALSE
  <2>1. PICK S \in Nat : S = Second /\ S > 0
    BY Limits
  <2>2. (w + S - 1) \div S >= 1
    BY <1>5, <2>1
  <2>. QED
    BY <1>4, <2>1, <2>2
<1>. QED
  BY <1>2, <1>3, <1>5

\* A request that may go on is of a network that is not blocked.
LEMMA AttemptCounts ==
  ASSUME LoginTypes, FailuresCounted, NoCheckSince, NEW b \in Browser, Attempt(b)
  PROVE  /\ FailuresCounted' /\ NoCheckSince'
         /\ \A d \in Browser : pc[d] = "idle" /\ pc'[d] = "verify" => Len(failed[NetworkOf(d)]) < MaxFailures
<1>1. PICK n \in Network : n = NetworkOf(b)
  BY BrowserNetwork
<1>2. PICK t : t = m_table'
  OBVIOUS
<1>3. t = Looked(m_table, n) /\ failed' = failed /\ Entries(t)
  BY <1>1, <1>2, EntriesKept DEF Attempt, LoginTypes
<1>4. \A k \in Network : EntryOf(t, k) = IF k = n THEN expire(EntryOf(m_table, k)) ELSE EntryOf(m_table, k)
  BY <1>3, EntryAfter
<1>5. \A k \in Network : IsEntry(EntryOf(m_table, k))
  BY EntryOfType DEF LoginTypes
<1>6. \A k \in Network :
        /\ CountedBy(EntryOf(t, k), failed[k])
        /\ EntryOf(t, k).until.blocked =>
             EntryOf(m_table, k).until.blocked /\ EntryOf(t, k).until = EntryOf(m_table, k).until
  <2>. SUFFICES ASSUME NEW k \in Network
                PROVE  /\ CountedBy(EntryOf(t, k), failed[k])
                       /\ EntryOf(t, k).until.blocked =>
                            /\ EntryOf(m_table, k).until.blocked
                            /\ EntryOf(t, k).until = EntryOf(m_table, k).until
    OBVIOUS
  <2>1. PICK e : e = EntryOf(m_table, k)
    OBVIOUS
  <2>2. IsEntry(e) /\ failed[k] \in Seq(0..Window - 1) /\ CountedBy(e, failed[k])
    BY <1>5, <2>1 DEF FailuresCounted
  <2>3. /\ CountedBy(expire(e), failed[k])
        /\ expire(e).until.blocked => e.until.blocked /\ expire(e).until = e.until
    BY <2>2, CountedExpire, ExpireType
  <2>. QED
    BY <1>4, <2>1, <2>2, <2>3
<1>7. FailuresCounted'
  BY <1>2, <1>3, <1>6 DEF FailuresCounted
<1>8. CASE UNCHANGED <<pc, request>>
  <2>1. NoCheckSince'
    BY <1>2, <1>6, <1>8 DEF NoCheckSince, NoneBegan
  <2>. QED
    BY <1>7, <1>8, <2>1
<1>9. ASSUME ~(BlockedFor(t, n) > 0), NEW req, pc' = [pc EXCEPT ![b] = "verify"],
             request' = [request EXCEPT ![b] = [content |-> req, session |-> cookie[b], age |-> 0]]
      PROVE  /\ NoCheckSince'
             /\ \A d \in Browser : pc[d] = "idle" /\ pc'[d] = "verify" => Len(failed[NetworkOf(d)]) < MaxFailures
  <2>1. ~EntryOf(t, n).until.blocked
    <3>. SUFFICES ASSUME EntryOf(t, n).until.blocked PROVE FALSE
      OBVIOUS
    <3>1. BlockedFor(t, n) \in Nat
      <4>1. CASE n \in DOMAIN t /\ t[n].until.blocked
        <5>1. PICK w \in Nat : w = t[n].until.wait
          BY <1>3, <4>1, Limits DEF Entries, IsEntry, Block
        <5>2. PICK S \in Nat : S = Second /\ S > 0
          BY Limits
        <5>3. (w + S - 1) \div S \in Nat
          BY <5>2
        <5>. QED
          BY <4>1, <5>1, <5>2, <5>3 DEF BlockedFor
      <4>2. CASE ~(n \in DOMAIN t /\ t[n].until.blocked)
        BY <4>2 DEF BlockedFor
      <4>. QED
        BY <4>1, <4>2
    <3>2. BlockedFor(t, n) = 0
      BY <1>9, <3>1
    <3>3. EntryOf(t, n).until.wait = 0
      BY <1>3, <3>2, BlockedRoundsUp
    <3>4. EntryOf(t, n) = expire(EntryOf(m_table, n)) /\ IsEntry(EntryOf(m_table, n))
      BY <1>4, <1>5
    <3>. QED
      BY <3>3, <3>4, ExpireType
  <2>2. Len(failed[n]) < MaxFailures
    BY <1>6, <2>1 DEF CountedBy
  <2>3. \A d \in Browser \ {b} : pc'[d] = pc[d] /\ request'[d] = request[d]
    BY <1>9 DEF LoginTypes
  <2>4. ASSUME NEW k \in Network PROVE NoneBegan(k)'
    <3>. SUFFICES ASSUME EntryOf(t, k).until.blocked, NEW d \in Browser, NetworkOf(d) = k, pc'[d] = "verify"
                  PROVE  request'[d].age + EntryOf(t, k).until.wait >= BlockDuration
      BY <1>2 DEF NoneBegan
    <3>1. d # b
      BY <1>1, <2>1
    <3>2. pc[d] = "verify" /\ request'[d] = request[d]
      BY <2>3, <3>1
    <3>. QED
      BY <1>6, <3>2 DEF NoCheckSince, NoneBegan
  <2>5. NoCheckSince'
    BY <2>4 DEF NoCheckSince
  <2>6. \A d \in Browser : pc[d] = "idle" /\ pc'[d] = "verify" => d = b
    BY <2>3
  <2>. QED
    BY <1>1, <2>2, <2>5, <2>6
<1>. QED
  BY <1>1, <1>2, <1>7, <1>8, <1>9 DEF Attempt

\* The result of a check is counted; it began before the block, if there is one.
LEMMA RecordCounted ==
  ASSUME LoginTypes, FailuresCounted, NoCheckSince, NEW b \in Browser, Record(b)
  PROVE  FailuresCounted' /\ NoCheckSince'
<1>1. PICK n \in Network : n = NetworkOf(b)
  BY BrowserNetwork
<1>2. pc[b] = "verify"
  BY DEF Record
<1>3. \A d \in Browser : request[d].age \in 0..CheckTime
  BY DEF LoginTypes
<1>4. \A d \in Browser : pc'[d] = "verify" => pc[d] = "verify" /\ request'[d] = request[d]
  <2>1. PICK x : x # "verify" /\ pc' = [pc EXCEPT ![b] = x]
    BY DEF Record
  <2>2. request' = request \/ request' = [request EXCEPT ![b] = NoRequest]
    BY DEF Record
  <2>. QED
    BY <2>1, <2>2 DEF LoginTypes
<1>5. CASE m_table' = Without(m_table, n) /\ failed' = [failed EXCEPT ![n] = <<>>]
  <2>1. \A k \in Network : EntryOf(m_table', k) = IF k = n THEN NewEntry ELSE EntryOf(m_table, k)
    BY <1>5, EntryAfter
  <2>2. ~NewEntry.until.blocked
    BY DEF NewEntry, NotBlocked
  <2>3. FailuresCounted'
    BY <1>5, <2>1, NoFailures DEF FailuresCounted
  <2>4. NoCheckSince'
    BY <1>4, <2>1, <2>2 DEF NoCheckSince, NoneBegan
  <2>. QED
    BY <2>3, <2>4
<1>6. CASE RecordFailure(n)
  <2>1. EntryOf(m_table, n).until.blocked => CheckTime + EntryOf(m_table, n).until.wait >= BlockDuration
    <3>. SUFFICES ASSUME EntryOf(m_table, n).until.blocked
                  PROVE  CheckTime + EntryOf(m_table, n).until.wait >= BlockDuration
      OBVIOUS
    <3>1. request[b].age + EntryOf(m_table, n).until.wait >= BlockDuration
      BY <1>1, <1>2 DEF NoCheckSince, NoneBegan
    <3>2. EntryOf(m_table, n).until.wait \in 0..BlockDuration
      <4>1. IsEntry(EntryOf(m_table, n))
        BY EntryOfType DEF LoginTypes
      <4>. QED
        BY <4>1 DEF IsEntry, Block
    <3>3. PICK a, w : a = request[b].age /\ w = EntryOf(m_table, n).until.wait
      OBVIOUS
    <3>4. a \in 0..CheckTime /\ w \in 0..BlockDuration
      BY <1>3, <3>2, <3>3
    <3>5. a + w >= BlockDuration
      BY <3>1, <3>3
    <3>6. CheckTime + w >= BlockDuration
      BY <3>4, <3>5, Limits
    <3>. QED
      BY <3>3, <3>6
  <2>2. /\ FailuresCounted'
        /\ \A k \in Network : EntryOf(m_table', k).until.blocked =>
              \/ EntryOf(m_table', k).until.wait = BlockDuration
              \/ /\ EntryOf(m_table, k).until.blocked
                 /\ EntryOf(m_table', k).until = EntryOf(m_table, k).until
    BY <1>6, <2>1, RecordCounts DEF LoginTypes
  <2>3. ASSUME NEW k \in Network, EntryOf(m_table', k).until.blocked, NEW d \in Browser,
               NetworkOf(d) = k, pc'[d] = "verify"
        PROVE  request'[d].age + EntryOf(m_table', k).until.wait >= BlockDuration
    <3>1. pc[d] = "verify" /\ request'[d] = request[d]
      BY <1>4, <2>3
    <3>2. CASE EntryOf(m_table', k).until.wait = BlockDuration
      BY <1>3, <3>1, <3>2, Limits
    <3>3. CASE /\ EntryOf(m_table, k).until.blocked
               /\ EntryOf(m_table', k).until = EntryOf(m_table, k).until
      BY <2>3, <3>1, <3>3 DEF NoCheckSince, NoneBegan
    <3>. QED
      BY <2>2, <2>3, <3>2, <3>3
  <2>4. NoCheckSince'
    BY <2>3 DEF NoCheckSince, NoneBegan
  <2>. QED
    BY <2>2, <2>4
<1>. QED
  BY <1>1, <1>5, <1>6 DEF Record

\* A tick makes failures, blocks and checks older by the same.
LEMMA TickCounted ==
  ASSUME LoginTypes, FailuresCounted, NoCheckSince, Tick
  PROVE  FailuresCounted' /\ NoCheckSince'
<1>1. ASSUME NEW n \in Network PROVE EntryOf(m_table', n) = Older(EntryOf(m_table, n))
  <2>1. PICK t : t = m_table'
    OBVIOUS
  <2>2. t = [k \in DOMAIN m_table |-> Older(m_table[k])]
    BY <2>1 DEF Tick, Older
  <2>3. CASE n \in DOMAIN m_table
    BY <2>1, <2>2, <2>3 DEF EntryOf
  <2>4. CASE n \notin DOMAIN m_table
    <3>1. EntryOf(t, n) = NewEntry /\ EntryOf(m_table, n) = NewEntry
      BY <2>2, <2>4 DEF EntryOf
    <3>2. PICK q, u, e : /\ q = <<>> /\ u = [blocked |-> FALSE, wait |-> 0]
                         /\ e = [failures |-> q, until |-> u]
      OBVIOUS
    <3>3. NewEntry = e /\ e.failures = q /\ e.until = u
      BY <3>2 DEF NewEntry, NotBlocked
    <3>4. [i \in DOMAIN q |-> More(q[i], Window)] = q
      BY <3>2
    <3>5. [u EXCEPT !.wait = Less(@)] = u
      <4>1. Less(u.wait) = u.wait
        BY <3>2 DEF Less
      <4>. QED
        BY <3>2, <4>1
    <3>6. Older(e) = e
      BY <3>2, <3>3, <3>4, <3>5 DEF Older
    <3>. QED
      BY <2>1, <3>1, <3>3, <3>6
  <2>. QED
    BY <2>3, <2>4
<1>2. \A n \in Network : IsEntry(EntryOf(m_table, n))
  BY EntryOfType DEF LoginTypes
<1>3. ASSUME NEW n \in Network
      PROVE  failed'[n] \in Seq(0..Window - 1) /\ Aged(failed'[n]) /\ CountedBy(EntryOf(m_table', n), failed'[n])
  <2>1. failed'[n] = Recent([i \in DOMAIN failed[n] |-> failed[n][i] + 1])
    BY DEF Tick
  <2>2. PICK e, f, g : e = EntryOf(m_table, n) /\ f = failed[n] /\ g = failed'[n]
    OBVIOUS
  <2>3. IsEntry(e) /\ f \in Seq(0..Window - 1) /\ Aged(f) /\ CountedBy(e, f)
    BY <1>2, <2>2 DEF FailuresCounted
  <2>4. g \in Seq(0..Window - 1) /\ Aged(g) /\ CountedBy(Older(e), g)
    BY <2>1, <2>2, <2>3, TickCounts
  <2>. QED
    BY <1>1, <2>2, <2>4
<1>4. FailuresCounted'
  BY <1>3 DEF FailuresCounted, Tick
<1>5. ASSUME NEW n \in Network, EntryOf(m_table', n).until.blocked, NEW b \in Browser,
             NetworkOf(b) = n, pc'[b] = "verify"
      PROVE  request'[b].age + EntryOf(m_table', n).until.wait >= BlockDuration
  <2>1. pc[b] = "verify" /\ request'[b] = [request[b] EXCEPT !.age = @ + 1]
    BY <1>5 DEF Tick
  <2>2. request[b].age \in Nat /\ request'[b].age = request[b].age + 1
    BY <2>1, Limits DEF LoginTypes
  <2>3. PICK u : u = EntryOf(m_table, n).until
    OBVIOUS
  <2>4. u \in Block
    BY <1>2, <2>3 DEF IsEntry
  <2>5. EntryOf(m_table', n).until.wait = Less(u.wait) /\ u.blocked
    BY <1>1, <1>5, <2>3, <2>4 DEF Older, Block
  <2>6. u.wait \in Nat
    BY <2>4, Limits DEF Block
  <2>7. request[b].age + u.wait >= BlockDuration
    BY <1>5, <2>1, <2>3, <2>5 DEF NoCheckSince, NoneBegan
  <2>8. Less(u.wait) \in Nat /\ Less(u.wait) >= u.wait - 1
    BY <2>6 DEF Less
  <2>. QED
    BY <2>2, <2>5, <2>6, <2>7, <2>8, Limits
<1>6. NoCheckSince'
  BY <1>5 DEF NoCheckSince, NoneBegan
<1>. QED
  BY <1>4, <1>6

\* What is counted, and what no step begins during a block.
BlockInv == LoginTypes /\ FailuresCounted /\ NoCheckSince

\* A login keeps the count, and begins only below the limit.
LEMMA BlockStep ==
  ASSUME BlockInv, LoginNext
  PROVE  /\ BlockInv'
         /\ \A d \in Browser : pc[d] = "idle" /\ pc'[d] = "verify" => Len(failed[NetworkOf(d)]) < MaxFailures
<1>1. LoginTypes'
  BY LoginTypesStep DEF BlockInv
<1>2. ASSUME NEW b \in Browser, Destroy(b) \/ Create(b) \/ Authenticate(b) \/ Logout(b)
      PROVE  FailuresCounted' /\ NoCheckSince' /\ \A d \in Browser : pc[d] = "idle" => pc'[d] = "idle"
  <2>1. failed' = failed /\ m_table' = m_table
    BY <1>2 DEF Destroy, Create, Authenticate, Logout
  <2>2. \A d \in Browser : /\ pc'[d] = "verify" => pc[d] = "verify" /\ request'[d] = request[d]
                           /\ pc[d] = "idle" => pc'[d] = "idle"
    <3>1. CASE Destroy(b)
      BY <3>1 DEF Destroy, BlockInv, LoginTypes
    <3>2. CASE Create(b)
      BY <3>2 DEF Create, BlockInv, LoginTypes
    <3>3. CASE Authenticate(b) \/ Logout(b)
      BY <3>3 DEF Authenticate, Logout
    <3>. QED
      BY <1>2, <3>1, <3>2, <3>3
  <2>3. FailuresCounted'
    BY <2>1 DEF BlockInv, FailuresCounted
  <2>4. NoCheckSince'
    BY <2>1, <2>2 DEF BlockInv, NoCheckSince, NoneBegan
  <2>. QED
    BY <2>2, <2>3, <2>4
<1>3. ASSUME NEW b \in Browser, Record(b)
      PROVE  FailuresCounted' /\ NoCheckSince' /\ \A d \in Browser : pc[d] = "idle" => pc'[d] = "idle"
  <2>1. PICK x : pc' = [pc EXCEPT ![b] = x] /\ pc[b] # "idle"
    BY <1>3 DEF Record
  <2>2. \A d \in Browser : pc[d] = "idle" => pc'[d] = "idle"
    BY <2>1 DEF BlockInv, LoginTypes
  <2>. QED
    BY <1>3, <2>2, RecordCounted DEF BlockInv
<1>4. CASE Tick
  <2>1. pc' = pc
    BY <1>4 DEF Tick
  <2>. QED
    BY <1>1, <1>4, <2>1, TickCounted DEF BlockInv
<1>. QED
  BY <1>1, <1>2, <1>3, <1>4, AttemptCounts DEF BlockInv, LoginNext

\* At every step of the server, what a network has failed is counted.
THEOREM BlockInvariant == Spec => []BlockInv
<1>1. Init => FailuresCounted /\ NoCheckSince
  <2>. SUFFICES ASSUME Init PROVE FailuresCounted /\ NoCheckSince
    OBVIOUS
  <2>1. m_table = <<>> /\ failed = [n \in Network |-> <<>>] /\ pc = [b \in Browser |-> "idle"]
    BY DEF Init, LoginInit
  <2>2. \A n : EntryOf(m_table, n) = NewEntry
    <3>1. DOMAIN m_table = {}
      BY <2>1
    <3>. QED
      BY <3>1 DEF EntryOf
  <2>3. FailuresCounted
    BY <2>1, <2>2, NoFailures DEF FailuresCounted
  <2>4. NoCheckSince
    BY <2>1 DEF NoCheckSince, NoneBegan
  <2>. QED
    BY <2>3, <2>4
<1>2. LoginTypes /\ FailuresCounted /\ NoCheckSince /\ [Next]_serverVars => (FailuresCounted /\ NoCheckSince)'
  <2>1. ASSUME FailuresCounted, NoCheckSince, UNCHANGED loginVars PROVE (FailuresCounted /\ NoCheckSince)'
    BY <2>1 DEF loginVars, FailuresCounted, NoCheckSince, NoneBegan, CountedBy, EntryOf
  <2>. QED
    BY <2>1, BlockStep DEF Next, serverVars, BlockInv
<1>. QED
  BY <1>1, <1>2, LoginTyped, PTL DEF Spec, BlockInv

\* A check of a password begins only when its network has failed fewer times in
\* the window than it takes to block it, whichever checks were under way when the
\* block began, and however the clock ticks between the critical sections.
THEOREM BlocksAreServed == Spec => BlockServed
<1>1. BlockInv /\ [Next]_serverVars =>
        [\A b \in Browser :
           pc[b] = "idle" /\ pc'[b] = "verify" => Len(failed[NetworkOf(b)]) < MaxFailures]_loginVars
  BY BlockStep DEF Next, serverVars
<1>. QED
  BY <1>1, BlockInvariant, PTL DEF Spec, BlockServed

-----------------------------------------------------------------------------
(* Everything has its type.                                                *)

Scalars ==
  /\ part \in Part
  /\ listening \in {"waiting", "ready", "failed", "check", "start", "over"}
  /\ {m_stopped, closed} \subseteq BOOLEAN
  /\ main \in {"running", "stopping", "closed", "down", "joined"}
  /\ need_close \in [Connection -> BOOLEAN] /\ requests \in [Connection -> 0..MaxRequests]
  /\ m_connections \subseteq Connection

\* What is posted to a strand: packets, and at most once to close.
ClosesAt(q) == {i \in DOMAIN q : q[i] = 0}
PacketsAt(q) == {i \in DOMAIN q : q[i] # 0}
ClosesOnce(q) == \A i, j \in ClosesAt(q) : i = j

\* The packets of a websocket are within their bound, those that are posted
\* included, and only shutdown() posts to close it.
PacketsInv(c) ==
  /\ posted[c] \in Seq(0..MaxPackets)
  /\ ws[c].m_send_buffer \in Seq(1..MaxPackets)
  /\ ClosesOnce(posted[c])
  /\ ClosesAt(posted[c]) # {} => main \in {"down", "joined"}
  /\ Len(accepted[c]) + Cardinality(PacketsAt(posted[c])) <= MaxPackets

BoundsInv == Scalars /\ \A c \in Connection : PacketsInv(c)

\* All that is posted but the close is packets.
LEMMA PacketsCount ==
  ASSUME NEW q \in Seq(Nat), ClosesOnce(q)
  PROVE  /\ ClosesAt(q) = {} => Cardinality(PacketsAt(q)) = Len(q)
         /\ ClosesAt(q) # {} => Cardinality(PacketsAt(q)) = Len(q) - 1
<1>1. PICK n \in Nat : n = Len(q)
  BY LenProperties
<1>2. DOMAIN q = 1..n
  BY <1>1, LenProperties
<1>3. IsFiniteSet(1..n) /\ Cardinality(1..n) = n
  BY FS_Interval
<1>4. CASE ClosesAt(q) = {}
  <2>1. PacketsAt(q) = 1..n
    BY <1>2, <1>4 DEF ClosesAt, PacketsAt
  <2>. QED
    BY <1>1, <1>3, <1>4, <2>1
<1>5. CASE ClosesAt(q) # {}
  <2>1. PICK z : z \in ClosesAt(q)
    BY <1>5
  <2>2. PacketsAt(q) = (1..n) \ {z} /\ z \in 1..n
    BY <1>2, <2>1 DEF ClosesAt, PacketsAt, ClosesOnce
  <2>3. Cardinality((1..n) \ {z}) = n - 1
    BY <1>3, <2>2, FS_RemoveElement
  <2>. QED
    BY <1>1, <1>5, <2>2, <2>3
<1>. QED
  BY <1>4, <1>5

\* There are finitely many.
LEMMA PacketsFinite ==
  ASSUME NEW S, NEW q \in Seq(S)
  PROVE  Cardinality(PacketsAt(q)) \in Nat
<1>1. PICK n \in Nat : n = Len(q)
  BY LenProperties
<1>2. DOMAIN q = 1..n
  BY <1>1, LenProperties
<1>3. PacketsAt(q) \subseteq 1..n /\ IsFiniteSet(1..n)
  BY <1>2, FS_Interval DEF PacketsAt
<1>. QED
  BY <1>3, FS_Subset, FS_CardinalityType

\* The first of what is posted is run.
LEMMA PacketsTail ==
  ASSUME NEW q \in Seq(0..MaxPackets), q # <<>>, ClosesOnce(q)
  PROVE  /\ Tail(q) \in Seq(0..MaxPackets) /\ Head(q) \in 0..MaxPackets /\ ClosesOnce(Tail(q))
         /\ ClosesAt(Tail(q)) # {} => ClosesAt(q) # {}
         /\ Cardinality(PacketsAt(q)) \in Nat
         /\ Cardinality(PacketsAt(Tail(q)))
              = IF Head(q) = 0 THEN Cardinality(PacketsAt(q)) ELSE Cardinality(PacketsAt(q)) - 1
<1>. DEFINE M == 0..MaxPackets
<1>1. PICK n \in Nat : n = Len(q)
  BY LenProperties
<1>2. PICK t, h : t = Tail(q) /\ h = Head(q)
  OBVIOUS
<1>3. /\ h \in M /\ t \in Seq(M) /\ Len(t) = n - 1 /\ n >= 1
      /\ \A i \in 1..n - 1 : t[i] = q[i + 1]
  <2>1. h \in M /\ t \in Seq(M) /\ Len(t) = n - 1 /\ \A i \in 1..Len(t) : t[i] = q[i + 1]
    BY <1>1, <1>2, HeadTailProperties
  <2>2. n # 0
    BY <1>1, EmptySeq
  <2>. QED
    BY <2>1, <2>2
<1>4. DOMAIN q = 1..n /\ DOMAIN t = 1..n - 1 /\ h = q[1]
  BY <1>1, <1>2, <1>3, LenProperties
<1>5. \A i \in ClosesAt(t) : i + 1 \in ClosesAt(q)
  BY <1>3, <1>4 DEF ClosesAt
<1>6. ClosesOnce(t)
  <2>. SUFFICES ASSUME NEW i \in ClosesAt(t), NEW j \in ClosesAt(t) PROVE i = j
    BY DEF ClosesOnce
  <2>1. i + 1 = j + 1
    BY <1>5 DEF ClosesOnce
  <2>2. i \in Int /\ j \in Int
    BY <1>4 DEF ClosesAt
  <2>. QED
    BY <2>1, <2>2
<1>7. h = 0 => ClosesAt(t) = {} /\ ClosesAt(q) # {}
  <2>. SUFFICES ASSUME h = 0 PROVE ClosesAt(t) = {} /\ ClosesAt(q) # {}
    OBVIOUS
  <2>1. 1 \in ClosesAt(q)
    BY <1>3, <1>4 DEF ClosesAt
  <2>2. ASSUME NEW i \in ClosesAt(t) PROVE FALSE
    <3>1. i + 1 = 1 /\ i \in 1..n - 1
      BY <1>4, <1>5, <2>1, <2>2 DEF ClosesOnce, ClosesAt
    <3>. QED
      BY <3>1
  <2>. QED
    BY <2>1, <2>2
<1>8. h # 0 => (ClosesAt(t) # {} <=> ClosesAt(q) # {})
  <2>. SUFFICES ASSUME h # 0, NEW i \in ClosesAt(q) PROVE ClosesAt(t) # {}
    BY <1>5
  <2>1. i \in 2..n /\ q[i] = 0
    BY <1>4 DEF ClosesAt
  <2>2. i - 1 \in 1..n - 1 /\ t[i - 1] = q[(i - 1) + 1] /\ (i - 1) + 1 = i
    BY <1>3, <2>1
  <2>3. i - 1 \in ClosesAt(t)
    BY <1>4, <2>1, <2>2 DEF ClosesAt
  <2>. QED
    BY <2>3
<1>9. q \in Seq(Nat) /\ t \in Seq(Nat)
  <2>1. M \subseteq Nat
    OBVIOUS
  <2>. QED
    BY <1>3, <2>1, SeqMonotonic
<1>10. /\ ClosesAt(q) = {} => Cardinality(PacketsAt(q)) = n
       /\ ClosesAt(q) # {} => Cardinality(PacketsAt(q)) = n - 1
       /\ ClosesAt(t) = {} => Cardinality(PacketsAt(t)) = n - 1
       /\ ClosesAt(t) # {} => Cardinality(PacketsAt(t)) = n - 1 - 1
  BY <1>1, <1>3, <1>6, <1>9, PacketsCount
<1>11. Cardinality(PacketsAt(q)) \in Nat
  BY <1>3, <1>10
<1>12. Cardinality(PacketsAt(t)) = IF h = 0 THEN Cardinality(PacketsAt(q)) ELSE Cardinality(PacketsAt(q)) - 1
  BY <1>3, <1>7, <1>8, <1>10
<1>. QED
  BY <1>2, <1>3, <1>5, <1>6, <1>11, <1>12

\* Something more is posted.
LEMMA PacketsPosted ==
  ASSUME NEW q \in Seq(0..MaxPackets), ClosesOnce(q), NEW p \in 0..MaxPackets,
         p = 0 => ClosesAt(q) = {}
  PROVE  /\ Append(q, p) \in Seq(0..MaxPackets) /\ ClosesOnce(Append(q, p))
         /\ ClosesAt(Append(q, p)) # {} <=> ClosesAt(q) # {} \/ p = 0
         /\ Cardinality(PacketsAt(q)) \in Nat
         /\ Cardinality(PacketsAt(Append(q, p)))
              = IF p = 0 THEN Cardinality(PacketsAt(q)) ELSE Cardinality(PacketsAt(q)) + 1
<1>. DEFINE M == 0..MaxPackets
<1>1. PICK n \in Nat : n = Len(q)
  BY LenProperties
<1>2. PICK r : r = Append(q, p)
  OBVIOUS
<1>3. /\ r \in Seq(M) /\ Len(r) = n + 1 /\ r[n + 1] = p
      /\ \A i \in 1..n : r[i] = q[i]
  BY <1>1, <1>2, AppendProperties
<1>4. DOMAIN q = 1..n /\ DOMAIN r = 1..n + 1
  BY <1>1, <1>3, LenProperties
<1>5. ClosesAt(r) = IF p = 0 THEN {n + 1} ELSE ClosesAt(q)
  <2>1. CASE p = 0
    <3>1. \A i \in 1..n : q[i] # 0
      BY <1>4, <2>1 DEF ClosesAt
    <3>. QED
      BY <1>3, <1>4, <2>1, <3>1 DEF ClosesAt
  <2>2. CASE p # 0
    BY <1>3, <1>4, <2>2 DEF ClosesAt
  <2>. QED
    BY <2>1, <2>2
<1>6. ClosesOnce(r) /\ (ClosesAt(r) # {} <=> ClosesAt(q) # {} \/ p = 0)
  BY <1>5 DEF ClosesOnce
<1>7. q \in Seq(Nat) /\ r \in Seq(Nat)
  <2>1. M \subseteq Nat
    OBVIOUS
  <2>. QED
    BY <1>3, <2>1, SeqMonotonic
<1>8. /\ ClosesAt(q) = {} => Cardinality(PacketsAt(q)) = n
      /\ ClosesAt(q) # {} => Cardinality(PacketsAt(q)) = n - 1
      /\ ClosesAt(r) = {} => Cardinality(PacketsAt(r)) = n + 1
      /\ ClosesAt(r) # {} => Cardinality(PacketsAt(r)) = n + 1 - 1
  BY <1>1, <1>3, <1>6, <1>7, PacketsCount
<1>9. ClosesAt(q) # {} => n >= 1
  BY <1>4 DEF ClosesAt
<1>10. Cardinality(PacketsAt(q)) \in Nat
  BY <1>8, <1>9
<1>11. Cardinality(PacketsAt(r)) = IF p = 0 THEN Cardinality(PacketsAt(q)) ELSE Cardinality(PacketsAt(q)) + 1
  BY <1>6, <1>8
<1>. QED
  BY <1>2, <1>3, <1>6, <1>10, <1>11

\* A step of websocket c keeps the packets within their bound.
LEMMA SocketBounds ==
  ASSUME BoundsInv, ConnectionTypes, NEW c \in Connection, main' = main,
         NEW w, ws' = [ws EXCEPT ![c] = w], w.m_send_buffer \in Seq(1..MaxPackets),
         NEW q \in Seq(0..MaxPackets), posted' = [posted EXCEPT ![c] = q],
         ClosesOnce(q), ClosesAt(q) # {} => ClosesAt(posted[c]) # {},
         NEW a, accepted' = [accepted EXCEPT ![c] = a],
         Len(a) + Cardinality(PacketsAt(q)) <= MaxPackets
  PROVE  \A e \in Connection : PacketsInv(e)'
<1>. SUFFICES ASSUME NEW e \in Connection PROVE PacketsInv(e)'
  OBVIOUS
<1>1. PacketsInv(e) /\ PacketsInv(c)
  BY DEF BoundsInv
<1>2. CASE e = c
  <2>1. ws'[e] = w /\ posted'[e] = q /\ accepted'[e] = a
    BY <1>2 DEF ConnectionTypes
  <2>. QED
    BY <1>1, <1>2, <2>1 DEF PacketsInv
<1>3. CASE e # c
  <2>1. ws'[e] = ws[e] /\ posted'[e] = posted[e] /\ accepted'[e] = accepted[e]
    BY <1>3 DEF ConnectionTypes
  <2>. QED
    BY <1>1, <2>1 DEF PacketsInv
<1>. QED
  BY <1>2, <1>3

\* So does one that posts nothing and accepts nothing.
LEMMA BufferBounds ==
  ASSUME BoundsInv, ConnectionTypes, NEW c \in Connection, UNCHANGED <<main, posted, accepted>>,
         NEW w, ws' = [ws EXCEPT ![c] = w], w.m_send_buffer \in Seq(1..MaxPackets)
  PROVE  \A e \in Connection : PacketsInv(e)'
<1>1. posted' = [posted EXCEPT ![c] = posted[c]] /\ accepted' = [accepted EXCEPT ![c] = accepted[c]]
  BY DEF ConnectionTypes
<1>2. PacketsInv(c)
  BY DEF BoundsInv
<1>. QED
  BY <1>1, <1>2, SocketBounds DEF PacketsInv

\* What close() and send_packet() make of the buffer.
LEMMA BufferAfter ==
  ASSUME NEW w \in Socket, NEW p
  PROVE  /\ Closing(w).m_send_buffer = w.m_send_buffer
         /\ Sending(w, p).m_send_buffer
              = IF w.m_stopping THEN w.m_send_buffer ELSE Append(w.m_send_buffer, p)
<1>1. PICK b : b = Append(w.m_send_buffer, p)
  OBVIOUS
<1>2. Sending(w, p) = IF w.m_stopping THEN w ELSE [w EXCEPT !.m_send_buffer = b]
  BY <1>1 DEF Sending
<1>3. Sending(w, p).m_send_buffer = IF w.m_stopping THEN w.m_send_buffer ELSE b
  BY <1>2 DEF Socket
<1>4. Closing(w).m_send_buffer = w.m_send_buffer
  BY DEF Closing, Socket
<1>. QED
  BY <1>1, <1>3, <1>4

\* The packets stay within their bound at every step.
LEMMA PacketsStep ==
  ASSUME BoundsInv, ConnectionInv, ConnectionsNext
  PROVE  \A e \in Connection : PacketsInv(e)'
<1>. DEFINE P == 1..MaxPackets
            M == 0..MaxPackets
<1>1. ConnectionTypes /\ \A c \in Connection : PacketsInv(c) /\ ws[c] \in Socket
  BY DEF ConnectionInv, BoundsInv, ConnectionTypes
<1>2. ASSUME UNCHANGED wsVars, main \in {"down", "joined"} => main' \in {"down", "joined"},
             NEW e \in Connection
      PROVE  PacketsInv(e)'
  BY <1>1, <1>2 DEF wsVars, PacketsInv
<1>3. ASSUME OnAccept \/ DoAccept \/ AsyncAccept \/ Stop \/ CloseAcceptor \/ Join
      PROVE  UNCHANGED wsVars /\ (main \in {"down", "joined"} => main' \in {"down", "joined"})
  BY <1>3 DEF OnAccept, DoAccept, AsyncAccept, Stop, CloseAcceptor, Join
<1>4. ASSUME NEW c \in Connection,
             Arrives(c) \/ OnHandshake(c) \/ ReadEnds(c) \/ Done(c) \/ OnHttpShutdown(c)
      PROVE  UNCHANGED wsVars /\ main' = main
  BY <1>4 DEF Arrives, OnHandshake, ReadEnds, Done, OnHttpShutdown
<1>5. ASSUME NEW c \in Connection, OnRead(c), NEW e \in Connection PROVE PacketsInv(e)'
  <2>1. main' = main /\ (Upgrade(c) \/ UNCHANGED wsVars)
    BY <1>5 DEF OnRead, Respond
  <2>2. CASE Upgrade(c)
    <3>1. PICK q, n, w : /\ q = <<>>
                         /\ n = [stage |-> "none", reading |-> FALSE, m_send_buffer |-> q,
                                 m_stopping |-> FALSE, closing |-> "no"]
                         /\ w = [n EXCEPT !.stage = "accepting"]
      OBVIOUS
    <3>2. n = NoSocket /\ w.m_send_buffer = q /\ q \in Seq(P)
      BY <3>1 DEF NoSocket
    <3>3. ws' = [ws EXCEPT ![c] = w] /\ UNCHANGED <<posted, accepted>>
      BY <2>2, <3>1, <3>2 DEF Upgrade
    <3>. QED
      BY <1>1, <2>1, <3>2, <3>3, BufferBounds
  <2>. QED
    BY <1>2, <2>1, <2>2
<1>6. ASSUME NEW c \in Connection, Run(c) PROVE \A e \in Connection : PacketsInv(e)'
  <2>1. PICK w, q, p : w = ws[c] /\ q = posted[c] /\ p = Head(q)
    OBVIOUS
  <2>2. /\ w \in Socket /\ q \in Seq(M) /\ q # <<>> /\ ClosesOnce(q)
        /\ w.m_send_buffer \in Seq(P) /\ accepted[c] \in Seq(Nat)
        /\ Len(accepted[c]) + Cardinality(PacketsAt(q)) <= MaxPackets
        /\ main' = main
    BY <1>1, <1>6, <2>1 DEF Run, PacketsInv, ConnectionTypes
  <2>3. PICK t, k, m, l : /\ t = Tail(q) /\ k = Cardinality(PacketsAt(q))
                          /\ m = Cardinality(PacketsAt(t)) /\ l = Len(accepted[c])
    OBVIOUS
  <2>4. /\ t \in Seq(M) /\ p \in M /\ ClosesOnce(t)
        /\ ClosesAt(t) # {} => ClosesAt(q) # {}
        /\ k \in Nat
        /\ m = IF p = 0 THEN k ELSE k - 1
    BY <2>1, <2>2, <2>3, PacketsTail
  <2>5. l \in Nat /\ l + k <= MaxPackets /\ MaxPackets \in Nat
    BY <2>2, <2>3, LenProperties, ConnectionsAssumption
  <2>6. posted' = [posted EXCEPT ![c] = t]
    BY <1>6, <2>1, <2>3 DEF Run
  <2>7. CASE p = 0
    <3>1. ws' = [ws EXCEPT ![c] = Closing(w)] /\ accepted' = [accepted EXCEPT ![c] = accepted[c]]
      BY <1>1, <1>6, <2>1, <2>7 DEF Run, ConnectionTypes
    <3>2. Closing(w).m_send_buffer \in Seq(P)
      BY <2>2, BufferAfter
    <3>3. Len(accepted[c]) + Cardinality(PacketsAt(t)) <= MaxPackets
      BY <2>3, <2>4, <2>5, <2>7
    <3>. QED
      BY <1>1, <2>1, <2>2, <2>4, <2>6, <3>1, <3>2, <3>3, SocketBounds
  <2>8. CASE p # 0
    <3>1. PICK a : a = IF w.m_stopping THEN accepted[c] ELSE Append(accepted[c], p)
      OBVIOUS
    <3>2. ws' = [ws EXCEPT ![c] = Sending(w, p)] /\ accepted' = [accepted EXCEPT ![c] = a]
      BY <1>6, <2>1, <2>8, <3>1 DEF Run, Sent
    <3>3. p \in P
      BY <2>4, <2>8
    <3>4. Sending(w, p).m_send_buffer \in Seq(P)
      <4>1. Append(w.m_send_buffer, p) \in Seq(P)
        BY <2>2, <3>3, AppendProperties
      <4>. QED
        BY <2>2, <4>1, BufferAfter
    <3>5. Len(a) <= l + 1 /\ Len(a) \in Nat
      <4>1. Len(Append(accepted[c], p)) = l + 1
        BY <2>2, <2>3, <2>4, AppendProperties
      <4>. QED
        BY <2>3, <2>5, <3>1, <4>1
    <3>6. Len(a) + m <= MaxPackets
      BY <2>4, <2>5, <2>8, <3>5
    <3>. QED
      BY <1>1, <2>1, <2>2, <2>3, <2>4, <2>6, <3>2, <3>4, <3>6, SocketBounds
  <2>. QED
    BY <2>7, <2>8
<1>7. ASSUME NEW c \in Connection, OnWsAccept(c) PROVE \A e \in Connection : PacketsInv(e)'
  <2>1. PICK w, o : w = ws[c] /\ o = [w EXCEPT !.stage = "open"]
    OBVIOUS
  <2>2. PICK r \in BOOLEAN : r = ~w.m_stopping
    BY <1>1, <2>1 DEF Socket
  <2>3. PICK q : q = [o EXCEPT !.reading = r]
    OBVIOUS
  <2>4. o \in Socket /\ o.m_send_buffer = w.m_send_buffer /\ q.m_send_buffer = w.m_send_buffer
    BY <1>1, <2>1, <2>2, <2>3 DEF Socket
  <2>5. PICK x \in {q, Closing(o)} : ws' = [ws EXCEPT ![c] = x]
    BY <1>7, <2>1, <2>2, <2>3 DEF OnWsAccept
  <2>6. x.m_send_buffer = w.m_send_buffer
    BY <2>4, <2>5, BufferAfter
  <2>7. w.m_send_buffer \in Seq(P)
    BY <1>1, <2>1 DEF PacketsInv
  <2>. QED
    BY <1>1, <1>7, <2>5, <2>6, <2>7, BufferBounds DEF OnWsAccept
<1>8. ASSUME NEW c \in Connection, OnWsRead(c) PROVE \A e \in Connection : PacketsInv(e)'
  <2>1. PICK w, i, p, l, k : /\ w = ws[c] /\ i = [w EXCEPT !.reading = FALSE] /\ p = Next_(c)
                             /\ l = Len(accepted[c]) /\ k = Cardinality(PacketsAt(posted[c]))
    OBVIOUS
  <2>2. /\ w \in Socket /\ i \in Socket /\ i.m_send_buffer = w.m_send_buffer
        /\ w.m_send_buffer \in Seq(P) /\ i.m_stopping = w.m_stopping
    BY <1>1, <2>1 DEF Socket, PacketsInv
  <2>3. p = l + k + 1
    BY <2>1 DEF Next_, PacketsAt
  <2>4. l \in Nat /\ k \in Nat /\ l + k <= MaxPackets /\ MaxPackets \in Nat
    <3>1. posted[c] \in Seq(M) /\ ClosesOnce(posted[c]) /\ accepted[c] \in Seq(Nat)
      BY <1>1 DEF PacketsInv, ConnectionTypes
    <3>2. MaxPackets \in Nat
      BY ConnectionsAssumption
    <3>3. k \in Nat
      BY <2>1, <3>1, PacketsFinite
    <3>. QED
      BY <1>1, <2>1, <3>1, <3>2, <3>3, LenProperties DEF PacketsInv
  <2>5. CASE \E x \in {Closing(i), i} : ws' = [ws EXCEPT ![c] = x] /\ UNCHANGED accepted
    <3>1. PICK x \in {Closing(i), i} : ws' = [ws EXCEPT ![c] = x] /\ UNCHANGED accepted
      BY <2>5
    <3>2. x.m_send_buffer = w.m_send_buffer
      BY <2>2, <3>1, BufferAfter
    <3>. QED
      BY <1>1, <1>8, <2>2, <3>1, <3>2, BufferBounds DEF OnWsRead
  <2>6. CASE /\ ~w.m_stopping /\ p <= MaxPackets /\ Sent(c, p)
             /\ \E x \in {Closing(Sending(i, p)), Sending(w, p)} : ws' = [ws EXCEPT ![c] = x]
    <3>1. PICK x \in {Closing(Sending(i, p)), Sending(w, p)} : ws' = [ws EXCEPT ![c] = x]
      BY <2>6
    <3>2. PICK b, a : b = Append(w.m_send_buffer, p) /\ a = Append(accepted[c], p)
      OBVIOUS
    <3>3. p \in P /\ p \in Nat
      BY <2>3, <2>4, <2>6
    <3>4. Sending(i, p) \in Socket
      <4>1. PICK g : g = Append(i.m_send_buffer, p)
        OBVIOUS
      <4>2. i.m_send_buffer \in Seq(Nat)
        BY <2>2 DEF Socket
      <4>3. g \in Seq(Nat)
        BY <3>3, <4>1, <4>2, AppendProperties
      <4>4. Sending(i, p) = [i EXCEPT !.m_send_buffer = g]
        BY <2>2, <2>6, <4>1 DEF Sending
      <4>. QED
        BY <2>2, <4>3, <4>4 DEF Socket
    <3>5. x.m_send_buffer = b
      <4>1. Sending(i, p).m_send_buffer = b /\ Sending(w, p).m_send_buffer = b
        BY <2>2, <2>6, <3>2, BufferAfter
      <4>2. Closing(Sending(i, p)).m_send_buffer = b
        BY <3>4, <4>1, BufferAfter
      <4>. QED
        BY <3>1, <4>1, <4>2
    <3>6. b \in Seq(P)
      BY <2>2, <3>2, <3>3, AppendProperties
    <3>7. accepted' = [accepted EXCEPT ![c] = a]
      BY <2>1, <2>6, <3>2 DEF Sent
    <3>8. Len(a) = l + 1
      BY <1>1, <2>1, <3>2, <3>3, AppendProperties DEF ConnectionTypes
    <3>9. Len(a) + k <= MaxPackets
      BY <2>3, <2>4, <2>6, <3>8
    <3>10. posted' = posted /\ posted' = [posted EXCEPT ![c] = posted[c]] /\ main' = main
      BY <1>1, <1>8 DEF OnWsRead, ConnectionTypes
    <3>. QED
      BY <1>1, <2>1, <3>1, <3>5, <3>6, <3>7, <3>9, <3>10, SocketBounds DEF PacketsInv
  <2>. QED
    BY <1>8, <2>1, <2>5, <2>6 DEF OnWsRead
<1>9. ASSUME NEW c \in Connection, OnSend(c) PROVE \A e \in Connection : PacketsInv(e)'
  <2>1. PICK w : w = ws[c]
    OBVIOUS
  <2>2. w \in Socket /\ w.m_send_buffer \in Seq(P) /\ w.m_send_buffer # <<>>
    BY <1>1, <1>9, <2>1 DEF PacketsInv, OnSend
  <2>3. PICK t, q : t = Tail(w.m_send_buffer) /\ q = <<>>
    OBVIOUS
  <2>4. t \in Seq(P) /\ q \in Seq(P) /\ q \in Seq(Nat)
    <3>1. t \in Seq(P)
      BY <2>2, <2>3, HeadTailProperties
    <3>. QED
      BY <2>3, <3>1
  <2>5. PICK x : x = IF w.m_stopping /\ Len(w.m_send_buffer) = 1 THEN "close" ELSE w.closing
    OBVIOUS
  <2>6. PICK y, z : y = [w EXCEPT !.m_send_buffer = t, !.closing = x] /\ z = [w EXCEPT !.m_send_buffer = q]
    OBVIOUS
  <2>7. y.m_send_buffer = t /\ z.m_send_buffer = q /\ z \in Socket
    BY <2>2, <2>4, <2>6 DEF Socket
  <2>8. Closing(z).m_send_buffer = q
    BY <2>7, BufferAfter
  <2>9. ws' = [ws EXCEPT ![c] = y] \/ ws' = [ws EXCEPT ![c] = Closing(z)]
    <3>1. CASE ws' = [ws EXCEPT ![c].m_send_buffer = Tail(@),
                                ![c].closing = IF ws[c].m_stopping /\ Len(ws[c].m_send_buffer) = 1
                                               THEN "close" ELSE @]
      BY <1>1, <2>1, <2>2, <2>3, <2>5, <2>6, <3>1 DEF ConnectionTypes, Socket
    <3>2. CASE ws' = [ws EXCEPT ![c] = Closing([@ EXCEPT !.m_send_buffer = <<>>])]
      BY <1>1, <2>1, <2>3, <2>6, <3>2 DEF ConnectionTypes
    <3>. QED
      BY <1>9, <3>1, <3>2 DEF OnSend
  <2>10. UNCHANGED <<main, posted, accepted>>
    BY <1>9 DEF OnSend
  <2>11. CASE ws' = [ws EXCEPT ![c] = y]
    BY <1>1, <2>4, <2>7, <2>10, <2>11, BufferBounds
  <2>12. CASE ws' = [ws EXCEPT ![c] = Closing(z)]
    BY <1>1, <2>4, <2>8, <2>10, <2>12, BufferBounds
  <2>. QED
    BY <2>9, <2>11, <2>12
<1>10. ASSUME NEW c \in Connection, OnClosed(c) PROVE \A e \in Connection : PacketsInv(e)'
  <2>1. PICK w, x : w = ws[c] /\ x = IF w.closing = "close" THEN "shutdown" ELSE "done"
    OBVIOUS
  <2>2. PICK y : y = [w EXCEPT !.closing = x]
    OBVIOUS
  <2>3. y.m_send_buffer = w.m_send_buffer /\ w.m_send_buffer \in Seq(P)
    BY <1>1, <2>1, <2>2 DEF Socket, PacketsInv
  <2>4. ws' = [ws EXCEPT ![c] = y] /\ UNCHANGED <<main, posted, accepted>>
    BY <1>1, <1>10, <2>1, <2>2 DEF OnClosed, ConnectionTypes
  <2>. QED
    BY <1>1, <2>3, <2>4, BufferBounds
<1>11. ASSUME NEW c \in Connection, SendLater(c) PROVE \A e \in Connection : PacketsInv(e)'
  <2>1. PICK q, p, l, k : /\ q = posted[c] /\ p = Next_(c)
                          /\ l = Len(accepted[c]) /\ k = Cardinality(PacketsAt(q))
    OBVIOUS
  <2>2. /\ q \in Seq(M) /\ ClosesOnce(q) /\ accepted[c] \in Seq(Nat) /\ l \in Nat
        /\ ws[c].m_send_buffer \in Seq(P) /\ p <= MaxPackets /\ MaxPackets \in Nat
    BY <1>1, <1>11, <2>1, LenProperties, ConnectionsAssumption DEF SendLater, PacketsInv, ConnectionTypes
  <2>3. p = l + k + 1 /\ p \in Nat
    BY <1>1, <2>1, NextPacket DEF Next_, PacketsAt
  <2>4. k \in Nat
    BY <2>1, <2>2, PacketsFinite
  <2>5. p \in M /\ p # 0
    BY <2>2, <2>3, <2>4
  <2>6. PICK r : r = Append(q, p)
    OBVIOUS
  <2>7. /\ r \in Seq(M) /\ ClosesOnce(r)
        /\ ClosesAt(r) # {} => ClosesAt(q) # {}
        /\ Cardinality(PacketsAt(r)) = k + 1
    BY <2>1, <2>2, <2>5, <2>6, PacketsPosted
  <2>8. l + (k + 1) <= MaxPackets
    BY <2>2, <2>3, <2>4
  <2>9. /\ posted' = [posted EXCEPT ![c] = r] /\ main' = main
        /\ ws' = [ws EXCEPT ![c] = ws[c]] /\ accepted' = [accepted EXCEPT ![c] = accepted[c]]
    BY <1>1, <1>11, <2>1, <2>6 DEF SendLater, ConnectionTypes
  <2>10. Len(accepted[c]) + Cardinality(PacketsAt(r)) <= MaxPackets
    BY <2>1, <2>7, <2>8
  <2>. QED
    BY <1>1, <2>1, <2>2, <2>7, <2>9, <2>10, SocketBounds
<1>12. ASSUME Shutdown, NEW e \in Connection PROVE PacketsInv(e)'
  <2>1. main = "closed" /\ main' = "down" /\ ws' = ws /\ accepted' = accepted
    BY <1>12 DEF Shutdown
  <2>2. posted'[e] \in {posted[e], Append(posted[e], 0)}
    BY <1>12 DEF Shutdown
  <2>3. PICK q, r : q = posted[e] /\ r = Append(q, 0)
    OBVIOUS
  <2>4. q \in Seq(M) /\ ClosesOnce(q) /\ ClosesAt(q) = {} /\ 0 \in M
    <3>1. MaxPackets \in Nat
      BY ConnectionsAssumption
    <3>2. PacketsInv(e)
      BY <1>1
    <3>. QED
      BY <2>1, <2>3, <3>1, <3>2 DEF PacketsInv
  <2>5. r \in Seq(M) /\ ClosesOnce(r) /\ Cardinality(PacketsAt(r)) = Cardinality(PacketsAt(q))
    BY <2>3, <2>4, PacketsPosted
  <2>. QED
    BY <1>1, <2>1, <2>2, <2>3, <2>5 DEF PacketsInv
<1>. QED
  BY <1>2, <1>3, <1>4, <1>5, <1>6, <1>7, <1>8, <1>9, <1>10, <1>11, <1>12 DEF ConnectionsNext

\* The listener, the destructor and the requests stay what they can be.
LEMMA ScalarsStep ==
  ASSUME Scalars, ConnectionsNext, UNCHANGED part
  PROVE  Scalars'
<1>1. ASSUME OnAccept \/ DoAccept \/ AsyncAccept \/ Stop \/ CloseAcceptor \/ Shutdown \/ Join
      PROVE  Scalars'
  <2>1. ASSUME OnAccept \/ DoAccept \/ AsyncAccept PROVE Scalars'
    BY <2>1 DEF OnAccept, DoAccept, AsyncAccept, Scalars, httpVars, wsVars
  <2>2. ASSUME Stop \/ CloseAcceptor PROVE Scalars'
    BY <2>2 DEF Stop, CloseAcceptor, Scalars, httpVars, wsVars
  <2>3. ASSUME Shutdown \/ Join PROVE Scalars'
    BY <2>3 DEF Shutdown, Join, Scalars, listenerVars, httpVars, wsVars
  <2>. QED
    BY <1>1, <2>1, <2>2, <2>3
<1>2. ASSUME NEW c \in Connection, Arrives(c) \/ OnHandshake(c) \/ ReadEnds(c) \/ Done(c) \/ OnHttpShutdown(c)
      PROVE  Scalars'
  BY <1>2 DEF Arrives, OnHandshake, ReadEnds, Done, OnHttpShutdown, Scalars, listenerVars, httpVars, wsVars
<1>3. ASSUME NEW c \in Connection, OnRead(c) PROVE Scalars'
  <2>1. requests' = [requests EXCEPT ![c] = requests[c] + 1] /\ requests[c] < MaxRequests
    BY <1>3 DEF OnRead
  <2>2. requests' \in [Connection -> 0..MaxRequests]
    <3>1. MaxRequests \in Nat
      BY ConnectionsAssumption
    <3>2. requests \in [Connection -> 0..MaxRequests] /\ requests[c] \in 0..MaxRequests
      BY DEF Scalars
    <3>3. requests[c] + 1 \in 0..MaxRequests
      BY <2>1, <3>1, <3>2
    <3>. QED
      BY <2>1, <3>2, <3>3
  <2>3. (\E close \in BOOLEAN : Respond(c, close)) \/ Upgrade(c)
    BY <1>3 DEF OnRead
  <2>4. need_close' \in [Connection -> BOOLEAN] /\ m_connections' \subseteq Connection
    BY <2>3 DEF Respond, Upgrade, Scalars, wsVars
  <2>. QED
    BY <1>3, <2>2, <2>4 DEF OnRead, Scalars, listenerVars
<1>4. ASSUME NEW c \in Connection,
             OnWsAccept(c) \/ OnWsRead(c) \/ OnSend(c) \/ OnClosed(c) \/ Run(c) \/ SendLater(c)
      PROVE  Scalars'
  BY <1>4 DEF OnWsAccept, OnWsRead, OnSend, OnClosed, Run, SendLater, Scalars, listenerVars, httpVars
<1>. QED
  BY <1>1, <1>2, <1>3, <1>4 DEF ConnectionsNext

\* Everything the server keeps has its type at every step: no more packets are
\* posted or buffered than were made, and no strand is told to close twice.
THEOREM ServerTyped == Spec => []TypeOK
<1>1. Init => BoundsInv
  <2>. SUFFICES ASSUME Init PROVE BoundsInv
    OBVIOUS
  <2>1. MaxRequests \in Nat /\ MaxPackets \in Nat
    BY ConnectionsAssumption
  <2>2. PICK q : q = <<>>
    OBVIOUS
  <2>3. /\ q \in Seq(0..MaxPackets) /\ q \in Seq(1..MaxPackets) /\ Len(q) = 0
        /\ DOMAIN q = {}
    BY <2>2
  <2>4. PacketsAt(q) = {} /\ ClosesAt(q) = {} /\ ClosesOnce(q)
    BY <2>3 DEF PacketsAt, ClosesAt, ClosesOnce
  <2>5. Cardinality(PacketsAt(q)) = 0
    BY <2>4, FS_EmptySet
  <2>6. NoSocket.m_send_buffer = q
    BY <2>2 DEF NoSocket
  <2>7. \A c \in Connection : ws[c].m_send_buffer = q /\ posted[c] = q /\ accepted[c] = q
    BY <2>2, <2>6 DEF Init, ConnectionsInit
  <2>8. \A c \in Connection : PacketsInv(c)
    <3>1. Len(q) + Cardinality(PacketsAt(q)) <= MaxPackets
      BY <2>1, <2>3, <2>5
    <3>. QED
      BY <2>3, <2>4, <2>7, <3>1 DEF PacketsInv
  <2>9. Scalars
    <3>1. 0 \in 0..MaxRequests
      BY <2>1
    <3>. QED
      BY <3>1 DEF Init, ConnectionsInit, Scalars
  <2>. QED
    BY <2>8, <2>9 DEF BoundsInv
<1>2. ConnectionInv /\ BoundsInv /\ [Next]_serverVars => BoundsInv'
  <2>1. ASSUME BoundsInv, UNCHANGED <<part, connectionVars>> PROVE BoundsInv'
    BY <2>1 DEF connectionVars, listenerVars, httpVars, wsVars, BoundsInv, Scalars, PacketsInv
  <2>. QED
    BY <2>1, ScalarsStep, PacketsStep DEF Next, serverVars, BoundsInv
<1>3. ASSUME ConnectionInv, BoundsInv, LoginTypes, TablesBounded PROVE TypeOK
  <2>1. ASSUME NEW c \in Connection
        PROVE  /\ ws[c].stage \in {"none", "accepting", "open"} /\ ws[c].closing \in {"no", "close", "shutdown", "done"}
               /\ {ws[c].reading, ws[c].m_stopping} \subseteq BOOLEAN
               /\ ws[c].m_send_buffer \in Seq(1..MaxPackets)
               /\ Len(posted[c]) <= MaxPackets + 1
               /\ http[c] # "upgraded" => ws[c] = NoSocket
    <3>1. ws[c] \in Socket /\ WsInv(c) /\ PacketsInv(c) /\ accepted[c] \in Seq(Nat)
      BY <1>3 DEF ConnectionInv, ConnectionTypes, BoundsInv
    <3>2. PICK q : q = posted[c]
      OBVIOUS
    <3>3. q \in Seq(0..MaxPackets) /\ ClosesOnce(q)
      BY <3>1, <3>2 DEF PacketsInv
    <3>4. q \in Seq(Nat)
      <4>1. 0..MaxPackets \subseteq Nat
        OBVIOUS
      <4>. QED
        BY <3>3, <4>1, SeqMonotonic
    <3>5. PICK n, k, l : n = Len(q) /\ k = Cardinality(PacketsAt(q)) /\ l = Len(accepted[c])
      OBVIOUS
    <3>6. n \in Nat /\ l \in Nat /\ (k = n \/ k = n - 1) /\ l + k <= MaxPackets
      BY <3>1, <3>2, <3>3, <3>4, <3>5, LenProperties, PacketsCount DEF PacketsInv
    <3>7. n <= MaxPackets + 1
      <4>1. MaxPackets \in Nat
        BY ConnectionsAssumption
      <4>. QED
        BY <3>6, <4>1
    <3>. QED
      BY <3>1, <3>2, <3>5, <3>7 DEF Socket, WsInv, PacketsInv
  <2>2. ConnectionsTypeOK
    BY <1>3, <2>1 DEF ConnectionsTypeOK, ConnectionInv, ConnectionTypes, HttpState, BoundsInv, Scalars
  <2>3. LoginTypeOK
    BY <1>3 DEF LoginTypeOK, LoginTypes, Entries, TablesBounded, Bounded
  <2>. QED
    BY <1>3, <2>2, <2>3 DEF TypeOK, BoundsInv, Scalars
<1>. QED
  BY <1>1, <1>2, <1>3, ConnectionInvariant, LoginTyped, ThrottlerBounded, PTL DEF Spec
=============================================================================
