----------------------------- MODULE Connections -----------------------------
(***************************************************************************)
(* The connections of the web server: the listener, the requests of an     *)
(* HTTP connection, and the websocket that takes its socket over.          *)
(*                                                                         *)
(* The handlers of one connection run one at a time, on its strand; other  *)
(* threads post to it what they want done: packets to send, and close().   *)
(* ~webui_base() stops the listener, tells the handlers to shut down, and  *)
(* waits for everything to end.                                            *)
(***************************************************************************)
EXTENDS Integers, Sequences, FiniteSets, SequencesExt

CONSTANTS
  Connection,   \* the connections that may be made
  Handlers,     \* the prefixes and names of the handlers, in the order they were added
  Path,         \* the paths that are asked for
  MaxRequests,  \* bounds the requests of a connection
  MaxPackets    \* bounds the packets for a websocket

ASSUME ConnectionsAssumption ==
  /\ {MaxRequests, MaxPackets} \subseteq Nat
  /\ \A i \in DOMAIN Handlers : Handlers[i].prefix \in Seq(STRING)
  /\ Path \subseteq Seq(STRING)

VARIABLES
  listening,      \* what the listener does
  newcomer,       \* the connection on_accept() is about to be called with
  m_stopped,      \* of the listener
  closed,         \* the acceptor is closed
  main,           \* ~webui_base(): where it is
  http,           \* what each HTTP connection does
  need_close,     \* the done function of the request closes the connection
  requests,       \* how many requests were read
  ws,             \* the websocket of each connection
  posted,         \* what was posted to the strand of each connection
  m_connections,  \* the websockets libtorrent_webui knows of
  accepted,       \* the packets that were put into the send buffer
  delivered,      \* those that were sent
  lost          \* the connections whose send failed; the code does not keep these three

listenerVars == <<listening, newcomer, m_stopped, closed>>
httpVars == <<http, need_close, requests>>
wsVars == <<ws, posted, m_connections, accepted, delivered, lost>>
connectionVars == <<listenerVars, main, httpVars, wsVars>>

NoSocket == [stage |-> "none", reading |-> FALSE, m_send_buffer |-> <<>>, m_stopping |-> FALSE, closing |-> "no"]

ConnectionsTypeOK ==
  /\ listening \in {"waiting", "ready", "failed", "check", "start", "over"}
  /\ {m_stopped, closed} \subseteq BOOLEAN
  /\ main \in {"running", "stopping", "closed", "down", "joined"}
  /\ http \in [Connection -> {"none", "handshake", "reading", "handling", "writing", "closing", "over", "upgraded"}]
  /\ need_close \in [Connection -> BOOLEAN] /\ requests \in [Connection -> 0..MaxRequests]
  /\ \A c \in Connection :
       /\ ws[c].stage \in {"none", "accepting", "open"} /\ ws[c].closing \in {"no", "close", "shutdown", "done"}
       /\ {ws[c].reading, ws[c].m_stopping} \subseteq BOOLEAN
       /\ ws[c].m_send_buffer \in Seq(1..MaxPackets)
       /\ Len(posted[c]) <= MaxPackets + 1
       /\ http[c] # "upgraded" => ws[c] = NoSocket
  /\ m_connections \subseteq Connection

ConnectionsInit ==
  /\ listening = "waiting" /\ newcomer = {} /\ m_stopped = FALSE /\ closed = FALSE
  /\ main = "running"
  /\ http = [c \in Connection |-> "none"]
  /\ need_close = [c \in Connection |-> FALSE]
  /\ requests = [c \in Connection |-> 0]
  /\ ws = [c \in Connection |-> NoSocket]
  /\ posted = [c \in Connection |-> <<>>]
  /\ m_connections = {}
  /\ accepted = [c \in Connection |-> <<>>] /\ delivered = [c \in Connection |-> <<>>]
  /\ lost = {}

-----------------------------------------------------------------------------
(* listener                                                                *)

Arrives(c) ==
  /\ listening = "waiting" /\ http[c] = "none"
  /\ listening' = "ready" /\ newcomer' = {c}
  /\ UNCHANGED <<m_stopped, closed, main, httpVars, wsVars>>

OnAccept ==
  /\ listening \in {"ready", "failed"}
  /\ http' = [c \in Connection |-> IF c \in newcomer THEN "handshake" ELSE http[c]]
  /\ listening' = "check" /\ newcomer' = {}
  /\ UNCHANGED <<m_stopped, closed, main, need_close, requests, wsVars>>

\* do_accept: stop() may run after the check.
DoAccept ==
  /\ listening = "check"
  /\ listening' = IF m_stopped THEN "over" ELSE "start"
  /\ UNCHANGED <<newcomer, m_stopped, closed, main, httpVars, wsVars>>

AsyncAccept ==
  /\ listening = "start"
  /\ listening' = IF closed THEN "failed" ELSE "waiting"
  /\ UNCHANGED <<newcomer, m_stopped, closed, main, httpVars, wsVars>>

\* The two steps of stop().
Stop ==
  /\ main = "running" /\ main' = "stopping"
  /\ m_stopped' = TRUE
  /\ UNCHANGED <<listening, newcomer, closed, httpVars, wsVars>>

CloseAcceptor ==
  /\ main = "stopping" /\ main' = "closed"
  /\ closed' = TRUE
  /\ listening' = IF listening = "waiting" THEN "failed" ELSE listening
  /\ UNCHANGED <<newcomer, m_stopped, httpVars, wsVars>>

-----------------------------------------------------------------------------
(* http_connection                                                         *)

\* The handler of the longest prefix, of those the first.
find_longest_prefix(handlers, path) ==
  LET matches == {i \in DOMAIN handlers : IsPrefix(handlers[i].prefix, path)}
      length == [i \in matches |-> Len(handlers[i].prefix)]
  IN  {i \in matches : \A j \in matches : length[j] < length[i] \/ (length[j] = length[i] /\ i <= j)}

OnHandshake(c) ==
  /\ http[c] = "handshake"
  /\ http' = [http EXCEPT ![c] = "reading"] \/ http' = [http EXCEPT ![c] = "over"]
  /\ UNCHANGED <<listenerVars, main, need_close, requests, wsVars>>

\* The client closes the connection, or there is an error or a timeout.
ReadEnds(c) ==
  /\ http[c] = "reading"
  /\ \E next \in {"closing", "over"} : http' = [http EXCEPT ![c] = next]
  /\ UNCHANGED <<listenerVars, main, need_close, requests, wsVars>>

\* send_http: the done function closes the connection if close is set.
Respond(c, close) ==
  /\ http' = [http EXCEPT ![c] = "writing"]
  /\ need_close' = [need_close EXCEPT ![c] = close]
  /\ UNCHANGED wsVars

\* libtorrent_webui::handle_http of an authenticated request to upgrade: the
\* websocket takes the socket, and is remembered.  What is not used any more is
\* forgotten.
Outstanding(c) == ws[c].stage = "accepting" \/ ws[c].reading \/ ws[c].m_send_buffer # <<>> \/ ws[c].closing \in {"close", "shutdown"}
Alive(c) == Outstanding(c) \/ posted[c] # <<>>

\* Mutant: those that do not read yet are forgotten, too.
Upgrade_early(c) ==
  /\ http' = [http EXCEPT ![c] = "upgraded"]
  /\ ws' = [ws EXCEPT ![c] = [NoSocket EXCEPT !.stage = "accepting"]]
  /\ m_connections' = {d \in m_connections : ws[d].reading} \cup {c}
  /\ UNCHANGED <<need_close, posted, accepted, delivered, lost>>

Upgrade(c) ==
  /\ http' = [http EXCEPT ![c] = "upgraded"]
  /\ ws' = [ws EXCEPT ![c] = [NoSocket EXCEPT !.stage = "accepting"]]
  /\ m_connections' = {d \in m_connections : Alive(d)} \cup {c}
  /\ UNCHANGED <<need_close, posted, accepted, delivered, lost>>

\* A request is read and handed to its handler, if it has one; a handler that
\* throws is answered for, and the connection closed.
OnRead(c) ==
  /\ http[c] = "reading" /\ requests[c] < MaxRequests
  /\ requests' = [requests EXCEPT ![c] = @ + 1]
  /\ \E path \in Path, need_eof \in BOOLEAN :
       LET found == find_longest_prefix(Handlers, path)
           handler == IF found = {} THEN "none" ELSE Handlers[CHOOSE i \in found : TRUE].handler
       IN  \/ Respond(c, need_eof)
           \/ handler # "none" /\ Respond(c, TRUE)
           \/ handler = "libtorrent_webui" /\ Upgrade(c)
  /\ UNCHANGED <<listenerVars, main>>

\* The response was sent, or not, and done() is called.
Done(c) ==
  /\ http[c] = "writing"
  /\ \E error \in BOOLEAN :
       http' = [http EXCEPT ![c] = IF error \/ need_close[c] THEN "closing" ELSE "reading"]
  /\ UNCHANGED <<listenerVars, main, need_close, requests, wsVars>>

OnHttpShutdown(c) ==
  /\ http[c] = "closing"
  /\ http' = [http EXCEPT ![c] = "over"]
  /\ UNCHANGED <<listenerVars, main, need_close, requests, wsVars>>

-----------------------------------------------------------------------------
(* websocket_conn.  What runs on the strand.                               *)

\* close(): the queue is sent first.  Mutant: it is not.
Closing_at_once(w) ==
  IF w.m_stopping THEN w ELSE [w EXCEPT !.m_stopping = TRUE, !.closing = "close"]

Closing(w) ==
  IF w.m_stopping THEN w
  ELSE [w EXCEPT !.m_stopping = TRUE, !.closing = IF w.m_send_buffer = <<>> THEN "close" ELSE "no"]

\* send_packet(); the first packet in the buffer is being sent.
Sending(w, p) == IF w.m_stopping THEN w ELSE [w EXCEPT !.m_send_buffer = Append(@, p)]

Sent(c, p) == accepted' = [accepted EXCEPT ![c] = IF ws[c].m_stopping THEN @ ELSE Append(@, p)]

Run(c) ==
  /\ posted[c] # <<>>
  /\ posted' = [posted EXCEPT ![c] = Tail(@)]
  /\ IF Head(posted[c]) = 0
     THEN ws' = [ws EXCEPT ![c] = Closing(@)] /\ UNCHANGED accepted
     ELSE ws' = [ws EXCEPT ![c] = Sending(@, Head(posted[c]))] /\ Sent(c, Head(posted[c]))
  /\ UNCHANGED <<listenerVars, main, httpVars, m_connections, delivered, lost>>

\* A socket that was closed fails what is still outstanding.
Working(c) == ws[c].closing # "done"

OnWsAccept(c) ==
  /\ ws[c].stage = "accepting"
  /\ LET open == [ws[c] EXCEPT !.stage = "open"] IN
     \/ Working(c) /\ ws' = [ws EXCEPT ![c] = [open EXCEPT !.reading = ~ws[c].m_stopping]]
     \/ ws' = [ws EXCEPT ![c] = Closing(open)]
  /\ UNCHANGED <<listenerVars, main, httpVars, posted, m_connections, accepted, delivered, lost>>

Next_(c) == Len(accepted[c]) + Cardinality({i \in DOMAIN posted[c] : posted[c][i] # 0}) + 1

\* A message is read; the call may answer at once, and may ask to close.
OnWsRead(c) ==
  /\ ws[c].reading
  /\ LET idle == [ws[c] EXCEPT !.reading = FALSE]
         p == Next_(c)
     IN  \/ ws' = [ws EXCEPT ![c] = Closing(idle)] /\ UNCHANGED accepted
         \/ Working(c) /\ ws[c].m_stopping /\ ws' = [ws EXCEPT ![c] = idle] /\ UNCHANGED accepted
         \/ /\ Working(c) /\ ~ws[c].m_stopping /\ p <= MaxPackets
            /\ Sent(c, p)
            /\ \E after \in {Closing(Sending(idle, p)), Sending(ws[c], p)} : ws' = [ws EXCEPT ![c] = after]
  /\ UNCHANGED <<listenerVars, main, httpVars, posted, m_connections, delivered, lost>>

OnSend(c) ==
  /\ ws[c].m_send_buffer # <<>>
  /\ \/ /\ Working(c)
        /\ ws' = [ws EXCEPT ![c].m_send_buffer = Tail(@),
                            ![c].closing = IF ws[c].m_stopping /\ Len(ws[c].m_send_buffer) = 1 THEN "close" ELSE @]
        /\ delivered' = [delivered EXCEPT ![c] = Append(@, Head(ws[c].m_send_buffer))]
        /\ UNCHANGED lost
     \/ /\ ws' = [ws EXCEPT ![c] = Closing([@ EXCEPT !.m_send_buffer = <<>>])]
        /\ lost' = lost \cup {c}
        /\ UNCHANGED delivered
  /\ UNCHANGED <<listenerVars, main, httpVars, posted, m_connections, accepted>>

\* on_close, and on_shutdown, which closes the socket.
OnClosed(c) ==
  /\ ws[c].closing \in {"close", "shutdown"}
  /\ ws' = [ws EXCEPT ![c].closing = IF @ = "close" THEN "shutdown" ELSE "done"]
  /\ UNCHANGED <<listenerVars, main, httpVars, posted, m_connections, accepted, delivered, lost>>

-----------------------------------------------------------------------------
(* Other threads.                                                          *)

\* An answer that comes later, from the thread that handles alerts.
SendLater(c) ==
  /\ http[c] = "upgraded" /\ Alive(c) /\ Next_(c) <= MaxPackets
  /\ posted' = [posted EXCEPT ![c] = Append(@, Next_(c))]
  /\ UNCHANGED <<listenerVars, main, httpVars, ws, m_connections, accepted, delivered, lost>>

\* libtorrent_webui::shutdown.
Shutdown ==
  /\ main = "closed" /\ main' = "down"
  /\ posted' = [c \in Connection |->
       IF c \in m_connections /\ Alive(c) THEN Append(posted[c], 0) ELSE posted[c]]
  /\ m_connections' = {}
  /\ UNCHANGED <<listenerVars, httpVars, ws, accepted, delivered, lost>>

\* There is nothing left to do.
Join ==
  /\ main = "down" /\ main' = "joined"
  /\ listening = "over"
  /\ \A c \in Connection : http[c] \in {"none", "over", "upgraded"} /\ ~Alive(c)
  /\ UNCHANGED <<listenerVars, httpVars, wsVars>>

ConnectionsNext ==
  \/ OnAccept \/ DoAccept \/ AsyncAccept \/ Stop \/ CloseAcceptor \/ Shutdown \/ Join
  \/ \E c \in Connection :
       \/ Arrives(c) \/ OnHandshake(c) \/ ReadEnds(c) \/ OnRead(c) \/ Done(c) \/ OnHttpShutdown(c)
       \/ OnWsAccept(c) \/ OnWsRead(c) \/ OnSend(c) \/ OnClosed(c) \/ Run(c) \/ SendLater(c)

-----------------------------------------------------------------------------

\* What was put into the send buffer is sent, in order and once, and all of it
\* before the connection is closed, whoever closes it; only a send that fails
\* loses packets.
Drained ==
  \A c \in Connection \ lost :
    /\ delivered[c] \o ws[c].m_send_buffer = accepted[c]
    /\ ws[c].closing # "no" => delivered[c] = accepted[c]

\* A websocket with nothing outstanding is destroyed; it was closed by then
\* (~websocket_conn asserts m_stopping), down to the socket if no send failed.
NeverAbandoned ==
  \A c \in Connection :
    http[c] = "upgraded" /\ ~Alive(c) =>
      ws[c].m_stopping /\ (c \notin lost => ws[c].closing = "done")

\* A websocket is closed once, after everything accepted for it was sent, and
\* never left open by what forgets it.
ClosesClean == Drained /\ NeverAbandoned

Told(c) == ws[c].m_stopping \/ \E i \in DOMAIN posted[c] : posted[c][i] = 0

\* The destructor gets what it waits for.  Once the acceptor is closed no accept
\* is waiting for a connection, also when stop() ran between the check of
\* m_stopped and async_accept(); and shutdown() reaches every websocket that is
\* there: none is missing from m_connections, where those that ended are
\* forgotten.
ShutdownReaches ==
  /\ main \in {"closed", "down", "joined"} => listening # "waiting"
  /\ main = "closed" => \A c \in Connection : http[c] = "upgraded" /\ Alive(c) => c \in m_connections

\* After shutdown() every websocket is closing.  It is not: a request on an HTTP
\* connection that is still alive opens another one, which nobody closes.
AllClosing ==
  main = "down" => \A c \in Connection : http[c] = "upgraded" /\ Alive(c) => Told(c)
=============================================================================
