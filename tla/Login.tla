-------------------------------- MODULE Login --------------------------------
(***************************************************************************)
(* POST /login, /logout and the cookie that other handlers ask about.  The *)
(* requests of different connections run on different threads.  One that   *)
(* logs in goes through four critical sections: is the network blocked     *)
(* (login_throttler::blocked_for), what did the slow check of the password *)
(* say (record), drop the session of the cookie (destroy), make a new one  *)
(* (create).  Other threads run between them.                              *)
(*                                                                         *)
(* Time is kept as ages: how long ago a failure was, how long a block or a *)
(* session still lasts.  Tick lets time pass.                              *)
(***************************************************************************)
EXTENDS Integers, Sequences, FiniteSets, SequencesExt

CONSTANTS
  Browser,        \* the clients; each has a connection that logs in
  Address,        \* AddressOf[b] is where b connects from
  AddressOf,
  Account,        \* Account[u][p] is the group of user u with password p
  Group,          \* the groups that have permissions
  Content,        \* Content[r] is a request to log in
  Sends,          \* Sends[b] are those that b sends
  Session,        \* the identifiers of sessions
  MaxFailures,    \* 5
  Window,         \* 60 s
  BlockDuration,  \* 5 min
  MaxEntries,     \* of each of the two tables: 10000
  IdleTimeout,    \* 1 h
  CheckTime,      \* how long the check of a password may take: PBKDF2, well under a second
  Second          \* how many ticks of the clock a second has

NotFound == "not found"

ASSUME LoginAssumption ==
  /\ Address \subseteq [family: {"v4", "v6", "v4 mapped"}, prefix: Nat]
  /\ AddressOf \in [Browser -> Address]
  /\ Sends \in [Browser -> SUBSET DOMAIN Content]
  /\ {MaxFailures, Window, BlockDuration, MaxEntries, IdleTimeout, Second} \subseteq Nat \ {0}
  /\ CheckTime \in Nat /\ CheckTime + Window <= BlockDuration

VARIABLES
  m_table,     \* both tables of the throttler: networks to entries
  m_sessions,  \* sessions to how long they still last
  pc,          \* the critical section the request of each browser is before
  request,     \* that request, and the session of its cookie
  cookie,      \* the session cookie of each browser
  failed,      \* the ages of the failed checks of each network in the window, since its entry was last erased
  idle         \* how long ago each session was last used; the code does not keep these two

loginVars == <<m_table, m_sessions, pc, request, cookie, failed, idle>>

\* A mapped address is the address it maps.
normalize(a) == IF a.family = "v4 mapped" THEN [a EXCEPT !.family = "v4"] ELSE a

Network == {normalize(a) : a \in Address}
NetworkOf(b) == normalize(AddressOf[b])

None == "none"
NoRequest == [content |-> None, session |-> None, age |-> 0]
NotBlocked == [blocked |-> FALSE, wait |-> 0]
NewEntry == [failures |-> <<>>, until |-> NotBlocked]

Block == [blocked: BOOLEAN, wait: 0..BlockDuration]

IsEntry(e) ==
  /\ e \in [failures: Seq(0..Window), until: Block]
  /\ Len(e.failures) <= MaxFailures

Of(table, family) == {n \in DOMAIN table : n.family = family}

LoginTypeOK ==
  /\ DOMAIN m_table \subseteq Network
  /\ \A n \in DOMAIN m_table : IsEntry(m_table[n]) /\ Cardinality(Of(m_table, n.family)) <= MaxEntries
  /\ DOMAIN m_sessions \subseteq Session
  /\ \A s \in DOMAIN m_sessions : m_sessions[s] \in 0..IdleTimeout
  /\ pc \in [Browser -> {"idle", "verify", "destroy", "create"}]
  /\ cookie \in [Browser -> Session \cup {None}]
  /\ request \in [Browser -> [content: DOMAIN Content \cup {None}, session: Session \cup {None},
                              age: 0..CheckTime]]
  /\ \A b \in Browser : pc[b] # "idle" => request[b].content \in Sends[b]

LoginInit ==
  /\ m_table = <<>> /\ m_sessions = <<>>
  /\ pc = [b \in Browser |-> "idle"]
  /\ request = [b \in Browser |-> NoRequest]
  /\ cookie = [b \in Browser |-> None]
  /\ failed = [n \in Network |-> <<>>]
  /\ idle = [s \in Session |-> 0]

-----------------------------------------------------------------------------
(* login_throttler                                                         *)

\* The failures that are left when those out of the window are popped, the
\* oldest first.
Recent(ages) ==
  LET old == CHOOSE k \in 0..Len(ages) :
               /\ \A i \in 1..k : ages[i] >= Window
               /\ k < Len(ages) => ages[k + 1] < Window
  IN  SubSeq(ages, old + 1, Len(ages))

expire(e) ==
  IF e.until.blocked /\ e.until.wait = 0 THEN NewEntry ELSE [e EXCEPT !.failures = Recent(@)]

\* An entry that says nothing.
Spent(e) == e = NewEntry

Without(table, n) == [k \in DOMAIN table \ {n} |-> table[k]]
With(table, n, e) == [k \in DOMAIN table \cup {n} |-> IF k = n THEN e ELSE table[k]]

\* The table once network n was looked up.
Looked(table, n) ==
  IF n \notin DOMAIN table THEN table
  ELSE IF Spent(expire(table[n])) THEN Without(table, n) ELSE With(table, n, expire(table[n]))

\* In seconds, rounded up.  Mutant: down.
BlockedFor_down(table, n) ==
  IF n \in DOMAIN table /\ table[n].until.blocked THEN table[n].until.wait \div Second ELSE 0

BlockedFor(table, n) ==
  IF n \in DOMAIN table /\ table[n].until.blocked THEN (table[n].until.wait + Second - 1) \div Second ELSE 0

Pruned(table, family) ==
  LET gone == {n \in Of(table, family) : Spent(expire(table[n]))}
  IN  [n \in DOMAIN table \ gone |-> IF n.family = family THEN expire(table[n]) ELSE table[n]]

\* A failure of a network at this moment.  Mutant: the oldest failure is not
\* forgotten when there are enough.
Failure_growing(e) ==
  LET now == expire(e)
  IN  [failures |-> Append(now.failures, 0),
       until |-> IF Len(now.failures) + 1 >= MaxFailures
                 THEN [blocked |-> TRUE, wait |-> BlockDuration] ELSE now.until]

Failure(e) ==
  LET now == expire(e)
      kept == IF Len(now.failures) = MaxFailures THEN Tail(now.failures) ELSE now.failures
  IN  [failures |-> Append(kept, 0),
       until |-> IF Len(kept) + 1 >= MaxFailures
                 THEN [blocked |-> TRUE, wait |-> BlockDuration] ELSE now.until]

\* record_failure_in: with no room, the failure is dropped or takes the place of
\* that of another network.
RecordFailure(n) ==
  LET full(t) == n \notin DOMAIN t /\ Cardinality(Of(t, n.family)) >= MaxEntries
      room == IF full(m_table) THEN Pruned(m_table, n.family) ELSE m_table
      Recorded(t) == With(t, n, Failure(IF n \in DOMAIN t THEN t[n] ELSE NewEntry))
  IN  \/ /\ ~full(room) /\ m_table' = Recorded(room)
         /\ failed' = [failed EXCEPT ![n] = Append(@, 0)]
      \/ /\ full(room) /\ m_table' = room
         /\ UNCHANGED failed
      \/ /\ full(room)
         /\ \E victim \in Of(room, n.family) :
              /\ m_table' = Recorded(Without(room, victim))
              /\ failed' = [failed EXCEPT ![victim] = <<>>, ![n] = <<0>>]

-----------------------------------------------------------------------------
(* login                                                                   *)

\* The fields of a form: a pair that does not decode is skipped, and the first
\* of those with the same key counts.
parse_form(body) ==
  LET good == {i \in DOMAIN body : body[i].decodes}
  IN  [k \in {body[i].key : i \in good} |->
         body[CHOOSE i \in good : body[i].key = k /\ \A j \in good : body[j].key = k => i <= j].val]

Field(form, k) == IF k \in DOMAIN form THEN form[k] ELSE NotFound

\* The group of the user, or the status to answer with.
try_login(req) ==
  LET form == parse_form(req.body)
      user == Field(form, "username")
      password == Field(form, "password")
      verified == IF user \in DOMAIN Account /\ password \in DOMAIN Account[user]
                  THEN Account[user][password] ELSE NotFound
  IN  CASE req.method # "POST" -> "method_not_allowed"
        [] req.too_large -> "payload_too_large"
        [] req.csrf = "" \/ Field(form, "csrf") # req.csrf -> "forbidden"
        [] NotFound \in {user, password} -> "bad_request"
        [] verified \notin Group -> "unauthorized"
        [] OTHER -> verified

\* A request to log in arrives: it is sent back while the network is blocked.
Attempt(b) ==
  /\ pc[b] = "idle"
  /\ m_table' = Looked(m_table, NetworkOf(b))
  /\ \E req \in Sends[b] :
       IF BlockedFor(m_table', NetworkOf(b)) > 0 THEN UNCHANGED <<pc, request>>
       ELSE /\ pc' = [pc EXCEPT ![b] = "verify"]
            /\ request' = [request EXCEPT ![b] = [content |-> req, session |-> cookie[b], age |-> 0]]
  /\ UNCHANGED <<m_sessions, cookie, failed, idle>>

\* The password was checked, and the result is recorded.
Record(b) ==
  /\ pc[b] = "verify"
  /\ IF try_login(Content[request[b].content]) \in Group
     THEN /\ m_table' = Without(m_table, NetworkOf(b))
          /\ failed' = [failed EXCEPT ![NetworkOf(b)] = <<>>]
          /\ pc' = [pc EXCEPT ![b] = IF request[b].session = None THEN "create" ELSE "destroy"]
          /\ UNCHANGED request
     ELSE /\ RecordFailure(NetworkOf(b))
          /\ pc' = [pc EXCEPT ![b] = "idle"]
          /\ request' = [request EXCEPT ![b] = NoRequest]
  /\ UNCHANGED <<m_sessions, cookie, idle>>

Destroy(b) ==
  /\ pc[b] = "destroy"
  /\ m_sessions' = Without(m_sessions, request[b].session)
  /\ pc' = [pc EXCEPT ![b] = "create"]
  /\ UNCHANGED <<m_table, request, cookie, failed, idle>>

\* The new session; the browser keeps its cookie unless the response is lost.
Create(b) ==
  /\ pc[b] = "create"
  /\ \E s \in Session \ DOMAIN m_sessions :
       /\ \A d \in Browser : cookie[d] # s /\ (pc[d] # "idle" => request[d].session # s)
       /\ m_sessions' = With(m_sessions, s, IdleTimeout)
       /\ cookie' \in {cookie, [cookie EXCEPT ![b] = s]}
       /\ idle' = [idle EXCEPT ![s] = 0]
  /\ pc' = [pc EXCEPT ![b] = "idle"]
  /\ request' = [request EXCEPT ![b] = NoRequest]
  /\ UNCHANGED <<m_table, failed>>

-----------------------------------------------------------------------------
(* session_authenticator and logout, on other connections of the browser   *)

Accepted(s) == s \in DOMAIN m_sessions /\ m_sessions[s] > 0

\* authenticate: another request of the browser.  Mutant: the session does not
\* last longer for it.
Authenticate_fixed(b) ==
  /\ cookie[b] # None
  /\ IF Accepted(cookie[b])
     THEN idle' = [idle EXCEPT ![cookie[b]] = 0] /\ UNCHANGED m_sessions
     ELSE m_sessions' = Without(m_sessions, cookie[b]) /\ UNCHANGED idle
  /\ UNCHANGED <<m_table, pc, request, cookie, failed>>

Authenticate(b) ==
  /\ cookie[b] # None
  /\ IF Accepted(cookie[b])
     THEN /\ m_sessions' = [m_sessions EXCEPT ![cookie[b]] = IdleTimeout]
          /\ idle' = [idle EXCEPT ![cookie[b]] = 0]
     ELSE m_sessions' = Without(m_sessions, cookie[b]) /\ UNCHANGED idle
  /\ UNCHANGED <<m_table, pc, request, cookie, failed>>

Logout(b) ==
  /\ cookie[b] # None
  /\ m_sessions' = Without(m_sessions, cookie[b])
  /\ cookie' = [cookie EXCEPT ![b] = None]
  /\ UNCHANGED <<m_table, pc, request, failed, idle>>

Less(n) == IF n = 0 THEN 0 ELSE n - 1
More(n, most) == IF n = most THEN n ELSE n + 1

\* Time passes.
Tick ==
  /\ \A b \in Browser : pc[b] = "verify" => request[b].age < CheckTime
  /\ request' = [b \in Browser |-> IF pc[b] = "verify" THEN [request[b] EXCEPT !.age = @ + 1] ELSE request[b]]
  /\ m_table' = [n \in DOMAIN m_table |->
       [failures |-> [i \in DOMAIN m_table[n].failures |-> More(m_table[n].failures[i], Window)],
        until |-> [m_table[n].until EXCEPT !.wait = Less(@)]]]
  /\ m_sessions' = [s \in DOMAIN m_sessions |-> Less(m_sessions[s])]
  /\ failed' = [n \in Network |-> Recent([i \in DOMAIN failed[n] |-> failed[n][i] + 1])]
  /\ idle' = [s \in Session |-> IF s \in DOMAIN m_sessions THEN More(idle[s], IdleTimeout) ELSE 0]
  /\ UNCHANGED <<pc, cookie>>

LoginNext ==
  \/ \E b \in Browser : Attempt(b) \/ Record(b) \/ Destroy(b) \/ Create(b) \/ Authenticate(b) \/ Logout(b)
  \/ Tick

-----------------------------------------------------------------------------

\* A check of a password begins only when there were fewer failures in the
\* window than it takes to block the network: a block is served to its last
\* moment, when blocked_for() still rounds what is left up to a second, and
\* blocked_for() and record() are critical sections of their own.
BlockServed ==
  [][\A b \in Browser :
       pc[b] = "idle" /\ pc'[b] = "verify" => Len(failed[NetworkOf(b)]) < MaxFailures]_loginVars

\* A session is accepted as long as it was used within the idle timeout, and not
\* longer, whatever logged in or out on other threads.
SessionsIdleOut ==
  \A s \in DOMAIN m_sessions : m_sessions[s] = IdleTimeout - idle[s]
=============================================================================
