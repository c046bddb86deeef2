---------------------------- MODULE TorrentCalls ----------------------------
(***************************************************************************)
(* The calls of libtorrent_webui that change torrents.  A call on a list   *)
(* of torrents looks each of them up in the history, which knows of those  *)
(* that are gone and of positions in the queue as of the last update, and  *)
(* then asks libtorrent for one change after the other.  The calls of      *)
(* different connections run on different threads.  add-torrent is         *)
(* answered by the thread of the alerts, once the torrent was added.  The  *)
(* uTorrent interface (utorrent_webui) has the same calls, as requests on  *)
(* the threads of HTTP: its lists are not put in order, and it does not    *)
(* wait for a torrent to be added.                                         *)
(***************************************************************************)
EXTENDS Integers, Sequences, FiniteSets, SequencesExt, Ordering

CONSTANTS
  Torrent,    \* the torrents
  Initial,    \* those there are at first, in the order of the queue
  File,       \* the files of a torrent
  Client,     \* the connections
  RoleOf,     \* the permissions each has
  Function,   \* the functions that are called
  Action,     \* the actions of the uTorrent interface that are requested
  List,       \* the lists of torrents they are called with
  MaxCalls    \* bounds the calls of each connection

Lists == {"start", "stop", "set-auto-managed", "clear-auto-managed", "queue-up", "queue-down",
          "queue-top", "queue-bottom", "remove", "remove_and_data", "force_recheck",
          "set-sequential-download", "clear-sequential-download"}
Actions == {"start", "forcestart", "stop", "queueup", "queuedown", "queuetop", "queuebottom",
            "recheck", "remove", "removedata"}
Flag == {"auto_managed", "paused", "sequential_download", "error", "checking"}

ASSUME TorrentCallsAssumption ==
  /\ IsFiniteSet(Torrent) /\ IsFiniteSet(File)
  /\ Initial \in Seq(Torrent) /\ IsInjective(Initial)
  /\ RoleOf \in [Client -> {"full", "remote", "read only", "none"}]
  /\ Function \subseteq Lists \cup {"set-file-priority", "add-torrent"}
  /\ Action \subseteq Actions \cup {"setprio", "add-url"}
  /\ List \subseteq Seq(Torrent)
  /\ MaxCalls \in Nat

VARIABLES
  queue,        \* libtorrent: the torrents, in the order of the queue
  flags,        \* the flags of the torrents
  priority,     \* the priorities of their files
  known,        \* the history: the torrents it has
  position,     \* the place in the queue of each, as of the last update
  tags,         \* the tags that were set
  call,         \* the call each connection is in
  adding,       \* the torrents libtorrent was asked to add
  alerts,       \* those it posted of torrents added or removed
  told,         \* the alert at the head was handled by the history
  terminated,   \* an exception left a handler
  calls,        \* how many calls each connection made
  awaited       \* those whose response was not sent yet

torrentCallVars ==
  <<queue, flags, priority, known, position, tags, call, adding, alerts, told, terminated, calls, awaited>>
libtorrent == <<queue, flags, priority>>
history == <<known, position, tags>>

Idle == [id |-> 0, name |-> "", todo |-> <<>>, list |-> <<>>, before |-> <<>>, alone |-> FALSE, fresh |-> FALSE]
NotSet == "not set"
Torrents(q) == {q[i] : i \in DOMAIN q}
Place(q, t) == CHOOSE i \in DOMAIN q : q[i] = t

TorrentCallsTypeOK ==
  /\ queue \in Seq(Torrent) /\ IsInjective(queue)
  /\ flags \in [Torrent -> SUBSET Flag]
  /\ priority \in [Torrent -> [File -> {0, 1}]]
  /\ known \subseteq Torrent /\ position \in [Torrent -> 0..Cardinality(Torrent)]
  /\ tags \in [Torrent -> {NotSet, "none", "tag"}]
  /\ \A c \in Client : /\ call[c].id \in 0..MaxCalls
                       /\ \A i \in DOMAIN call[c].todo : call[c].todo[i].prio \in {0, 1}
                       /\ awaited[c] \subseteq 1..calls[c]
  /\ calls \in [Client -> 0..MaxCalls]
  /\ told => alerts # <<>>

Positions(q) == [t \in Torrent |-> IF t \in Torrents(q) THEN Place(q, t) ELSE 0]

TorrentCallsInit ==
  /\ queue = Initial
  /\ flags = [t \in Torrent |-> {"paused"}]
  /\ priority = [t \in Torrent |-> [i \in File |-> 1]]
  /\ known = Torrents(Initial) /\ position = Positions(Initial)
  /\ tags = [t \in Torrent |-> IF t \in known THEN "none" ELSE NotSet]
  /\ call = [c \in Client |-> Idle]
  /\ adding = {} /\ alerts = <<>> /\ told = FALSE /\ terminated = FALSE
  /\ calls = [c \in Client |-> 0]
  /\ awaited = [c \in Client |-> {}]

-----------------------------------------------------------------------------
(* permissions_interface                                                   *)

Permission == {"start", "stop", "recheck", "set file prio", "list", "add", "remove", "remove data",
               "queue change", "get data", "session status", "set tag", "set flags"}

Allowed(role) ==
  CASE role \in {"full", "remote"} -> Permission
    [] role = "read only" -> {"list", "get data", "session status"}
    [] role = "none" -> {}

\* What each function asks for; the flag of sequential downloads asks for nothing.
Needs(name) ==
  CASE name \in {"start", "clear-auto-managed"} -> {"start"}
    [] name \in {"stop", "set-auto-managed"} -> {"stop"}
    [] name \in {"queue-up", "queue-down", "queue-top", "queue-bottom"} -> {"queue change"}
    [] name = "remove" -> {"remove"}
    [] name = "remove_and_data" -> {"remove", "remove data"}
    [] name = "force_recheck" -> {"recheck"}
    [] name = "set-file-priority" -> {"set file prio"}
    [] name = "add-torrent" -> {"add"}
    [] OTHER -> {}

-----------------------------------------------------------------------------
(* libtorrent                                                              *)

\* What a handle is asked for, one after the other.
Steps(name) ==
  CASE name = "start" -> <<"set auto_managed", "clear_error", "resume">>
    [] name = "stop" -> <<"unset auto_managed", "pause">>
    [] name = "set-auto-managed" -> <<"set auto_managed">>
    [] name = "clear-auto-managed" -> <<"unset auto_managed">>
    [] name = "set-sequential-download" -> <<"set sequential_download">>
    [] name = "clear-sequential-download" -> <<"unset sequential_download">>
    [] name \in {"remove", "remove_and_data"} -> <<"remove">>
    [] OTHER -> <<name>>

\* The call a request of the uTorrent interface amounts to, and what is different.
\* The mode for uploads only is not kept.
As(action) ==
  CASE action = "forcestart" -> "start"
    [] action = "queueup" -> "queue-up"
    [] action = "queuedown" -> "queue-down"
    [] action = "queuetop" -> "queue-top"
    [] action = "queuebottom" -> "queue-bottom"
    [] action = "recheck" -> "force_recheck"
    [] action = "removedata" -> "remove_and_data"
    [] action = "setprio" -> "set-file-priority"
    [] action = "add-url" -> "add-torrent"
    [] OTHER -> action

GuiSteps(action) ==
  CASE action = "start" -> <<"clear_error", "unset upload_mode", "set auto_managed", "resume">>
    [] action = "forcestart" -> <<"unset auto_managed", "resume">>
    [] OTHER -> Steps(As(action))

\* What is at place i goes to place j, and those between move over.
Moved(q, i, j) ==
  [k \in DOMAIN q |->
     IF k = j THEN q[i]
     ELSE IF i <= k /\ k < j THEN q[k + 1]
     ELSE IF j < k /\ k <= i THEN q[k - 1] ELSE q[k]]

Queued(q, step, t) ==
  LET i == Place(q, t)
  IN  CASE step = "queue-up" -> Moved(q, i, IF i = 1 THEN 1 ELSE i - 1)
        [] step = "queue-down" -> Moved(q, i, IF i = Len(q) THEN i ELSE i + 1)
        [] step = "queue-top" -> Moved(q, i, 1)
        [] step = "queue-bottom" -> Moved(q, i, Len(q))
        [] step = "remove" -> RemoveAt(q, i)
        [] OTHER -> q

Flagged(f, step) ==
  CASE step = "set auto_managed" -> f \cup {"auto_managed"}
    [] step = "unset auto_managed" -> f \ {"auto_managed"}
    [] step = "set sequential_download" -> f \cup {"sequential_download"}
    [] step = "unset sequential_download" -> f \ {"sequential_download"}
    [] step = "clear_error" -> f \ {"error"}
    [] step = "resume" -> f \ {"paused"}
    [] step = "pause" -> f \cup {"paused"}
    [] step = "force_recheck" -> f \cup {"checking"}
    [] OTHER -> f

\* A torrent runs into an error, or its check ends.
Happens(t) ==
  /\ t \in Torrents(queue)
  /\ \/ "error" \notin flags[t] /\ "paused" \notin flags[t] /\ flags' = [flags EXCEPT ![t] = @ \cup {"error", "paused"}]
     \/ "checking" \in flags[t] /\ flags' = [flags EXCEPT ![t] = @ \ {"checking"}]
  /\ UNCHANGED <<queue, priority, history, call, adding, alerts, told, terminated, calls, awaited>>

-----------------------------------------------------------------------------
(* on_websocket_read                                                       *)

\* resolve_torrent_list: what the history does not have, or knows to be gone, is
\* skipped.
Resolved(list) == Picked(list, {i \in DOMAIN list : list[i] \in known \cap Torrents(queue)})

\* std::sort: by the position in the queue, ascending or descending.
Rising(s) ==
  LET order == CHOOSE o \in Bijection(DOMAIN s, DOMAIN s) :
                 \A i, j \in DOMAIN s : i < j => position[s[o[i]]] <= position[s[o[j]]]
  IN  [i \in DOMAIN s |-> s[order[i]]]
Falling(s) == Reverse(Rising(s))

\* apply_torrent_fun_ordered.  Mutant: the list is taken as it is.
Ordered_unsorted(name, s) == s

Ordered(name, s) ==
  CASE name \in {"queue-up", "queue-bottom"} -> Rising(s)
    [] name \in {"queue-down", "queue-top"} -> Falling(s)
    [] OTHER -> s

\* The steps on each torrent, one torrent after the other.
Todo(steps, s) ==
  LET n == Len(steps) IN
  [k \in 1 .. n * Len(s) |->
    [step |-> steps[1 + ((k - 1) % n)], torrent |-> s[1 + ((k - 1) \div n)], file |-> 0, prio |-> 0]]

\* The priority of each file of each torrent.
TodoFiles(s, prio) ==
  LET n == Cardinality(File) IN
  [k \in 1 .. n * Len(s) |->
    [step |-> "priority", torrent |-> s[1 + ((k - 1) \div n)], file |-> SetToSeq(File)[1 + ((k - 1) % n)], prio |-> prio]]

\* The history is up to date with the queue.
Current == Torrents(queue) \subseteq known /\ position = Positions(queue)

\* A connection sends a call; if it is allowed to, it is begun, and otherwise
\* answered at once.
Begin(c, name, list, todo) ==
  /\ call' = [call EXCEPT ![c] =
       [id |-> calls[c] + 1, name |-> name, todo |-> todo, list |-> list, before |-> queue,
        alone |-> \A d \in Client : call[d] = Idle, fresh |-> Current]]
  /\ calls' = [calls EXCEPT ![c] = @ + 1]
  /\ awaited' = [awaited EXCEPT ![c] = @ \cup {calls[c] + 1}]

Ready(c) == call[c] = Idle /\ calls[c] < MaxCalls /\ ~terminated

CallList(c, name, list) ==
  /\ Ready(c) /\ name \in Lists
  /\ Begin(c, name, list,
       IF Needs(name) \subseteq Allowed(RoleOf[c]) THEN Todo(Steps(name), Ordered(name, Resolved(list))) ELSE <<>>)
  /\ UNCHANGED <<libtorrent, history, adding, alerts, told, terminated>>

CallSetFilePriority(c, t, prio) ==
  /\ Ready(c) /\ "set-file-priority" \in Function
  /\ Begin(c, "set-file-priority", <<>>,
       IF "set file prio" \in Allowed(RoleOf[c]) THEN TodoFiles(Resolved(<<t>>), prio) ELSE <<>>)
  /\ UNCHANGED <<libtorrent, history, adding, alerts, told, terminated>>

\* A request of the uTorrent interface: parse_torrents, apply_fun.
CallGui(c, action, list) ==
  /\ Ready(c) /\ action \in Actions
  /\ Begin(c, "gui", list,
       IF Needs(As(action)) \subseteq Allowed(RoleOf[c]) THEN Todo(GuiSteps(action), Resolved(list)) ELSE <<>>)
  /\ UNCHANGED <<libtorrent, history, adding, alerts, told, terminated>>

CallGuiSetPriority(c, list, prio) ==
  /\ Ready(c) /\ "setprio" \in Action
  /\ Begin(c, "gui", list,
       IF Needs(As("setprio")) \subseteq Allowed(RoleOf[c]) THEN TodoFiles(Resolved(list), prio) ELSE <<>>)
  /\ UNCHANGED <<libtorrent, history, adding, alerts, told, terminated>>

\* Nothing is sent along that its alert could be answered by.
NoAnswer(t, c) == [torrent |-> t, client |-> c, id |-> 0, tag |-> NotSet]

CallGuiAddUrl(c, t) ==
  /\ Ready(c) /\ "add-url" \in Action
  /\ Begin(c, "gui", <<>>, <<>>)
  /\ adding' = IF Needs(As("add-url")) \subseteq Allowed(RoleOf[c]) THEN adding \cup {NoAnswer(t, c)} ELSE adding
  /\ UNCHANGED <<libtorrent, history, alerts, told, terminated>>

\* add_torrent.  The tag is masked here; the response is left to the alert.
CallAddTorrent(c, t, tag) ==
  /\ Ready(c) /\ "add-torrent" \in Function
  /\ IF "add" \in Allowed(RoleOf[c])
     THEN /\ adding' = adding \cup {[torrent |-> t, client |-> c, id |-> calls[c] + 1, tag |-> tag]}
          /\ calls' = [calls EXCEPT ![c] = @ + 1]
          /\ awaited' = [awaited EXCEPT ![c] = @ \cup {calls[c] + 1}]
          /\ UNCHANGED call
     ELSE Begin(c, "add-torrent", <<>>, <<>>) /\ UNCHANGED adding
  /\ UNCHANGED <<libtorrent, history, alerts, told, terminated>>

\* The next change.  That of a torrent that is gone by now is lost, or throws.
Apply(c) ==
  /\ call[c].todo # <<>> /\ ~terminated
  /\ LET now == Head(call[c].todo)
         t == now.torrent
     IN  IF t \in Torrents(queue)
         THEN /\ queue' = Queued(queue, now.step, t)
              /\ flags' = [flags EXCEPT ![t] = Flagged(@, now.step)]
              /\ priority' = IF now.step = "priority" THEN [priority EXCEPT ![t][now.file] = now.prio] ELSE priority
              /\ alerts' = IF now.step = "remove" THEN Append(alerts, [type |-> "removed", torrent |-> t]) ELSE alerts
              /\ UNCHANGED terminated
         ELSE terminated' \in BOOLEAN /\ UNCHANGED <<libtorrent, alerts>>
  /\ call' = [d \in Client |-> IF d = c THEN [call[d] EXCEPT !.todo = Tail(@)] ELSE [call[d] EXCEPT !.alone = FALSE]]
  /\ UNCHANGED <<history, adding, told, calls, awaited>>

Respond(c) ==
  /\ call[c] # Idle /\ call[c].todo = <<>> /\ ~terminated
  /\ awaited' = [awaited EXCEPT ![c] = @ \ {call[c].id}]
  /\ call' = [call EXCEPT ![c] = Idle]
  /\ UNCHANGED <<libtorrent, history, adding, alerts, told, terminated, calls>>

-----------------------------------------------------------------------------
(* Alerts.                                                                 *)

\* A torrent that is there is not added again, which is an error only to add_torrent.
Adds(a) ==
  /\ a \in adding /\ adding' = adding \ {a}
  /\ LET new == a.torrent \notin Torrents(queue) IN
     /\ alerts' = Append(alerts, [type |-> "added", torrent |-> a.torrent, error |-> ~new /\ a.id # 0, data |-> a])
     /\ queue' = IF new THEN Append(queue, a.torrent) ELSE queue
     /\ flags' = IF new THEN [flags EXCEPT ![a.torrent] = {}] ELSE flags
     /\ priority' = IF new THEN [priority EXCEPT ![a.torrent] = [i \in File |-> 1]] ELSE priority
  /\ call' = [c \in Client |-> [call[c] EXCEPT !.alone = FALSE]]
  /\ UNCHANGED <<history, told, terminated, calls, awaited>>

\* torrent_history is the first to be told.
HistoryTold ==
  /\ alerts # <<>> /\ ~told /\ ~terminated /\ told' = TRUE
  /\ LET a == Head(alerts) IN
     CASE a.type = "removed" ->
            /\ known' = known \ {a.torrent}
            /\ tags' = [tags EXCEPT ![a.torrent] = NotSet]
            /\ UNCHANGED position
       [] a.type = "added" /\ ~a.error ->
            /\ known' = known \cup {a.torrent}
            /\ position' = [position EXCEPT ![a.torrent] = Positions(queue)[a.torrent]]
            /\ UNCHANGED tags
       [] OTHER -> UNCHANGED history
  /\ UNCHANGED <<libtorrent, call, adding, alerts, terminated, calls, awaited>>

\* libtorrent_webui::handle_alert.  Mutant: a torrent that was not added is not
\* answered for.
Answers_added(a) == a.type = "added" /\ a.data.id # 0 /\ ~a.error

Answers(a) == a.type = "added" /\ a.data.id # 0

WebuiTold ==
  /\ told /\ ~terminated /\ told' = FALSE /\ alerts' = Tail(alerts)
  /\ LET a == Head(alerts) IN
     /\ awaited' = IF Answers(a) THEN [awaited EXCEPT ![a.data.client] = @ \ {a.data.id}] ELSE awaited
     /\ tags' = IF Answers(a) /\ ~a.error /\ a.torrent \in known
                THEN [tags EXCEPT ![a.torrent] = a.data.tag] ELSE tags
  /\ UNCHANGED <<libtorrent, known, position, call, adding, terminated, calls>>

\* The history is told of the state of the torrents it has.
StateUpdate ==
  /\ ~terminated
  /\ position' = [t \in Torrent |-> IF t \in known THEN Positions(queue)[t] ELSE position[t]]
  /\ UNCHANGED <<libtorrent, known, tags, call, adding, alerts, told, terminated, calls, awaited>>

TorrentCallsNext ==
  \/ \E c \in Client :
       \/ \E name \in Function, list \in List : CallList(c, name, list)
       \/ \E t \in Torrent, prio \in {0, 1} : CallSetFilePriority(c, t, prio)
       \/ \E action \in Action, list \in List : CallGui(c, action, list)
       \/ \E list \in List, prio \in {0, 1} : CallGuiSetPriority(c, list, prio)
       \/ \E t \in Torrent : CallGuiAddUrl(c, t)
       \/ \E t \in Torrent, tag \in {"none", "tag"} : CallAddTorrent(c, t, tag)
       \/ Apply(c) \/ Respond(c)
  \/ \E a \in adding : Adds(a)
  \/ HistoryTold \/ WebuiTold \/ StateUpdate \/ \E t \in Torrent : Happens(t)

-----------------------------------------------------------------------------

\* Each call has one response: what is awaited is the call a connection is in,
\* what libtorrent was asked to add, and what an alert has to be handled for.
Answered ==
  \A c \in Client :
    LET alerted == {i \in DOMAIN alerts :
                      alerts[i].type = "added" /\ alerts[i].data.id # 0 /\ alerts[i].data.client = c}
    IN  /\ awaited[c] = ({call[c].id} \ {0}) \cup {a.id : a \in {x \in adding : x.client = c /\ x.id # 0}}
                        \cup {alerts[i].data.id : i \in alerted}
        /\ \A i \in alerted : alerts[i].data.id # call[c].id

\* Torrent s is before t in a queue.
Precedes(q, s, t) == Place(q, s) < Place(q, t)

\* Of the torrents of a queue, those of a list stay in order, and so do the others.
InOrderAs(q, before, list) ==
  \A s, t \in Torrents(before) :
    (s \in list <=> t \in list) => (Precedes(q, s, t) <=> Precedes(before, s, t))

\* A list that was moved at once, with a history that was up to date, keeps its
\* order, as do the others; at the top and at the bottom it is in one piece.  A
\* list that begins at the top does not move up in order: its second torrent takes
\* the place of the first.
MovedTogether ==
  \A c \in Client :
    LET m == call[c]
        list == Torrents(m.list)
        rest == Torrents(m.before) \ list
        goes(name) == m.name = name /\ "queue change" \in Allowed(RoleOf[c]) /\ m.before # <<>>
        together == Torrents(queue) = Torrents(m.before) /\ InOrderAs(queue, m.before, list)
    IN  m # Idle /\ m.todo = <<>> /\ m.alone /\ m.fresh /\ IsInjective(m.list) =>
          /\ goes("queue-top") =>
               together /\ \A s \in list \cap Torrents(queue), t \in rest : Precedes(queue, s, t)
          /\ goes("queue-bottom") =>
               together /\ \A s \in list \cap Torrents(queue), t \in rest : Precedes(queue, t, s)
          /\ goes("queue-up") /\ m.before[1] \notin list => together
          /\ goes("queue-down") /\ Last(m.before) \notin list => together

\* The order of a list is kept when no other call came between, however old the
\* positions are.  It is not: those of the history are as of the last update.
OrderPreserved ==
  \A c \in Client :
    LET m == call[c]
        list == Torrents(m.list) \cap Torrents(m.before) \cap Torrents(queue)
    IN  m.name = "queue-top" /\ m.todo = <<>> /\ m.alone /\ "queue change" \in Allowed(RoleOf[c])
          => \A s, t \in list : Precedes(queue, s, t) <=> Precedes(m.before, s, t)
=============================================================================
