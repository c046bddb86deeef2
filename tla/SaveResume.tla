----------------------------- MODULE SaveResume ------------------------------
(***************************************************************************)
(* save_resume and the main loop of test.cpp that drives it: resume data   *)
(* and tags of the session's torrents are written to a database as         *)
(* libtorrent delivers them, a few torrents per tick, and all of them on   *)
(* SIGTERM, when the loop waits for the saves it asked for.                *)
(*                                                                         *)
(* The actors: the main thread, which dispatches the alerts to             *)
(* torrent_history and then to save_resume; libtorrent's network thread    *)
(* (external); the threads serving the web interface; signals and crashes. *)
(* A torrent_handle is a weak reference: a call through it throws once the *)
(* torrent is gone.  A torrent is added once in the life of a process.     *)
(* Queue positions are left out.                                           *)
(***************************************************************************)
EXTENDS Integers, Sequences, FiniteSets, SequencesExt, FiniteSetsExt, Functions

CONSTANTS
  Torrent,    \* info-hashes, numbered in the order of the handles in m_torrents
  Removable,  \* the torrents a user may remove
  Changing,   \* those whose resume data changes after they were added
  TagValue,   \* values of the tag bitfield, 0 is "no tag"
  MaxVersion,  \* bound: how often the resume data of a torrent changes
  MaxInFlight, \* bound: no tick begins while libtorrent has this many saves to answer
  MaxStarts   \* bound: how often the process is started

ASSUME SaveResumeAssumption ==
  /\ Torrent \subseteq Nat \ {0}
  /\ IsFiniteSet(Torrent)
  /\ Removable \subseteq Torrent /\ Changing \subseteq Torrent
  /\ 0 \in TagValue
  /\ MaxVersion \in Nat
  /\ MaxInFlight \in Nat
  /\ MaxStarts \in Nat

VARIABLES
  \* libtorrent
  session,    \* the torrents in the session
  alive,      \* the torrents a handle of which is valid
  version,    \* their resume data; 0 while the metadata is not known
  modified,   \* changed since they were last saved
  added,      \* every torrent added since the process started
  adding,     \* async_add_torrent() calls not yet carried out
  saving,     \* how many save_resume_data() calls are not yet carried out
  alerts,     \* the alert queue
  \* torrent_history
  known,      \* the torrents it has an entry for
  tags,       \* m_tags
  \* save_resume
  m_torrents,
  m_cursor,         \* the next torrent to save, or End
  m_pending_tags,   \* tags read by load() and not yet applied
  m_num_in_flight,
  m_shutting_down,
  \* main()
  pc,         \* what the main thread does next
  batch,      \* the alerts popped and not yet handled
  num_to_save,
  quit,
  starts,     \* how often the process was started
  \* the database
  db,
  \* what users may expect: the tag last set, and what shutting down saves
  wanted,
  promised,
  uncounted   \* saves this process asked for and, as status() threw, did not count

sessionVars == <<session, alive, version, modified, added, adding, saving>>
historyVars == <<known, tags>>
resumeVars  == <<m_torrents, m_cursor, m_pending_tags, m_num_in_flight, m_shutting_down>>
ghostVars   == <<wanted, promised, uncounted>>
loopVars    == <<pc, batch, num_to_save, quit, starts>>
vars == <<sessionVars, alerts, historyVars, resumeVars, loopVars, db, ghostVars>>

End     == 0
Version == 0 .. MaxVersion
Nothing == [t \in {} |-> 0]
Row     == [version: Version, tag: TagValue]

Steps == {"down", "dispatch", "alert", "insert", "save", "apply", "check_quit", "tick",
          "ticking", "status", "while", "exited"}

AlertType == {"added", "removed", "save_wanted", "saved", "save_failed"}
Alert     == [type: AlertType, t: Torrent, version: Version]
AlertOf(type, t) == [type |-> type, t |-> t, version |-> version[t]]

TypeOK ==
  /\ session \subseteq alive /\ alive \subseteq Torrent
  /\ version \in [Torrent -> Version]
  /\ modified \subseteq Torrent
  /\ adding \subseteq added /\ added \subseteq Torrent
  /\ saving \in [Torrent -> Nat]
  /\ alerts \in Seq(Alert)
  /\ known \subseteq Torrent
  /\ tags \in [Torrent -> TagValue]
  /\ m_torrents \subseteq Torrent
  /\ m_cursor \in m_torrents \cup {End}
  /\ DOMAIN m_pending_tags \subseteq Torrent
  /\ m_num_in_flight \in Int
  /\ m_shutting_down \in BOOLEAN
  /\ pc \in Steps
  /\ batch \in Seq(Alert)
  /\ num_to_save \in 0 .. Cardinality(Torrent)
  /\ quit \in BOOLEAN
  /\ starts \in 0 .. MaxStarts
  /\ DOMAIN db \subseteq Torrent /\ \A t \in DOMAIN db : db[t] \in Row
  /\ wanted \in [Torrent -> TagValue]
  /\ DOMAIN promised \subseteq Torrent /\ \A t \in DOMAIN promised : promised[t] \in Row
  /\ uncounted \in Nat

Init ==
  /\ session = {} /\ alive = {} /\ modified = {} /\ added = {} /\ adding = {}
  /\ version = [t \in Torrent |-> 0]
  /\ saving = [t \in Torrent |-> 0]
  /\ alerts = <<>> /\ batch = <<>>
  /\ known = {} /\ tags = [t \in Torrent |-> 0]
  /\ m_torrents = {} /\ m_cursor = End /\ m_pending_tags = Nothing
  /\ m_num_in_flight = 0 /\ m_shutting_down = FALSE
  /\ pc = "down" /\ num_to_save = 0 /\ quit = FALSE /\ starts = 0
  /\ db = Nothing
  /\ wanted = [t \in Torrent |-> 0] /\ promised = Nothing /\ uncounted = 0

Drop(f, t) == [u \in DOMAIN f \ {t} |-> f[u]]
Put(f, t, x) == [u \in DOMAIN f \cup {t} |-> IF u = t THEN x ELSE f[u]]

\* What a torrent was promised no longer holds once it changes again.
Overtaken(t) == promised' = Drop(promised, t)

-----------------------------------------------------------------------------
(* libtorrent's network thread.                                            *)

\* A torrent loaded from the database has its resume data, unmodified.
NetworkAdd(t) ==
  /\ t \in adding
  /\ adding' = adding \ {t}
  /\ session' = session \cup {t}
  /\ alive' = alive \cup {t}
  /\ version' = [version EXCEPT ![t] = db[t].version]
  /\ alerts' = Append(alerts, [type |-> "added", t |-> t, version |-> db[t].version])
  /\ UNCHANGED <<modified, added, saving, historyVars, resumeVars, loopVars, db, ghostVars>>

\* save_resume_data(only_if_modified)
NetworkSave(t) ==
  LET has == t \in session /\ t \in modified IN
  /\ saving[t] > 0
  /\ saving' = [saving EXCEPT ![t] = @ - 1]
  /\ alerts' = Append(alerts, AlertOf(IF has THEN "saved" ELSE "save_failed", t))
  /\ modified' = IF has THEN modified \ {t} ELSE modified
  /\ UNCHANGED <<session, alive, version, added, adding, historyVars, resumeVars, loopVars, db, ghostVars>>

\* The torrent changes; metadata_received and torrent_finished post an alert.
Modify(t, tell) ==
  /\ t \in session \cap Changing
  /\ version[t] < MaxVersion
  /\ version' = [version EXCEPT ![t] = @ + 1]
  /\ modified' = modified \cup {t}
  /\ alerts' = IF tell THEN Append(alerts, AlertOf("save_wanted", t)) ELSE alerts
  /\ Overtaken(t)
  /\ UNCHANGED <<session, alive, added, adding, saving, historyVars, resumeVars, loopVars, db, wanted,
                 uncounted>>

\* The last reference to a removed torrent goes; a queued call holds one.
Expire(t) ==
  /\ t \in alive \ session
  /\ saving[t] = 0
  /\ alive' = alive \ {t}
  /\ UNCHANGED <<session, version, modified, added, adding, saving, alerts, historyVars,
                 resumeVars, loopVars, db, ghostVars>>

-----------------------------------------------------------------------------
(* The web interface, on threads of its own.                               *)

\* A torrent is added without or with its metadata.
UserAdd(t, v) ==
  /\ t \notin added
  /\ added' = added \cup {t}
  /\ session' = session \cup {t}
  /\ alive' = alive \cup {t}
  /\ version' = [version EXCEPT ![t] = v]
  /\ modified' = modified \cup {t}
  /\ alerts' = Append(alerts, [type |-> "added", t |-> t, version |-> v])
  /\ UNCHANGED <<adding, saving, historyVars, resumeVars, loopVars, db, ghostVars>>

\* A request names torrents by info-hash, looked up in torrent_history.
UserRemove(t) ==
  /\ t \in known \cap session \cap Removable
  /\ session' = session \ {t}
  /\ modified' = modified \ {t}
  /\ alerts' = Append(alerts, AlertOf("removed", t))
  /\ wanted' = [wanted EXCEPT ![t] = 0]
  /\ Overtaken(t)
  /\ UNCHANGED <<alive, version, added, adding, saving, historyVars, resumeVars, loopVars, db,
                 uncounted>>

\* The set-tag call: it changes the tag, not the torrent's resume data.
UserSetTag(t, value) ==
  /\ t \in known
  /\ value # tags[t]
  /\ tags' = [tags EXCEPT ![t] = value]
  /\ wanted' = [wanted EXCEPT ![t] = value]
  /\ Overtaken(t)
  /\ UNCHANGED <<sessionVars, alerts, known, resumeVars, loopVars, db, uncounted>>

Signal ==
  /\ ~quit
  /\ quit' = TRUE
  /\ UNCHANGED <<sessionVars, alerts, historyVars, resumeVars, pc, batch, num_to_save,
                 starts, db, ghostVars>>

-----------------------------------------------------------------------------
(* save_resume on the main thread.                                         *)

\* The position of m_torrents after t, and its first one.
After(t) ==
  LET later == {u \in m_torrents : u > t} IN IF later = {} THEN End ELSE Min(later)
Begin(S) == IF S = {} THEN End ELSE Min(S)

Ask(t) == saving' = [saving EXCEPT ![t] = @ + 1]

\* dispatch_alerts: wait for alerts, or give up after 500 ms
PopAlerts ==
  /\ pc = "dispatch"
  /\ batch' = alerts
  /\ alerts' = <<>>
  /\ pc' = "alert"
  /\ UNCHANGED <<sessionVars, historyVars, resumeVars, num_to_save, quit, starts, db, ghostVars>>

Handling(type) == pc = "alert" /\ batch # <<>> /\ Head(batch).type = type
Handled == batch' = Tail(batch) /\ pc' = "alert"
Current == Head(batch).t

\* torrent_history handles the alert first; its status() call throws when
\* the torrent is gone.
HistoryAdded ==
  /\ Handling("added")
  /\ known' = IF Current \in alive THEN known \cup {Current} ELSE known
  /\ pc' = "insert"
  /\ UNCHANGED <<sessionVars, alerts, tags, resumeVars, batch, num_to_save, quit, starts,
                 db, ghostVars>>

\* add_torrent_alert: status(), and the insertion into m_torrents
ResumeAdded ==
  /\ pc = "insert"
  /\ IF Current \in alive
     THEN /\ m_torrents' = m_torrents \cup {Current}
          /\ pc' = IF version[Current] > 0 THEN "save" ELSE "apply"
          /\ UNCHANGED batch
     ELSE Handled /\ UNCHANGED m_torrents
  /\ UNCHANGED <<sessionVars, alerts, historyVars, m_cursor, m_pending_tags, m_num_in_flight,
                 m_shutting_down, num_to_save, quit, starts, db, ghostVars>>

\* A torrent with metadata is saved at once.
ResumeAddedSave ==
  /\ pc = "save"
  /\ IF Current \in alive
     THEN /\ Ask(Current)
          /\ m_num_in_flight' = m_num_in_flight + 1
          /\ pc' = "apply"
          /\ UNCHANGED batch
     ELSE Handled /\ UNCHANGED <<saving, m_num_in_flight>>
  /\ UNCHANGED <<session, alive, version, modified, added, adding, alerts, historyVars, m_torrents,
                 m_cursor, m_pending_tags, m_shutting_down, num_to_save, quit, starts, db,
                 ghostVars>>

\* The cursor, and the tag load() read: set over any other.  Mutant: the
\* tag is not applied.
ResumeAddedApply_untagged ==
  /\ pc = "apply"
  /\ m_cursor' = IF m_cursor = End THEN Begin(m_torrents) ELSE m_cursor
  /\ m_pending_tags' = Drop(m_pending_tags, Current)
  /\ Handled
  /\ UNCHANGED <<sessionVars, alerts, historyVars, m_torrents, m_num_in_flight,
                 m_shutting_down, num_to_save, quit, starts, db, ghostVars>>

ResumeAddedApply ==
  LET t == Current IN
  /\ pc = "apply"
  /\ m_cursor' = IF m_cursor = End THEN Begin(m_torrents) ELSE m_cursor
  /\ m_pending_tags' = Drop(m_pending_tags, t)
  /\ tags' = IF t \in DOMAIN m_pending_tags /\ t \in known
             THEN [tags EXCEPT ![t] = m_pending_tags[t]] ELSE tags
  /\ Handled
  /\ UNCHANGED <<sessionVars, alerts, known, m_torrents, m_num_in_flight, m_shutting_down,
                 num_to_save, quit, starts, db, ghostVars>>

\* metadata_received_alert and torrent_finished_alert.  Mutant: the save is
\* counted before it is asked for.
ResumeSaveWanted_first ==
  /\ Handling("save_wanted")
  /\ IF Current \in alive THEN Ask(Current) ELSE UNCHANGED saving
  /\ m_num_in_flight' = m_num_in_flight + 1
  /\ Handled
  /\ UNCHANGED <<session, alive, version, modified, added, adding, alerts, historyVars, m_torrents,
                 m_cursor, m_pending_tags, m_shutting_down, num_to_save, quit, starts, db,
                 ghostVars>>

ResumeSaveWanted ==
  /\ Handling("save_wanted")
  /\ IF Current \in alive
     THEN Ask(Current) /\ m_num_in_flight' = m_num_in_flight + 1
     ELSE UNCHANGED <<saving, m_num_in_flight>>
  /\ Handled
  /\ UNCHANGED <<session, alive, version, modified, added, adding, alerts, historyVars, m_torrents,
                 m_cursor, m_pending_tags, m_shutting_down, num_to_save, quit, starts, db,
                 ghostVars>>

\* torrent_removed_alert, in both observers.  Mutant: the cursor stays.
ResumeRemoved_stuck ==
  /\ Handling("removed")
  /\ known' = known \ {Current}
  /\ tags' = [tags EXCEPT ![Current] = 0]
  /\ m_torrents' = m_torrents \ {Current}
  /\ db' = Drop(db, Current)
  /\ Handled
  /\ UNCHANGED <<sessionVars, alerts, m_cursor, m_pending_tags, m_num_in_flight,
                 m_shutting_down, num_to_save, quit, starts, ghostVars>>

ResumeRemoved ==
  LET t == Current
      rest == m_torrents \ {t}
  IN
  /\ Handling("removed")
  /\ known' = known \ {t}
  /\ tags' = [tags EXCEPT ![t] = 0]
  /\ IF t \in m_torrents
     THEN /\ m_torrents' = rest
          /\ m_cursor' = IF m_cursor # t THEN m_cursor
                         ELSE IF After(t) = End THEN Begin(rest) ELSE After(t)
          /\ db' = Drop(db, t)
     ELSE UNCHANGED <<m_torrents, m_cursor, db>>
  /\ Handled
  /\ UNCHANGED <<sessionVars, alerts, m_pending_tags, m_num_in_flight, m_shutting_down,
                 num_to_save, quit, starts, ghostVars>>

\* save_resume_data_alert: the row is written with the tag of now.  The call
\* that fetches the queue position throws when the torrent is gone.
ResumeSaved ==
  /\ Handling("saved")
  /\ m_num_in_flight' = m_num_in_flight - 1
  /\ db' = IF Current \in alive
           THEN Put(db, Current, [version |-> Head(batch).version, tag |-> tags[Current]])
           ELSE db
  /\ Handled
  /\ UNCHANGED <<sessionVars, alerts, historyVars, m_torrents, m_cursor, m_pending_tags,
                 m_shutting_down, num_to_save, quit, starts, ghostVars>>

\* save_resume_data_failed_alert.  Mutant: it is not counted.
ResumeFailed_uncounted ==
  /\ Handling("save_failed")
  /\ Handled
  /\ UNCHANGED <<sessionVars, alerts, historyVars, resumeVars, num_to_save, quit, starts, db,
                 ghostVars>>

ResumeFailed ==
  /\ Handling("save_failed")
  /\ m_num_in_flight' = m_num_in_flight - 1
  /\ Handled
  /\ UNCHANGED <<sessionVars, alerts, historyVars, m_torrents, m_cursor, m_pending_tags,
                 m_shutting_down, num_to_save, quit, starts, db, ghostVars>>

AlertsDone ==
  /\ pc = "alert"
  /\ batch = <<>>
  /\ pc' = "check_quit"
  /\ UNCHANGED <<sessionVars, alerts, historyVars, resumeVars, batch, num_to_save, quit,
                 starts, db, ghostVars>>

-----------------------------------------------------------------------------
(* The main loop.                                                          *)

Sleep == UNCHANGED <<alerts, historyVars, batch, starts, db>>

\* What a process has in memory when it starts, and leaves when it dies: the
\* torrents it is to add, and their tags.
Forget(add, pending) ==
  /\ session' = {} /\ alive' = {} /\ modified' = {} /\ added' = add /\ adding' = add
  /\ version' = [t \in Torrent |-> 0]
  /\ saving' = [t \in Torrent |-> 0]
  /\ alerts' = <<>> /\ batch' = <<>>
  /\ known' = {} /\ tags' = [t \in Torrent |-> 0]
  /\ m_torrents' = {} /\ m_cursor' = End /\ m_pending_tags' = pending
  /\ m_num_in_flight' = 0 /\ m_shutting_down' = FALSE
  /\ num_to_save' = 0 /\ quit' = FALSE /\ uncounted' = 0
  /\ UNCHANGED db

\* However a process ends, it leaves the database.
Die ==
  /\ Forget({}, Nothing)
  /\ pc' = "down"
  /\ promised' = Nothing
  /\ UNCHANGED <<starts, wanted>>

\* save_all, with nothing to catch what a dead handle throws: the process is
\* terminated.  Mutant: the saves are not counted.
SaveAll_uncounted ==
  /\ saving' = [t \in Torrent |-> saving[t] + IF t \in m_torrents THEN 1 ELSE 0]
  /\ m_shutting_down' = TRUE
  /\ promised' = [t \in m_torrents \cap session |-> [version |-> version[t], tag |-> wanted[t]]]
  /\ pc' = "tick"
  /\ Sleep
  /\ UNCHANGED <<session, alive, version, modified, added, adding, m_torrents, m_cursor,
                 m_pending_tags, m_num_in_flight, num_to_save, quit, wanted, uncounted>>

SaveAll ==
  IF m_torrents \subseteq alive
  THEN /\ saving' = [t \in Torrent |-> saving[t] + IF t \in m_torrents THEN 1 ELSE 0]
       /\ m_num_in_flight' = m_num_in_flight + Cardinality(m_torrents)
       /\ m_shutting_down' = TRUE
       /\ promised' = [t \in m_torrents \cap session |->
                         [version |-> version[t], tag |-> wanted[t]]]
       /\ pc' = "tick"
       /\ Sleep
       /\ UNCHANGED <<session, alive, version, modified, added, adding, m_torrents, m_cursor,
                      m_pending_tags, num_to_save, quit, wanted, uncounted>>
  ELSE Die

CheckQuit ==
  /\ pc = "check_quit"
  /\ IF quit /\ ~m_shutting_down
     THEN SaveAll
     ELSE /\ pc' = "tick"
          /\ Sleep
          /\ UNCHANGED <<sessionVars, resumeVars, num_to_save, quit, ghostVars>>

\* The save_resume_data() calls not yet carried out, and the answers to others
\* in a queue of alerts.
Asked      == UNION {{t} \X (1 .. saving[t]) : t \in Torrent}
Answers(s) == {i \in DOMAIN s : s[i].type \in {"saved", "save_failed"}}

\* The bound on what libtorrent is behind with; no part of the code looks at it.
NotBehind == Cardinality(Asked) + Cardinality(Answers(alerts)) < MaxInFlight

\* tick(), every 500 ms, works out how many torrents are due to be saved.
Tick(n) ==
  /\ pc = "tick"
  /\ ~quit
  /\ n <= Cardinality(m_torrents)
  /\ NotBehind
  /\ num_to_save' = n
  /\ pc' = "ticking"
  /\ Sleep
  /\ UNCHANGED <<sessionVars, resumeVars, quit, ghostVars>>

NoTick ==
  /\ pc = "tick"
  /\ pc' = "while"
  /\ Sleep
  /\ UNCHANGED <<sessionVars, resumeVars, num_to_save, quit, ghostVars>>

Thrown == pc' = "while" /\ num_to_save' = 0

\* One round of tick()'s loop.  The torrent is asked for its resume data and
\* then for its name; either call throws when the torrent is gone.
TickSave ==
  LET t == IF m_cursor = End THEN Begin(m_torrents) ELSE m_cursor IN
  /\ pc = "ticking"
  /\ num_to_save > 0
  /\ m_cursor' = t
  /\ IF t \in alive THEN Ask(t) /\ pc' = "status" /\ UNCHANGED num_to_save
     ELSE Thrown /\ UNCHANGED saving
  /\ Sleep
  /\ UNCHANGED <<session, alive, version, modified, added, adding, m_torrents, m_pending_tags,
                 m_num_in_flight, m_shutting_down, quit, ghostVars>>

\* Mutant: the cursor is not moved on.
TickStatus_stays ==
  /\ pc = "status"
  /\ IF m_cursor \in alive
     THEN /\ m_num_in_flight' = m_num_in_flight + 1
          /\ num_to_save' = num_to_save - 1
          /\ pc' = "ticking"
          /\ UNCHANGED uncounted
     ELSE Thrown /\ uncounted' = uncounted + 1 /\ UNCHANGED m_num_in_flight
  /\ Sleep
  /\ UNCHANGED <<sessionVars, m_torrents, m_cursor, m_pending_tags, m_shutting_down, quit,
                 wanted, promised>>

TickStatus ==
  /\ pc = "status"
  /\ IF m_cursor \in alive
     THEN /\ m_num_in_flight' = m_num_in_flight + 1
          /\ num_to_save' = num_to_save - 1
          /\ m_cursor' = After(m_cursor)
          /\ pc' = "ticking"
          /\ UNCHANGED uncounted
     ELSE Thrown /\ uncounted' = uncounted + 1 /\ UNCHANGED <<m_num_in_flight, m_cursor>>
  /\ Sleep
  /\ UNCHANGED <<sessionVars, m_torrents, m_pending_tags, m_shutting_down, quit, wanted, promised>>

TickDone ==
  /\ pc = "ticking"
  /\ num_to_save = 0
  /\ pc' = "while"
  /\ Sleep
  /\ UNCHANGED <<sessionVars, resumeVars, num_to_save, quit, ghostVars>>

\* while (!quit || !resume.ok_to_quit())
While ==
  /\ pc = "while"
  /\ pc' = IF ~quit \/ m_num_in_flight # 0 THEN "dispatch" ELSE "exited"
  /\ Sleep
  /\ UNCHANGED <<sessionVars, resumeVars, num_to_save, quit, ghostVars>>

\* A second signal, while the process is shutting down.
ForceQuit ==
  /\ pc = "while"
  /\ m_shutting_down
  /\ pc' = "exited"
  /\ promised' = Nothing
  /\ Sleep
  /\ UNCHANGED <<sessionVars, resumeVars, num_to_save, quit, wanted, uncounted>>

Crash == Die

\* The session starts empty, and load() adds what the database has.
Start ==
  /\ pc \in {"down", "exited"}
  /\ starts < MaxStarts
  /\ starts' = starts + 1
  /\ Forget(DOMAIN db, [t \in {t \in DOMAIN db : db[t].tag # 0} |-> db[t].tag])
  /\ pc' = "while"
  /\ wanted' = [t \in Torrent |-> IF t \in DOMAIN db THEN db[t].tag ELSE 0]
  /\ promised' = db

\* The bound on the starts is reached.
Ended == pc \in {"down", "exited"} /\ starts = MaxStarts /\ UNCHANGED vars

Running == pc \notin {"down", "exited"}

Network(t) == NetworkAdd(t) \/ NetworkSave(t)

MainLoop ==
  \/ PopAlerts \/ HistoryAdded \/ ResumeAdded \/ ResumeAddedSave \/ ResumeAddedApply
  \/ ResumeSaveWanted \/ ResumeRemoved \/ ResumeSaved \/ ResumeFailed \/ AlertsDone
  \/ CheckQuit \/ TickSave \/ TickStatus \/ TickDone \/ NoTick \/ While
TickDue == \E n \in 1 .. Cardinality(Torrent) : Tick(n)

User ==
  \/ \E t \in Torrent, v \in {0, 1} \cap Version : UserAdd(t, v)
  \/ \E t \in Torrent : UserRemove(t)
  \/ \E t \in Torrent, value \in TagValue : UserSetTag(t, value)

Next ==
  \/ /\ Running
     /\ \/ \E t \in Torrent : Network(t)
        \/ \E t \in Torrent, tell \in BOOLEAN : Modify(t, tell)
        \/ \E t \in Torrent : Expire(t)
        \/ User
        \/ MainLoop
        \/ TickDue
        \/ Signal
        \/ ForceQuit
        \/ Crash
  \/ Start
  \/ Ended

Spec == Init /\ [][Next]_vars

\* The threads run, and ticks keep coming while they are wanted.
FairSpec ==
  /\ Spec
  /\ WF_vars(Running /\ MainLoop)
  /\ SF_vars(Running /\ TickDue)
  /\ \A t \in Torrent : WF_vars(Running /\ Network(t))

-----------------------------------------------------------------------------

\* The saves asked for that are not in the count: those status() made tick()
\* forget, and the one it is about to count.
NotCounted == uncounted + IF pc = "status" THEN 1 ELSE 0

\* m_num_in_flight counts the saves asked for and not answered, whatever is
\* removed and when, but for those that status() made tick() forget: by these it
\* is too low, and by nothing else is it wrong.
InFlightAccounted ==
  Running => m_num_in_flight + NotCounted
               = Cardinality(Asked) + Cardinality(Answers(batch)) + Cardinality(Answers(alerts))

\* A process that shut down on its own has stored all that the torrents had
\* when it asked, also what an earlier save was still to deliver then, unless a
\* torrent that went during a tick left a save uncounted.
CleanExitSaves ==
  pc = "exited" /\ uncounted = 0 => \A t \in DOMAIN promised :
    t \in DOMAIN db /\ db[t].version = promised[t].version

\* Their tags too (docs/libtorrent-webui.rst:1384: "Tag values are persisted
\* across server restarts alongside each torrent's add-torrent parameters").
TagsPersist ==
  pc = "exited" => \A t \in DOMAIN promised :
    t \in DOMAIN db /\ db[t].tag = promised[t].tag

\* A torrent that is loaded has the tag it was stored with, unless the user
\* changed it; nothing overwrites its row with a tag of 0 before that.
TagsRestored ==
  Running /\ ~m_shutting_down => \A t \in DOMAIN promised \cap DOMAIN db :
    /\ db[t].tag = promised[t].tag
    /\ t \in m_torrents /\ (batch = <<>> \/ Current # t) => tags[t] = promised[t].tag

\* A torrent that was removed is not loaded again (save_resume.cpp:182: "we
\* need to delete the resume file from the resume directory as well, to
\* prevent it from being reloaded on next startup").
RemovedStaysRemoved ==
  Running => \A t \in DOMAIN db :
    t \in session \cup adding \/ \E a \in Range(alerts \o batch) : a.t = t /\ a.type = "removed"

\* Every torrent gets its turn and is stored as it then is, whichever others are
\* asked for or removed before it: unless it is removed itself, or the process is
\* told to quit or dies.  (None changes for ever.)
ChangesAreSaved ==
  \A t \in Torrent :
    (Running /\ t \in m_torrents)
      ~> (quit \/ ~Running \/ t \notin session \/ (t \in DOMAIN db /\ db[t].version = version[t]))

\* A process told to quit does, also while torrents are removed.  One that did
\* not count a save may not: its answer takes the count below zero.
ShutdownEnds == (Running /\ quit) ~> (~Running \/ uncounted > 0)

\* An answer finds the save it is of counted (save_resume.cpp:209 and 333:
\* "TORRENT_ASSERT(m_num_in_flight > 0)").
AnswersAreCounted ==
  Handling("saved") \/ Handling("save_failed") => m_num_in_flight > 0
=============================================================================
