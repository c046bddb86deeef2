------------------------------ MODULE AutoLoad ------------------------------
(***************************************************************************)
(* auto_load: a thread scans a directory for .torrent files, and adds what *)
(* it finds.  What was added is known by the name of its file; when files  *)
(* are to be removed, the one of a torrent is once the alert says that it  *)
(* was added.  Scans, alerts and the calls that change the directory, the  *)
(* interval or whether files are removed come from three kinds of threads. *)
(*                                                                         *)
(* A whole file stays as it is until it is removed, and libtorrent posts   *)
(* alerts: without them files are removed before their torrent is added.   *)
(***************************************************************************)
EXTENDS Integers, Sequences, FiniteSets, SequencesExt

CONSTANTS
  Dir,        \* the directories
  Name,       \* the names that end in .torrent
  Setter,     \* the threads that change the settings
  Dir0,       \* m_dir at first
  MaxAdds,    \* bounds m_next_pending_id: no add fails once it would be passed
  MaxSets     \* bounds the changes of the settings

ASSUME AutoLoadAssumption ==
  /\ Dir0 \in Dir /\ MaxSets \in Nat
  /\ IsFiniteSet(Dir \X Name)
  /\ MaxAdds \in Nat /\ MaxAdds >= Cardinality(Dir \X Name)

VARIABLES
  files,            \* the .torrent files of each directory: not there, in part, whole
  m_remove_files,
  m_dir,
  m_scan_interval,  \* 0 is disabled
  m_already_loaded,
  m_pending_files,  \* the files of the adds, by their id
  m_next_pending_id,
  armed,            \* how many wait for m_timer
  expired,          \* how many of its handlers are to be called
  scan,             \* where on_scan is
  setting,          \* where each call to set_scan_interval or set_auto_load_dir is
  submitted,           \* the torrents libtorrent was asked to add
  added,            \* the alerts of those it added, or not
  removing,         \* where handle_alert is
  m_abort,
  joined,           \* the thread has ended
  sets,             \* how many changes there were
  loaded,           \* the files whose torrents were added
  kept              \* those that were to be kept; the code does not keep these two

autoLoadVars ==
  <<files, m_remove_files, m_dir, m_scan_interval, m_already_loaded, m_pending_files, m_next_pending_id,
    armed, expired, scan, setting, submitted, added, removing, m_abort, joined, sets, loaded, kept>>
settingsVars == <<m_remove_files, m_dir, m_scan_interval>>
loadVars == <<m_already_loaded, m_pending_files, m_next_pending_id, kept>>
sessionVars == <<submitted, added, removing, loaded>>
timerVars == <<armed, expired>>

Path == Dir \X Name
NotScanning == [step |-> "no", dir |-> Dir0, remove |-> FALSE, todo |-> {}, file |-> ""]
NotRemoving == [step |-> "no", path |-> <<Dir0, "">>]
NoId == 0

AutoLoadTypeOK ==
  /\ files \in [Path -> {"absent", "partial", "whole"}]
  /\ m_remove_files \in BOOLEAN /\ m_dir \in Dir /\ m_scan_interval \in {0, 20}
  /\ m_already_loaded \subseteq Name
  /\ m_next_pending_id \in 0..MaxAdds
  /\ DOMAIN m_pending_files \subseteq 1..m_next_pending_id
  /\ \A id \in DOMAIN m_pending_files : m_pending_files[id] \in Path
  /\ armed \in 0..1 /\ expired \in 0..1 + MaxSets
  /\ scan.step \in {"no", "list", "next", "add", "arm"} /\ scan.todo \subseteq Name
  /\ setting \in [Setter -> {"no", "look", "cancel", "arm", "scan now"}]
  /\ \A id \in DOMAIN m_pending_files :
       IF \E a \in submitted : a.id = id
       THEN \A i \in DOMAIN added : added[i].id # id
       ELSE \E i \in DOMAIN added : \A j \in DOMAIN added : added[j].id = id <=> j = i
  /\ \A a, b \in submitted : a.id = b.id => a = b \/ a.id = NoId
  /\ loaded \subseteq Path /\ kept \subseteq Path
  /\ joined => m_abort

AutoLoadInit ==
  /\ files = [p \in Path |-> "absent"]
  /\ m_remove_files = TRUE /\ m_dir = Dir0 /\ m_scan_interval = 20
  /\ m_already_loaded = {} /\ m_pending_files = <<>> /\ m_next_pending_id = NoId
  /\ armed = 1 /\ expired = 0
  /\ scan = NotScanning /\ setting = [s \in Setter |-> "no"]
  /\ submitted = {} /\ added = <<>> /\ removing = NotRemoving
  /\ m_abort = FALSE /\ joined = FALSE /\ sets = 0
  /\ loaded = {} /\ kept = {}

-----------------------------------------------------------------------------
(* The directory, and the timer                                            *)

\* Somebody writes a file, which takes a while.
FileWritten(p) ==
  /\ ~m_abort /\ p \notin loaded
  /\ files[p] # "whole"
  /\ files' = [files EXCEPT ![p] = IF @ = "absent" THEN "partial" ELSE "whole"]
  /\ UNCHANGED <<settingsVars, loadVars, timerVars, scan, setting, sessionVars, m_abort, joined, sets>>

\* expires_after takes the waits back that did not expire; async_wait starts one.
Arm == armed' = 1 /\ UNCHANGED expired

Expires ==
  /\ armed > 0 /\ armed' = 0 /\ expired' = expired + armed
  /\ UNCHANGED <<files, settingsVars, loadVars, scan, setting, sessionVars, m_abort, joined, sets>>

-----------------------------------------------------------------------------
(* on_scan                                                                 *)

\* Mutant: whether the thread is to end is not looked at.
OnScan_on ==
  /\ scan.step = "no" /\ expired > 0 /\ ~joined
  /\ expired' = expired - 1 /\ UNCHANGED armed
  /\ IF m_scan_interval = 0
     THEN UNCHANGED scan
     ELSE scan' = [NotScanning EXCEPT !.step = "list", !.dir = m_dir, !.remove = m_remove_files]
  /\ UNCHANGED <<files, settingsVars, loadVars, setting, sessionVars, m_abort, joined, sets>>

OnScan ==
  /\ scan.step = "no" /\ expired > 0 /\ ~joined
  /\ expired' = expired - 1 /\ UNCHANGED armed
  /\ IF m_abort \/ m_scan_interval = 0
     THEN UNCHANGED scan
     ELSE scan' = [NotScanning EXCEPT !.step = "list", !.dir = m_dir, !.remove = m_remove_files]
  /\ UNCHANGED <<files, settingsVars, loadVars, setting, sessionVars, m_abort, joined, sets>>

\* A directory that cannot be read has no files.
ListDir ==
  /\ scan.step = "list"
  /\ \E ents \in {{}, {n \in Name : files[<<scan.dir, n>>] # "absent"}} :
       scan' = [scan EXCEPT !.step = "next", !.todo = ents]
  /\ UNCHANGED <<files, settingsVars, loadVars, timerVars, setting, sessionVars, m_abort, joined, sets>>

\* The next file is loaded, unless its name is known or it does not parse.
Found(n) == n \notin m_already_loaded /\ files[<<scan.dir, n>>] = "whole"

NextFile ==
  /\ scan.step = "next"
  /\ \E n \in scan.todo :
       scan' = IF Found(n) THEN [scan EXCEPT !.todo = @ \ {n}, !.file = n, !.step = "add"]
               ELSE [scan EXCEPT !.todo = @ \ {n}]
  /\ UNCHANGED <<files, settingsVars, loadVars, timerVars, setting, sessionVars, m_abort, joined, sets>>

\* A file that is to be removed has an id its alert will find it by.  What is started
\* paused or not is left out.
AddFile ==
  /\ scan.step = "add"
  /\ LET path == <<scan.dir, scan.file>>
         id == IF scan.remove THEN m_next_pending_id + 1 ELSE NoId
     IN  /\ m_already_loaded' = m_already_loaded \cup {scan.file}
         /\ IF scan.remove
            THEN /\ m_next_pending_id' = id
                 /\ m_pending_files' = [i \in DOMAIN m_pending_files \cup {id} |->
                                          IF i = id THEN path ELSE m_pending_files[i]]
                 /\ UNCHANGED kept
            ELSE kept' = kept \cup {path} /\ UNCHANGED <<m_next_pending_id, m_pending_files>>
         /\ submitted' = submitted \cup {[path |-> path, id |-> id]}
         /\ scan' = [scan EXCEPT !.step = "next", !.file = ""]
  /\ UNCHANGED <<files, settingsVars, timerVars, setting, added, removing, m_abort, joined, sets, loaded>>

\* At the end the interval is read, and then the timer is armed, whatever was
\* changed in between.
EndScan ==
  /\ scan.step = "next" /\ scan.todo = {}
  /\ scan' = IF m_scan_interval = 0 THEN NotScanning ELSE [scan EXCEPT !.step = "arm"]
  /\ UNCHANGED <<files, settingsVars, loadVars, timerVars, setting, sessionVars, m_abort, joined, sets>>

Rearm ==
  /\ scan.step = "arm" /\ scan' = NotScanning
  /\ Arm
  /\ UNCHANGED <<files, settingsVars, loadVars, setting, sessionVars, m_abort, joined, sets>>

-----------------------------------------------------------------------------
(* The calls                                                               *)

MaySet(s) == setting[s] = "no" /\ ~m_abort /\ sets < MaxSets

SetRemoveFiles(s, r) ==
  /\ MaySet(s) /\ sets' = sets + 1
  /\ m_remove_files' = r
  /\ UNCHANGED <<files, m_dir, m_scan_interval, loadVars, timerVars, scan, setting, sessionVars, m_abort, joined>>

SetAutoLoadDir(s, dir) ==
  /\ MaySet(s) /\ sets' = sets + 1
  /\ m_dir' = dir
  /\ setting' = [setting EXCEPT ![s] = "scan now"]
  /\ UNCHANGED <<files, m_remove_files, m_scan_interval, loadVars, timerVars, scan, sessionVars, m_abort, joined>>

SetScanInterval(s, v) ==
  /\ MaySet(s) /\ sets' = sets + 1
  /\ m_scan_interval' = v
  /\ setting' = IF m_scan_interval = v THEN setting ELSE [setting EXCEPT ![s] = "look"]
  /\ UNCHANGED <<files, m_remove_files, m_dir, loadVars, timerVars, scan, sessionVars, m_abort, joined>>

\* m_scan_interval is read again without the lock.  Mutant: a scan that is disabled
\* and enabled again is left to itself.
LookAgain_enabled(s) ==
  /\ setting[s] = "look"
  /\ setting' = [setting EXCEPT ![s] = IF m_scan_interval = 0 THEN "cancel" ELSE "no"]
  /\ UNCHANGED <<files, settingsVars, loadVars, timerVars, scan, sessionVars, m_abort, joined, sets>>

LookAgain(s) ==
  /\ setting[s] = "look"
  /\ setting' = [setting EXCEPT ![s] = IF m_scan_interval = 0 THEN "cancel" ELSE "arm"]
  /\ UNCHANGED <<files, settingsVars, loadVars, timerVars, scan, sessionVars, m_abort, joined, sets>>

SetTimer(s) ==
  /\ setting[s] \in {"cancel", "arm", "scan now"}
  /\ setting' = [setting EXCEPT ![s] = "no"]
  /\ IF setting[s] = "cancel" THEN armed' = 0 /\ UNCHANGED expired ELSE Arm
  /\ UNCHANGED <<files, settingsVars, loadVars, scan, sessionVars, m_abort, joined, sets>>

-----------------------------------------------------------------------------
(* The session, and handle_alert                                           *)

\* libtorrent adds a torrent, or cannot.
SessionAdds(a) ==
  /\ a \in submitted /\ submitted' = submitted \ {a}
  /\ \E error \in BOOLEAN :
       /\ error => m_next_pending_id + Cardinality(Path) <= MaxAdds
       /\ added' = Append(added, [path |-> a.path, id |-> a.id, error |-> error])
       /\ loaded' = IF error THEN loaded ELSE loaded \cup {a.path}
  /\ UNCHANGED <<files, settingsVars, loadVars, timerVars, scan, setting, removing, m_abort, joined, sets>>

\* What an alert leaves of the names.  Mutant: that of a torrent that was not added
\* stays.
NamesLeft_all(a) == m_already_loaded

NamesLeft(a) == IF a.error THEN m_already_loaded \ {m_pending_files[a.id][2]} ELSE m_already_loaded

\* Whether its file is removed.  Mutant: it is when the torrent was not added, too.
Removes_always(a) == m_remove_files

Removes(a) == ~a.error /\ m_remove_files

\* The destructor unsubscribes first.
HandleAlert ==
  /\ added # <<>> /\ removing.step = "no" /\ ~m_abort
  /\ added' = Tail(added)
  /\ LET a == Head(added) IN
     IF a.id \notin DOMAIN m_pending_files
     THEN UNCHANGED <<m_already_loaded, m_pending_files, removing>>
     ELSE /\ m_pending_files' = [i \in DOMAIN m_pending_files \ {a.id} |-> m_pending_files[i]]
          /\ m_already_loaded' = NamesLeft(a)
          /\ removing' = IF Removes(a) THEN [step |-> "remove", path |-> m_pending_files[a.id]] ELSE removing
  /\ UNCHANGED <<files, settingsVars, m_next_pending_id, kept, timerVars, scan, setting, submitted, m_abort, joined, sets, loaded>>

\* A file that cannot be removed keeps its name.
RemoveFile ==
  /\ removing.step = "remove"
  /\ \/ /\ files' = [files EXCEPT ![removing.path] = "absent"]
        /\ removing' = [removing EXCEPT !.step = "erase"]
     \/ UNCHANGED files /\ removing' = NotRemoving
  /\ UNCHANGED <<settingsVars, loadVars, timerVars, scan, setting, submitted, added, m_abort, joined, sets, loaded>>

EraseName ==
  /\ removing.step = "erase" /\ removing' = NotRemoving
  /\ m_already_loaded' = m_already_loaded \ {removing.path[2]}
  /\ UNCHANGED <<files, settingsVars, m_pending_files, m_next_pending_id, kept, timerVars, scan, setting, submitted, added, m_abort, joined, sets, loaded>>

\* ~auto_load: unsubscribe waits for the alert that is handled, and no call is under
\* way any more.
Abort ==
  /\ ~m_abort /\ removing.step = "no" /\ \A s \in Setter : setting[s] = "no"
  /\ m_abort' = TRUE
  /\ armed' = 0 /\ UNCHANGED expired
  /\ UNCHANGED <<files, settingsVars, loadVars, scan, setting, sessionVars, joined, sets>>

\* thread_fun ends when nothing is left to wait for.
JoinThread ==
  /\ m_abort /\ ~joined /\ armed = 0 /\ expired = 0 /\ scan.step = "no"
  /\ joined' = TRUE
  /\ UNCHANGED <<files, settingsVars, loadVars, timerVars, scan, setting, sessionVars, m_abort, sets>>

ThreadStep == OnScan \/ ListDir \/ NextFile \/ AddFile \/ EndScan \/ Rearm \/ JoinThread

AutoLoadNext ==
  \/ \E p \in Path : FileWritten(p)
  \/ Expires \/ ThreadStep
  \/ \E s \in Setter :
       \/ \E r \in BOOLEAN : SetRemoveFiles(s, r)
       \/ \E dir \in Dir : SetAutoLoadDir(s, dir)
       \/ \E v \in {0, 20} : SetScanInterval(s, v)
       \/ LookAgain(s) \/ SetTimer(s)
  \/ \E a \in submitted : SessionAdds(a)
  \/ HandleAlert \/ RemoveFile \/ EraseName \/ Abort

-----------------------------------------------------------------------------

\* A file is only removed when its torrent was added: what is removed would be lost.
RemovedWasAdded ==
  [][\A p \in Path : files[p] # "absent" /\ files'[p] = "absent" => p \in loaded]_autoLoadVars

\* libtorrent is not asked again to add a torrent it did not answer for, however many
\* scans and changes of the directory come before its answer; and a name keeps a file
\* from being loaded only while its torrent is asked for, or when it was added, so that
\* the others are tried again.  With files that are kept it is for good.
LoadedOnce ==
  /\ \A a, b \in submitted \cup {[path |-> added[i].path, id |-> added[i].id] : i \in DOMAIN added} :
       a.path = b.path => a = b
  /\ \A n \in m_already_loaded : \E p \in Path :
       /\ p[2] = n
       /\ \/ p \in loaded \cup kept
          \/ \E id \in DOMAIN m_pending_files : m_pending_files[id] = p

\* A scan is under way or to come: the timer waits, its handler is to be called, or a
\* call is on its way to set it.
ScanToCome ==
  \/ armed + expired > 0 \/ scan.step # "no"
  \/ \E s \in Setter : setting[s] \in {"look", "arm", "scan now"}

Scheduled == m_scan_interval # 0 /\ ~m_abort => ScanToCome

\* A call that saw an interval of zero cancels the timer when it is zero no longer:
\* another call has enabled scans again, and has set the timer or is about to.
StaleCancel == \E s \in Setter : setting[s] = "cancel" /\ setting'[s] = "no" /\ m_scan_interval # 0

\* While scans are enabled there is one under way or to come, whatever the calls
\* changed and in whatever order their steps came, but for one thing the code does not
\* keep from happening (auto_load.cpp:118-127): two calls that disable and enable
\* scans at once, the cancel of the first coming after the timer of the second.
ScanScheduled == Scheduled /\ [][Scheduled => Scheduled' \/ StaleCancel]_autoLoadVars

\* Without that exception it is violated, by those two calls.
ScanAlwaysScheduled == Scheduled

\* The destructor returns, at most one interval later: a scan that was under way arms
\* the timer once more.
ThreadJoins == m_abort ~> joined
=============================================================================
