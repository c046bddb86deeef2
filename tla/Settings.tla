------------------------------ MODULE Settings ------------------------------
(***************************************************************************)
(* The settings: those of the libtorrent session, those of the programs    *)
(* around it (save_settings: m_ints and m_strings, set by name), the two   *)
(* calls that change them, and the file they are saved in.                 *)
(*                                                                         *)
(* The uTorrent interface saves at the end of every call, on the thread of *)
(* the request; main() saves when it ends.  A save renames the file to     *)
(* back it up, and writes a new one: the program may be killed between any *)
(* two steps, and the disk may be full.  Files are inodes with names, for  *)
(* a file that is being written can be renamed.                            *)
(***************************************************************************)
EXTENDS Integers, Sequences, FiniteSets, SequencesExt, Functions

CONSTANTS
  Setting,    \* the settings of a session
  Own,        \* those of utorrent_webui, auto_load and torrent_post: names libtorrent does not know
  Secret,     \* user_agent and peer_fingerprint: libtorrent_webui does not read or write them,
              \* utorrent_webui::set_settings does (utorrent_webui.cpp:729-746)
  Local,      \* those of the host
  Value,
  Default,    \* of every setting
  User,       \* the connections, and main()
  GroupOf,    \* their permissions
  Request,    \* the lists of settings and values they send
  MaxSaves    \* bounds the saves

ASSUME SettingsAssumption ==
  /\ Secret \subseteq Setting /\ Local \subseteq Setting /\ Own \cap Setting = {}
  /\ Default \in Value
  /\ GroupOf \in [User -> {"full", "remote", "read only"}]
  /\ \A r \in Request : r \in Seq([name : {r[i].name : i \in DOMAIN r}, val : Value])
  /\ MaxSaves \in Nat

VARIABLES
  running,   \* the program runs, or was only just started
  params,    \* the settings of the session
  m_values,  \* m_ints and m_strings
  named,     \* the inode of each name: 0 is none
  content,   \* what is in each inode
  saving,    \* what each save is about to do
  saves,     \* how many began
  done,      \* the contents of the last save that was completed
  open,      \* how many began since
  overlap    \* two were under way at once; the code does not keep these four

settingVars == <<running, params, m_values, named, content, saving, saves, done, open, overlap>>

Inode == 1..MaxSaves
\* Empty, or a part of what was to be written.
Cut == [whole |-> FALSE, inner |-> <<>>, outer |-> <<>>]
NotSaving == [step |-> "no", values |-> <<>>, state |-> <<>>, has_settings |-> FALSE, has_backup |-> FALSE, inode |-> 0]

\* m_ints and m_strings are copied from the settings the session is made with;
\* libtorrent says which of its own are not the default.
Partial(keys) == UNION {[K -> Value] : K \in SUBSET keys}

SettingsTypeOK ==
  /\ running \in {"no", "fresh", "yes"}
  /\ params \in [Setting -> Value]
  /\ m_values \in Partial(Setting \cup Own)
  /\ named \in [{"settings", "backup"} -> 0..MaxSaves]
  /\ named["settings"] # 0 => named["settings"] # named["backup"]
  /\ \A i \in Inode : content[i].inner \in Partial(Setting) /\ content[i].outer \in Partial(Setting \cup Own)
  /\ \A u \in User : saving[u].step \in {"no", "look", "remove", "rename", "truncate", "write"}
  /\ saves \in 0..MaxSaves /\ open \in 0..saves

SettingsInit ==
  /\ running = "fresh"
  /\ params = [s \in Setting |-> Default] /\ m_values = <<>>
  /\ named = [n \in {"settings", "backup"} |-> 0]
  /\ content = [i \in Inode |-> Cut]
  /\ saving = [u \in User |-> NotSaving] /\ saves = 0
  /\ done = Cut /\ open = 0 /\ overlap = FALSE

diskVars == <<named, content>>
ghostVars == <<done, open, overlap>>

-----------------------------------------------------------------------------
(* The calls that set                                                      *)

AllowSet(group, s) == group = "full" \/ (group = "remote" /\ s \notin Local)
AllowStop(group) == group \in {"full", "remote"}

\* libtorrent_webui::set_settings: all of them or none.
SetAll(u, r) ==
  /\ running # "no" /\ running' = "yes"
  /\ \A i \in DOMAIN r : /\ r[i].name \in Setting \ Secret
                         /\ AllowSet(GroupOf[u], r[i].name)
  /\ params' = [s \in Setting |->
       LET last == SelectLastInSeq(r, LAMBDA p : p.name = s) IN IF last = 0 THEN params[s] ELSE r[last].val]
  /\ UNCHANGED <<m_values, diskVars, saving, saves, ghostVars>>

\* What a request of the uTorrent interface may set: the others are skipped, as are
\* all but the first of those with one name.
May(group, name) ==
  CASE name \in {"ut_webui_cookie", "default_del_action"} -> TRUE
    [] name = "start_paused" -> AllowStop(group)
    [] name \in Own -> group = "full"
    [] OTHER -> AllowSet(group, name)

Taken(u, r) ==
  {i \in DOMAIN r : /\ r[i].name \in Setting \cup Own /\ May(GroupOf[u], r[i].name)
                    /\ \A j \in 1..(i - 1) : r[j].name # r[i].name}

Updated(f, r, I) ==
  [k \in DOMAIN f \cup {r[i].name : i \in I} |->
     IF \E i \in I : r[i].name = k THEN r[CHOOSE i \in I : r[i].name = k].val ELSE f[k]]

\* save() begins: it copies the values.
Saving(u, values) ==
  /\ saving' = [saving EXCEPT ![u] = [NotSaving EXCEPT !.step = "look", !.values = values]]
  /\ saves' = saves + 1
  /\ open' = open + 1
  /\ overlap' = (overlap \/ \E v \in User : saving[v].step # "no")
  /\ UNCHANGED done

\* utorrent_webui::set_settings
SetSome(u, r) ==
  /\ running # "no" /\ running' = "yes" /\ saving[u].step = "no" /\ saves < MaxSaves
  /\ LET taken == Taken(u, r)
         own == {i \in taken : r[i].name \in Own}
     IN  /\ m_values' = Updated(m_values, r, own)
         /\ params' = Updated(params, r, taken \ own)
  /\ Saving(u, m_values')
  /\ UNCHANGED diskVars

-----------------------------------------------------------------------------
(* save_settings::save                                                     *)

Exists(n) == named[n] # 0

Look(u) ==
  /\ saving[u].step = "look"
  /\ saving' = [saving EXCEPT ![u] =
       [@ EXCEPT !.step = "remove", !.has_settings = Exists("settings"), !.has_backup = Exists("backup")]]
  /\ UNCHANGED <<running, params, m_values, diskVars, saves, ghostVars>>

RemoveBackup(u) ==
  /\ saving[u].step = "remove"
  /\ saving' = [saving EXCEPT ![u].step = "rename"]
  /\ named' = IF saving[u].has_settings /\ saving[u].has_backup
              THEN [named EXCEPT !["backup"] = 0] ELSE named
  /\ UNCHANGED <<running, params, m_values, content, saves, ghostVars>>

\* Mutant: the file is not renamed when there was a backup.
Rename_once(u) ==
  /\ saving[u].step = "rename"
  /\ saving' = [saving EXCEPT ![u].step = "truncate"]
  /\ named' = IF saving[u].has_settings /\ ~saving[u].has_backup /\ Exists("settings")
              THEN [settings |-> 0, backup |-> named["settings"]] ELSE named
  /\ UNCHANGED <<running, params, m_values, content, saves, ghostVars>>

\* A file that is not there any more is not renamed.
Rename(u) ==
  /\ saving[u].step = "rename"
  /\ saving' = [saving EXCEPT ![u].step = "truncate"]
  /\ named' = IF saving[u].has_settings /\ Exists("settings")
              THEN [settings |-> 0, backup |-> named["settings"]] ELSE named
  /\ UNCHANGED <<running, params, m_values, content, saves, ghostVars>>

\* libtorrent is asked for what is not the default.
session_state == Restrict(params, {s \in Setting : params[s] # Default})

\* save_file opens the file, and truncates it or makes a new one.
Truncate(u) ==
  /\ saving[u].step = "truncate"
  /\ \E i \in Inode :
       /\ IF Exists("settings") THEN i = named["settings"]
          ELSE /\ \A n \in DOMAIN named : named[n] # i
               /\ \A v \in User : saving[v].inode # i
       /\ named' = [named EXCEPT !["settings"] = i]
       /\ content' = [content EXCEPT ![i] = Cut]
       /\ saving' = [saving EXCEPT ![u] = [@ EXCEPT !.step = "write", !.state = session_state, !.inode = i]]
  /\ UNCHANGED <<running, params, m_values, saves, ghostVars>>

\* What is written: libtorrent keeps its settings in a dictionary of their own.
Written(u) == [whole |-> TRUE, inner |-> saving[u].state, outer |-> saving[u].values]

\* The file is written, in part or as a whole: nobody looks at what save_file
\* returns, and two that write it at once may mix it up.
Write(u) ==
  /\ saving[u].step = "write"
  /\ \/ /\ content' = [content EXCEPT ![saving[u].inode] = Written(u)]
        /\ done' = Written(u) /\ open' = 0
     \/ /\ content' = [content EXCEPT ![saving[u].inode] = Cut]
        /\ UNCHANGED <<done, open>>
  /\ saving' = [saving EXCEPT ![u] = NotSaving]
  /\ UNCHANGED <<running, params, m_values, named, saves, overlap>>

-----------------------------------------------------------------------------
(* Start and end                                                           *)

Decodes(n) == Exists(n) /\ content[named[n]].whole

\* load_settings: the backup is read when the file does not decode.
Loaded ==
  CASE Decodes("settings") -> content[named["settings"]]
    [] ~Decodes("settings") /\ Decodes("backup") -> content[named["backup"]]
    [] OTHER -> Cut

\* load_settings_impl takes what it knows by name, and of what libtorrent wrote only
\* the state of the DHT; save_settings keeps what was taken.
StartProgram ==
  /\ running = "no" /\ running' = "fresh"
  /\ LET taken == Restrict(Loaded.outer, DOMAIN Loaded.outer \cap Setting) IN
     /\ params' = [s \in Setting |-> IF s \in DOMAIN taken THEN taken[s] ELSE Default]
     /\ m_values' = taken
  /\ UNCHANGED <<diskVars, saving, saves, ghostVars>>

\* main() saves when it ends.
SaveAtExit(u) ==
  /\ running # "no" /\ saves < MaxSaves /\ \A v \in User : saving[v].step = "no"
  /\ Saving(u, m_values)
  /\ UNCHANGED <<running, params, m_values, diskVars>>

\* The program ends, or is killed.
Stops ==
  /\ running # "no" /\ running' = "no"
  /\ saving' = [u \in User |-> NotSaving]
  /\ UNCHANGED <<params, m_values, diskVars, saves, ghostVars>>

SettingsNext ==
  \/ \E u \in User :
       \/ \E r \in Request : SetAll(u, r) \/ SetSome(u, r)
       \/ Look(u) \/ RemoveBackup(u) \/ Rename(u) \/ Truncate(u) \/ Write(u) \/ SaveAtExit(u)
  \/ StartProgram \/ Stops

-----------------------------------------------------------------------------

\* At any moment a start would find what the last save wrote that was completed,
\* unless saves overlap, or another one was begun after one that was cut off (it
\* renames what there is of the file, and what was good is gone).
LastSaveKept == ~overlap /\ open <= 1 /\ done # Cut => Loaded = done

\* What was set and saved is set again when the program starts.  It is not: the
\* settings of the session are read from where only those it started with are.
SettingsKept ==
  running = "fresh" => \A s \in DOMAIN Loaded.inner : params[s] = Loaded.inner[s]
=============================================================================
