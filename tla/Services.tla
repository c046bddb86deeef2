------------------------------ MODULE Services ------------------------------
(***************************************************************************)
(* The services around the session: the calls that change torrents, the    *)
(* settings and their file, the directory of torrents to load, the plugin  *)
(* that reads pieces, and the counters.  Their state is disjoint, and each *)
(* is looked at by itself.                                                 *)
(***************************************************************************)
EXTENDS TorrentCalls, Settings, AutoLoad, FileRequests, SessionStats

CONSTANT Part    \* what is looked at, of the five below

ASSUME ServicesAssumption ==
  Part \subseteq {"torrents", "settings", "auto_load", "file_requests", "stats"}

VARIABLE part

servicesVars == <<part, torrentCallVars, settingVars, autoLoadVars, requestVars, statsVars>>

Init ==
  /\ part \in Part
  /\ TorrentCallsInit /\ SettingsInit /\ AutoLoadInit /\ FileRequestsInit /\ SessionStatsInit

OfAutoLoad(A) ==
  part = "auto_load" /\ A /\ UNCHANGED <<part, torrentCallVars, settingVars, requestVars, statsVars>>
OfFileRequests(A) ==
  part = "file_requests" /\ A /\ UNCHANGED <<part, torrentCallVars, settingVars, autoLoadVars, statsVars>>

Next ==
  \/ part = "torrents" /\ TorrentCallsNext /\ UNCHANGED <<part, settingVars, autoLoadVars, requestVars, statsVars>>
  \/ part = "settings" /\ SettingsNext /\ UNCHANGED <<part, torrentCallVars, autoLoadVars, requestVars, statsVars>>
  \/ OfAutoLoad(AutoLoadNext)
  \/ OfFileRequests(FileRequestsNext)
  \/ part = "stats" /\ SessionStatsNext /\ UNCHANGED <<part, torrentCallVars, settingVars, autoLoadVars, requestVars>>

Safety == Init /\ [][Next]_servicesVars

\* The thread of auto_load runs and its timer expires; libtorrent calls its plugins.
Fairness ==
  /\ WF_servicesVars(OfAutoLoad(Expires)) /\ WF_servicesVars(OfAutoLoad(ThreadStep))
  /\ WF_servicesVars(OfFileRequests(OnTick)) /\ WF_servicesVars(OfFileRequests(AlertStep))

Spec == Safety /\ Fairness

TypeOK ==
  /\ part \in Part
  /\ TorrentCallsTypeOK /\ SettingsTypeOK /\ AutoLoadTypeOK /\ FileRequestsTypeOK /\ SessionStatsTypeOK
=============================================================================
