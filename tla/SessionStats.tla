---------------------------- MODULE SessionStats ----------------------------
(***************************************************************************)
(* The counters of the session: libtorrent posts them when it was asked    *)
(* to, libtorrent_webui keeps each with the frame it changed in, and       *)
(* get-stats sends those of a list that changed since the frame of the     *)
(* connection.  An answer is of the counters that were posted before:      *)
(* those it asks libtorrent for come later.  A connection asks for the     *)
(* same list every time, as the pages do: its frame is one for all lists.  *)
(***************************************************************************)
EXTENDS Integers, Sequences, FiniteSets, SequencesExt

CONSTANTS
  Metric,      \* the counters
  Page,        \* the connections that are allowed to see them
  StatsOf,     \* the list each asks for
  MaxPosts,    \* bounds the alerts
  MaxAsked     \* bounds the calls of a connection that are not answered yet

ASSUME SessionStatsAssumption ==
  StatsOf \in [Page -> SUBSET Metric] /\ MaxPosts \in Nat /\ MaxAsked \in Nat

VARIABLES
  counters,       \* libtorrent: those that are in use; each is 0 or 1
  posting,        \* it was asked for them
  posts,          \* how often they were posted
  m_stats,        \* the value of each, and the frame it changed in
  m_stats_frame,
  _stats_frame,   \* of each connection
  shown,          \* what a page shows
  requests,       \* the frames it asked with, on their way
  responses       \* on their way to it

statsVars == <<counters, posting, posts, m_stats, m_stats_frame, _stats_frame, shown, requests, responses>>

SessionStatsTypeOK ==
  /\ counters \in [Metric -> {0, 1}] /\ posting \in BOOLEAN /\ posts \in 0..MaxPosts
  /\ m_stats_frame \in 0..MaxPosts
  /\ m_stats \in [Metric -> [value : {0, 1}, frame : 0..m_stats_frame]]
  /\ _stats_frame \in [Page -> 0..m_stats_frame]
  /\ shown \in [Page -> [Metric -> {0, 1}]]
  /\ \A p \in Page : Len(requests[p]) + Len(responses[p]) <= MaxAsked

SessionStatsInit ==
  /\ counters = [s \in Metric |-> 0] /\ posting = FALSE /\ posts = 0
  /\ m_stats = [s \in Metric |-> [value |-> 0, frame |-> 0]] /\ m_stats_frame = 0
  /\ _stats_frame = [p \in Page |-> 0]
  /\ shown = [p \in Page |-> [s \in Metric |-> 0]]
  /\ requests = [p \in Page |-> <<>>] /\ responses = [p \in Page |-> <<>>]

Counts(s) ==
  /\ counters' = [counters EXCEPT ![s] = 1 - @]
  /\ UNCHANGED <<posting, posts, m_stats, m_stats_frame, _stats_frame, shown, requests, responses>>

\* session_stats_alert.  Mutant: the frame is counted after the counters are stamped.
StampedWith_last == m_stats_frame

StampedWith == m_stats_frame + 1

StatsPosted ==
  /\ posting /\ posting' = FALSE /\ posts < MaxPosts /\ posts' = posts + 1
  /\ m_stats_frame' = m_stats_frame + 1
  /\ m_stats' = [s \in Metric |->
       IF m_stats[s].value # counters[s] THEN [value |-> counters[s], frame |-> StampedWith] ELSE m_stats[s]]
  /\ UNCHANGED <<counters, _stats_frame, shown, requests, responses>>

CallStats(p) ==
  /\ Len(requests[p]) + Len(responses[p]) < MaxAsked
  /\ requests' = [requests EXCEPT ![p] = Append(@, _stats_frame[p])]
  /\ UNCHANGED <<counters, posting, posts, m_stats, m_stats_frame, _stats_frame, shown, responses>>

\* get_stats
Answer(list, frame) ==
  [frame |-> m_stats_frame,
   updates |-> {[metric |-> s, value |-> m_stats[s].value] : s \in {x \in list : m_stats[x].frame > frame}}]

GetStats(p) ==
  /\ requests[p] # <<>> /\ requests' = [requests EXCEPT ![p] = Tail(@)]
  /\ posting' = TRUE
  /\ responses' = [responses EXCEPT ![p] = Append(@, Answer(StatsOf[p], Head(requests[p])))]
  /\ UNCHANGED <<counters, posts, m_stats, m_stats_frame, _stats_frame, shown>>

\* The callback of get_stats.
OnStats(p) ==
  /\ responses[p] # <<>>
  /\ LET r == Head(responses[p])
         value(s) == (CHOOSE u \in r.updates : u.metric = s).value
     IN  /\ _stats_frame' = [_stats_frame EXCEPT ![p] = r.frame]
         /\ shown' = [shown EXCEPT ![p] = [s \in Metric |->
              IF \E u \in r.updates : u.metric = s THEN value(s) ELSE @[s]]]
  /\ responses' = [responses EXCEPT ![p] = Tail(@)]
  /\ UNCHANGED <<counters, posting, posts, m_stats, m_stats_frame, requests>>

SessionStatsNext ==
  \/ \E s \in Metric : Counts(s)
  \/ StatsPosted
  \/ \E p \in Page : CallStats(p) \/ GetStats(p) \/ OnStats(p)

-----------------------------------------------------------------------------

\* A page shows every counter of its list as it is kept, unless it changed after the
\* page's frame: nothing is missed, however many calls are under way and however
\* often others ask.
StatsShown ==
  \A p \in Page : \A s \in StatsOf[p] :
    m_stats[s].frame <= _stats_frame[p] => shown[p][s] = m_stats[s].value
=============================================================================
