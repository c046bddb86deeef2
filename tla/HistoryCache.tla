---------------------------- MODULE HistoryCache -----------------------------
(***************************************************************************)
(* What the calls about one torrent have in common: the server keeps a     *)
(* history of each of the torrents asked for last, newest first, and the   *)
(* clients poll with the frame of the last response.  A torrent that is    *)
(* asked for again after its history was dropped starts a new one, and its *)
(* frames start again.                                                     *)
(***************************************************************************)
EXTENDS Integers, Sequences, FiniteSetsExt, SequencesExt, Ordering

CONSTANTS
  Torrent,        \* the torrents
  Active,         \* those something happens to; the others only take a place
  Client,         \* the clients; each has a connection and a thread of its own
  CacheSize,      \* how many histories are kept: 10
  MaxTombstones,  \* m_max_tombstones
  MaxPolls        \* bounds on how often each torrent is asked for

ASSUME HistoryCacheAssumption ==
  /\ Active \subseteq Torrent
  /\ CacheSize \in Nat \ {0}
  /\ MaxTombstones \in Nat
  /\ MaxPolls \in [Torrent -> Nat]

VARIABLES
  polls,  \* how often each torrent was asked for
  lives,  \* how many histories each torrent had
  frame,  \* the frame each client has of each torrent
  life    \* the history of its last snapshot; the code does not keep it

pollVars == <<polls, lives, frame, life>>

PollTypeOK ==
  /\ polls \in [Torrent -> Nat] /\ lives \in [Torrent -> Nat]
  /\ frame \in [Client -> [Torrent -> Nat]]
  /\ life \in [Client -> [Torrent -> Nat]]

PollInit ==
  /\ polls = [t \in Torrent |-> 0]
  /\ lives = [t \in Torrent |-> 0]
  /\ frame = [c \in Client |-> [t \in Torrent |-> 0]]
  /\ life = [c \in Client |-> [t \in Torrent |-> 0]]

Known(cache, t) == \E i \in DOMAIN cache : cache[i].m_ih = t

PlaceOf(cache, t) == CHOOSE i \in DOMAIN cache : cache[i].m_ih = t

\* The history of t, or a new one.
HistoryOf(cache, t, new) == IF Known(cache, t) THEN cache[PlaceOf(cache, t)] ELSE new

\* The cache without the history of t.
Dropped(cache, t) == IF Known(cache, t) THEN RemoveAt(cache, PlaceOf(cache, t)) ELSE cache

\* The cache once history h was used: it goes to the front, and when it is a new
\* one, the one used least recently goes.
Used(cache, h) ==
  <<h>> \o (IF Known(cache, h.m_ih) THEN Dropped(cache, h.m_ih)
            ELSE SubSeq(cache, 1, Min({CacheSize - 1, Len(cache)})))

IsCache(cache) ==
  /\ Len(cache) <= CacheSize
  /\ \A i, j \in DOMAIN cache : cache[i].m_ih = cache[j].m_ih => i = j
  /\ \A i \in DOMAIN cache : cache[i].m_ih \in Torrent

\* Client c asks about t; its answer, from the history that is in the cache or
\* a new one, has frame f.
Answered(cache, c, t, f, is_snapshot) ==
  /\ polls[t] < MaxPolls[t]
  /\ polls' = [polls EXCEPT ![t] = @ + 1]
  /\ lives' = IF Known(cache, t) THEN lives ELSE [lives EXCEPT ![t] = @ + 1]
  /\ frame' = [frame EXCEPT ![c][t] = f]
  /\ life' = IF is_snapshot THEN [life EXCEPT ![c][t] = lives'[t]] ELSE life

\* The client's last snapshot is of the history that answered.
SameLife(c, t) == life'[c][t] = lives'[t]
=============================================================================
