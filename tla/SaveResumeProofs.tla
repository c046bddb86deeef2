--------------------------- MODULE SaveResumeProofs ---------------------------
(***************************************************************************)
(* What is proved about save_resume and its main loop, for any torrents,   *)
(* tags and bounds: the types, the count of outstanding saves, that an     *)
(* exit has stored what shutting down promised, and that a stored tag is   *)
(* restored.                                                               *)
(***************************************************************************)
EXTENDS SaveResume, FiniteSetTheorems, FunctionTheorems, SequenceTheorems,
        NaturalsInduction, WellFoundedInduction, TLAPS

-----------------------------------------------------------------------------
(* The invariants.                                                         *)

Pending == Range(alerts) \cup Range(batch)

\* The types, with what keeps every access inside its domain: a torrent still
\* to be added has its row, and a step in the middle of an alert has the alert.
TypeInv ==
  /\ TypeOK
  /\ \A t \in DOMAIN m_pending_tags : m_pending_tags[t] \in TagValue
  /\ adding \subseteq DOMAIN db
  /\ pc \in {"insert", "save", "apply"} => batch # <<>> /\ Head(batch).type = "added"
  /\ pc \notin {"alert", "insert", "save", "apply"} => batch = <<>>
  /\ pc = "status" => num_to_save > 0

\* A torrent still to be added is nowhere yet, and one of which the removal is
\* to be handled is not in the session: nothing is added twice.
PlaceInv ==
  /\ alive \cup known \cup m_torrents \subseteq added \ adding
  /\ \A t \in Torrent : saving[t] > 0 => t \in added \ adding
  /\ \A a \in Pending : a.t \in added \ adding
  /\ \A a \in Pending : a.type = "removed" => a.t \notin session
  /\ pc = "status" => m_cursor \in m_torrents

ResumeInv == TypeInv /\ PlaceInv

CountInv == IsFiniteSet(Asked) /\ InFlightAccounted

\* Alert a says that torrent t was saved.
Saves(a, t) == a.t = t /\ a.type = "saved"

\* No alert of queue s saves t; the last one that does saves version v.
NoSave(s, t) == \A i \in DOMAIN s : ~Saves(s[i], t)
LastSaves(s, t, v) ==
  \A i \in DOMAIN s :
    Saves(s[i], t) /\ (\A j \in DOMAIN s : j > i => ~Saves(s[j], t)) => s[i].version = v

\* Once what libtorrent delivered is handled the database has version v of t.
WillHave(t, v) ==
  /\ LastSaves(alerts, t, v)
  /\ NoSave(alerts, t) => LastSaves(batch, t, v)
  /\ NoSave(alerts, t) /\ NoSave(batch, t) => t \in DOMAIN db /\ db[t].version = v

LatestInv == \A t \in session \ modified : WillHave(t, version[t])

\* A torrent that shutting down promised to save is unmodified, or a save of
\* it is still to be carried out.
PromiseInv ==
  m_shutting_down => \A t \in DOMAIN promised :
    /\ t \in session
    /\ version[t] = promised[t].version
    /\ t \in modified => saving[t] > 0

\* Until then what was stored when the process started is, and the tag is
\* either still to be applied or the torrent has it.
Loaded(t) ==
  /\ t \in (session \cup adding) \ modified
  /\ t \in DOMAIN db /\ db[t] = promised[t]
  /\ \A a \in Pending : ~Saves(a, t)
  /\ t \in DOMAIN m_pending_tags => m_pending_tags[t] = promised[t].tag
  /\ t \in DOMAIN m_pending_tags /\ t \in m_torrents => pc \in {"save", "apply"} /\ Current = t
  /\ t \notin DOMAIN m_pending_tags => tags[t] = promised[t].tag
  /\ pc \in {"insert", "save", "apply"} /\ Current = t => t \in known

LoadedInv == ~m_shutting_down => \A t \in DOMAIN promised : Loaded(t)

-----------------------------------------------------------------------------
(* The cursor and the queues.                                              *)

\* A set of torrents has a least one.
LEMMA LeastTorrent ==
  ASSUME NEW S, S \subseteq Torrent, S # {}
  PROVE  Min(S) \in S
<1>1. S \subseteq Nat
  BY SaveResumeAssumption
<1>2. PICK x \in S : \A y \in S : ~(<<y, x>> \in OpToRel(<, Nat))
  BY <1>1, WFMin, NatLessThanWellFounded
<1>3. \A y \in S : ~(y < x)
  <2>1. \A y \in S : y < x => <<y, x>> \in OpToRel(<, Nat)
    BY <1>1 DEF OpToRel
  <2>. QED
    BY <1>2, <2>1
<1>4. \A y \in S : x <= y
  BY <1>1, <1>3
<1>. QED
  BY <1>4 DEF Min

\* Wherever the cursor is moved to, it is at a torrent or at the end.
LEMMA CursorMoves ==
  ASSUME NEW S, S \subseteq Torrent
  PROVE  /\ Begin(S) \in S \cup {End}
         /\ \A t : m_torrents \subseteq Torrent => After(t) \in m_torrents \cup {End}
<1>1. Begin(S) \in S \cup {End}
  BY LeastTorrent DEF Begin
<1>2. ASSUME NEW t, m_torrents \subseteq Torrent PROVE After(t) \in m_torrents \cup {End}
  <2>. DEFINE later == {u \in m_torrents : u > t}
  <2>1. later # {} => Min(later) \in later
    BY <1>2, LeastTorrent
  <2>. QED
    BY <2>1 DEF After
<1>. QED
  BY <1>1, <1>2

\* Posting an alert adds it to the queue.
LEMMA Posted ==
  ASSUME NEW s \in Seq(Alert), NEW a \in Alert
  PROVE  /\ Append(s, a) \in Seq(Alert)
         /\ Range(Append(s, a)) = Range(s) \cup {a}
<1>1. PICK n \in Nat : n = Len(s) /\ DOMAIN s = 1..n
  OBVIOUS
<1>2. PICK q : q = Append(s, a)
  OBVIOUS
<1>3. /\ q \in Seq(Alert) /\ DOMAIN q = 1..(n + 1)
      /\ q[n + 1] = a /\ \A i \in 1..n : q[i] = s[i]
  BY <1>1, <1>2, AppendProperties
<1>4. {q[i] : i \in 1..(n + 1)} = {s[i] : i \in 1..n} \cup {a}
  <2>1. 1..(n + 1) = (1..n) \cup {n + 1}
    OBVIOUS
  <2>. QED
    BY <1>3, <2>1
<1>. QED
  BY <1>1, <1>2, <1>3, <1>4 DEF Range

\* Handling one takes the first.
LEMMA Popped ==
  ASSUME NEW s \in Seq(Alert), s # <<>>
  PROVE  /\ Head(s) \in Alert /\ Head(s) \in Range(s)
         /\ Tail(s) \in Seq(Alert)
         /\ Range(Tail(s)) \subseteq Range(s)
<1>1. PICK n \in Nat : n = Len(s) - 1 /\ DOMAIN s = 1..(n + 1)
  OBVIOUS
<1>2. PICK q : q = Tail(s)
  OBVIOUS
<1>3. /\ q \in Seq(Alert) /\ DOMAIN q = 1..n
      /\ \A i \in 1..n : q[i] = s[i + 1]
      /\ Head(s) = s[1] /\ s[1] \in Alert
  BY <1>1, <1>2, HeadTailProperties
<1>4. \A i \in 1..n : q[i] \in {s[j] : j \in 1..(n + 1)}
  BY <1>3
<1>. QED
  BY <1>1, <1>2, <1>3, <1>4 DEF Range

-----------------------------------------------------------------------------
(* Types and places.                                                       *)

\* An alert is posted for a torrent that was added, and a removal only for one
\* that is out of the session.
LEMMA PendingGrows ==
  ASSUME ResumeInv, NEW a \in Alert, alerts' = Append(alerts, a), batch' = batch,
         added \ adding \subseteq added' \ adding', session' \cap (added \ adding) \subseteq session,
         a.t \in added' \ adding', a.type = "removed" => a.t \notin session'
  PROVE  /\ alerts' \in Seq(Alert)
         /\ \A b \in Pending' : b.t \in added' \ adding'
         /\ \A b \in Pending' : b.type = "removed" => b.t \notin session'
<1>1. alerts \in Seq(Alert)
  BY DEF ResumeInv, TypeInv, TypeOK
<1>2. PICK s \in Seq(Alert) : s = alerts
  BY <1>1
<1>3. Append(s, a) \in Seq(Alert) /\ Range(Append(s, a)) = Range(s) \cup {a}
  BY Posted
<1>4. Pending' = Pending \cup {a}
  BY <1>2, <1>3 DEF Pending
<1>5. \A b \in Pending : b.t \in added \ adding /\ (b.type = "removed" => b.t \notin session)
  BY DEF ResumeInv, PlaceInv
<1>. QED
  BY <1>2, <1>3, <1>4, <1>5

\* What libtorrent's thread does.
LEMMA NetworkKept ==
  ASSUME ResumeInv, NEW t \in Torrent, NEW tell \in BOOLEAN,
         Network(t) \/ Modify(t, tell) \/ Expire(t)
  PROVE  ResumeInv'
<1>1. CASE NetworkAdd(t)
  <2>1. PICK v : v = db[t].version
    OBVIOUS
  <2>2. v \in Version /\ t \in adding /\ t \in added
    BY <1>1, <2>1 DEF NetworkAdd, ResumeInv, TypeInv, TypeOK, Row
  <2>3. PICK a : a = [type |-> "added", t |-> t, version |-> v]
    OBVIOUS
  <2>4. a \in Alert /\ a.t = t /\ a.type = "added"
    BY <2>2, <2>3 DEF Alert, AlertType
  <2>5. /\ alerts' = Append(alerts, a) /\ adding' = adding \ {t} /\ session' = session \cup {t}
        /\ alive' = alive \cup {t} /\ version' = [version EXCEPT ![t] = v]
        /\ UNCHANGED <<modified, added, saving, historyVars, resumeVars, loopVars, db, ghostVars>>
    BY <1>1, <2>1, <2>3 DEF NetworkAdd
  <2>6. /\ alerts' \in Seq(Alert)
        /\ \A b \in Pending' : b.t \in added' \ adding'
        /\ \A b \in Pending' : b.type = "removed" => b.t \notin session'
    BY <2>2, <2>4, <2>5, PendingGrows DEF loopVars
  <2>. QED
    BY <2>2, <2>5, <2>6 DEF ResumeInv, TypeInv, TypeOK, PlaceInv, historyVars, resumeVars, loopVars,
       ghostVars
<1>2. CASE NetworkSave(t)
  <2>1. PICK a : a = AlertOf(IF t \in session /\ t \in modified THEN "saved" ELSE "save_failed", t)
    OBVIOUS
  <2>2. version[t] \in Version /\ saving[t] \in Nat /\ saving[t] > 0
    BY <1>2 DEF NetworkSave, ResumeInv, TypeInv, TypeOK
  <2>3. a \in Alert /\ a.t = t /\ a.type # "removed"
    BY <2>1, <2>2 DEF Alert, AlertType, AlertOf
  <2>4. /\ alerts' = Append(alerts, a) /\ saving' = [saving EXCEPT ![t] = saving[t] - 1]
        /\ modified' \subseteq modified
        /\ UNCHANGED <<session, alive, version, added, adding, historyVars, resumeVars, loopVars, db,
                       ghostVars>>
    BY <1>2, <2>1 DEF NetworkSave
  <2>5. t \in added \ adding
    BY <2>2 DEF ResumeInv, PlaceInv, TypeInv, TypeOK
  <2>6. /\ alerts' \in Seq(Alert)
        /\ \A b \in Pending' : b.t \in added' \ adding'
        /\ \A b \in Pending' : b.type = "removed" => b.t \notin session'
    BY <2>3, <2>4, <2>5, PendingGrows DEF loopVars
  <2>7. /\ saving' \in [Torrent -> Nat] /\ modified' \subseteq Torrent
        /\ \A u \in Torrent : saving'[u] > 0 => u \in added \ adding
    BY <2>2, <2>4, <2>5 DEF ResumeInv, PlaceInv, TypeInv, TypeOK
  <2>. QED
    BY <2>4, <2>6, <2>7 DEF ResumeInv, TypeInv, TypeOK, PlaceInv, historyVars, resumeVars, loopVars,
       ghostVars
<1>3. CASE Modify(t, tell)
  <2>1. PICK a : a = AlertOf("save_wanted", t)
    OBVIOUS
  <2>2. version[t] \in Version /\ version[t] + 1 \in Version /\ t \in added \ adding
    <3>1. version[t] \in Version /\ version[t] < MaxVersion /\ t \in session
      BY <1>3 DEF Modify, ResumeInv, TypeInv, TypeOK
    <3>2. version[t] + 1 \in Version
      BY <3>1, SaveResumeAssumption DEF Version
    <3>. QED
      BY <3>1, <3>2 DEF ResumeInv, TypeInv, TypeOK, PlaceInv
  <2>3. a \in Alert /\ a.t = t /\ a.type # "removed"
    BY <2>1, <2>2 DEF Alert, AlertType, AlertOf
  <2>4. /\ alerts' = Append(alerts, a) \/ alerts' = alerts
        /\ version' = [version EXCEPT ![t] = version[t] + 1]
        /\ modified' = modified \cup {t} /\ promised' = Drop(promised, t)
        /\ UNCHANGED <<session, alive, added, adding, saving, historyVars, resumeVars, loopVars, db,
                       wanted, uncounted>>
    BY <1>3, <2>1 DEF Modify, Overtaken
  <2>5. /\ alerts' \in Seq(Alert)
        /\ \A b \in Pending' : b.t \in added' \ adding'
        /\ \A b \in Pending' : b.type = "removed" => b.t \notin session'
    <3>1. CASE alerts' = Append(alerts, a)
      BY <2>2, <2>3, <2>4, <3>1, PendingGrows DEF loopVars
    <3>2. CASE alerts' = alerts
      BY <2>4, <3>2 DEF ResumeInv, TypeInv, TypeOK, PlaceInv, Pending, loopVars
    <3>. QED
      BY <2>4, <3>1, <3>2
  <2>6. DOMAIN promised' \subseteq Torrent /\ \A u \in DOMAIN promised' : promised'[u] \in Row
    BY <2>4 DEF Drop, ResumeInv, TypeInv, TypeOK
  <2>. QED
    BY <2>2, <2>4, <2>5, <2>6 DEF ResumeInv, TypeInv, TypeOK, PlaceInv, historyVars, resumeVars,
       loopVars
<1>4. CASE Expire(t)
  <2>. QED
    BY <1>4 DEF Expire, ResumeInv, TypeInv, TypeOK, PlaceInv, Pending, historyVars,
       resumeVars, loopVars, ghostVars, Current
<1>. QED
  BY <1>1, <1>2, <1>3, <1>4 DEF Network

\* What the web interface does.
LEMMA UserKept ==
  ASSUME ResumeInv, NEW t \in Torrent, NEW v \in {0, 1} \cap Version, NEW value \in TagValue,
         UserAdd(t, v) \/ UserRemove(t) \/ UserSetTag(t, value)
  PROVE  ResumeInv'
<1>1. CASE UserAdd(t, v)
  <2>1. PICK a : a = [type |-> "added", t |-> t, version |-> v]
    OBVIOUS
  <2>2. a \in Alert /\ a.t = t /\ a.type = "added"
    BY <2>1 DEF Alert, AlertType
  <2>3. /\ alerts' = Append(alerts, a) /\ added' = added \cup {t} /\ session' = session \cup {t}
        /\ alive' = alive \cup {t} /\ version' = [version EXCEPT ![t] = v]
        /\ modified' = modified \cup {t} /\ t \notin added
        /\ UNCHANGED <<adding, saving, historyVars, resumeVars, loopVars, db, ghostVars>>
    BY <1>1, <2>1 DEF UserAdd
  <2>4. t \notin adding
    BY <2>3 DEF ResumeInv, TypeInv, TypeOK
  <2>5. /\ alerts' \in Seq(Alert)
        /\ \A b \in Pending' : b.t \in added' \ adding'
        /\ \A b \in Pending' : b.type = "removed" => b.t \notin session'
    BY <2>2, <2>3, <2>4, PendingGrows DEF loopVars
  <2>. QED
    BY <2>3, <2>4, <2>5 DEF ResumeInv, TypeInv, TypeOK, PlaceInv, historyVars, resumeVars, loopVars,
       ghostVars
<1>2. CASE UserRemove(t)
  <2>1. PICK a : a = AlertOf("removed", t)
    OBVIOUS
  <2>2. version[t] \in Version /\ t \in added \ adding
    BY <1>2 DEF UserRemove, ResumeInv, TypeInv, TypeOK, PlaceInv
  <2>3. a \in Alert /\ a.t = t
    BY <2>1, <2>2 DEF Alert, AlertType, AlertOf
  <2>4. /\ alerts' = Append(alerts, a) /\ session' = session \ {t} /\ modified' = modified \ {t}
        /\ wanted' = [wanted EXCEPT ![t] = 0] /\ promised' = Drop(promised, t)
        /\ UNCHANGED <<alive, version, added, adding, saving, historyVars, resumeVars, loopVars, db,
                       uncounted>>
    BY <1>2, <2>1 DEF UserRemove, Overtaken
  <2>5. /\ alerts' \in Seq(Alert)
        /\ \A b \in Pending' : b.t \in added' \ adding'
        /\ \A b \in Pending' : b.type = "removed" => b.t \notin session'
    BY <2>2, <2>3, <2>4, PendingGrows DEF loopVars
  <2>6. DOMAIN promised' \subseteq Torrent /\ \A u \in DOMAIN promised' : promised'[u] \in Row
    BY <2>4 DEF Drop, ResumeInv, TypeInv, TypeOK
  <2>. QED
    BY <2>4, <2>5, <2>6, SaveResumeAssumption DEF ResumeInv, TypeInv, TypeOK, PlaceInv, historyVars,
       resumeVars, loopVars
<1>3. CASE UserSetTag(t, value)
  <2>1. DOMAIN promised' \subseteq Torrent /\ \A u \in DOMAIN promised' : promised'[u] \in Row
    BY <1>3 DEF UserSetTag, Overtaken, Drop, ResumeInv, TypeInv, TypeOK
  <2>. QED
    BY <1>3, <2>1 DEF UserSetTag, ResumeInv, TypeInv, TypeOK, PlaceInv, Pending, sessionVars,
       resumeVars, loopVars
<1>. QED
  BY <1>1, <1>2, <1>3

\* The handled alert goes.
LEMMA BatchShrinks ==
  ASSUME ResumeInv, batch # <<>>
  PROVE  /\ Head(batch) \in Pending /\ Head(batch) \in Alert /\ Current \in added \ adding
         /\ Current \in Torrent
         /\ Handled /\ alerts' = alerts =>
              batch' \in Seq(Alert) /\ Pending' \subseteq Pending
<1>1. PICK s \in Seq(Alert) : s = batch
  BY DEF ResumeInv, TypeInv, TypeOK
<1>2. /\ Head(s) \in Alert /\ Head(s) \in Range(s) /\ Tail(s) \in Seq(Alert)
      /\ Range(Tail(s)) \subseteq Range(s)
  BY <1>1, Popped
<1>3. Head(batch) \in Pending /\ Head(batch) \in Alert
  BY <1>1, <1>2 DEF Pending
<1>4. Current \in added \ adding /\ Current \in Torrent
  BY <1>3 DEF ResumeInv, PlaceInv, Current, Alert
<1>5. Handled /\ alerts' = alerts => batch' \in Seq(Alert) /\ Pending' \subseteq Pending
  BY <1>1, <1>2 DEF Handled, Pending
<1>. QED
  BY <1>3, <1>4, <1>5

\* The steps of the handler.
LEMMA HandlerKept ==
  ASSUME ResumeInv,
         \/ HistoryAdded \/ ResumeAdded \/ ResumeAddedSave \/ ResumeAddedApply
         \/ ResumeSaveWanted \/ ResumeRemoved \/ ResumeSaved \/ ResumeFailed
  PROVE  ResumeInv'
<1>1. batch # <<>>
  BY DEF ResumeInv, TypeInv, HistoryAdded, ResumeAdded, ResumeAddedSave, ResumeAddedApply,
     ResumeSaveWanted, ResumeRemoved, ResumeSaved, ResumeFailed, Handling
<1>2. /\ Head(batch) \in Pending /\ Head(batch) \in Alert /\ Current \in added \ adding
      /\ Current \in Torrent
      /\ Handled /\ alerts' = alerts => batch' \in Seq(Alert) /\ Pending' \subseteq Pending
  BY <1>1, BatchShrinks
<1>3. PICK t \in Torrent : t = Current /\ t \in added \ adding
  BY <1>2
<1>4. CASE HistoryAdded
  BY <1>1, <1>3, <1>4 DEF HistoryAdded, Handling, ResumeInv, TypeInv, TypeOK, PlaceInv, Pending,
     sessionVars, resumeVars, ghostVars, Steps
<1>5. CASE ResumeAdded
  BY <1>1, <1>2, <1>3, <1>5 DEF ResumeAdded, ResumeInv, TypeInv, TypeOK, PlaceInv, Pending,
     sessionVars, historyVars, ghostVars, Steps, Handled
<1>13. m_num_in_flight \in Int
  BY DEF ResumeInv, TypeInv, TypeOK
<1>6. Ask(t) => /\ saving' \in [Torrent -> Nat]
                /\ \A u \in Torrent : saving'[u] > 0 => u \in added \ adding
  BY <1>3 DEF Ask, ResumeInv, TypeInv, TypeOK, PlaceInv
<1>7. CASE ResumeAddedSave
  <2>1. m_num_in_flight' \in Int
    BY <1>7, <1>13 DEF ResumeAddedSave
  <2>2. /\ saving' \in [Torrent -> Nat]
        /\ \A u \in Torrent : saving'[u] > 0 => u \in added \ adding
    BY <1>3, <1>6, <1>7 DEF ResumeAddedSave, ResumeInv, TypeInv, TypeOK, PlaceInv
  <2>3. /\ (pc' = "apply" /\ batch' = batch) \/ Handled
        /\ alerts' = alerts
    BY <1>7 DEF ResumeAddedSave
  <2>4. /\ batch' \in Seq(Alert) /\ Pending' \subseteq Pending
        /\ pc' \in {"apply", "alert"}
        /\ pc' = "apply" => batch' = batch
    BY <1>1, <1>2, <2>3 DEF ResumeInv, TypeInv, TypeOK, Pending, Handled
  <2>. QED
    BY <1>1, <1>7, <2>1, <2>2, <2>4 DEF ResumeAddedSave, ResumeInv, TypeInv, TypeOK, PlaceInv,
       historyVars, ghostVars, Steps
<1>8. CASE ResumeAddedApply
  <2>1. m_cursor' \in m_torrents \cup {End}
    BY <1>8, CursorMoves DEF ResumeAddedApply, ResumeInv, TypeInv, TypeOK
  <2>2. /\ DOMAIN m_pending_tags' \subseteq Torrent
        /\ \A u \in DOMAIN m_pending_tags' : m_pending_tags'[u] \in TagValue
    BY <1>8 DEF ResumeAddedApply, Drop, ResumeInv, TypeInv, TypeOK
  <2>3. tags' \in [Torrent -> TagValue]
    BY <1>3, <1>8 DEF ResumeAddedApply, ResumeInv, TypeInv, TypeOK
  <2>. QED
    BY <1>2, <1>8, <2>1, <2>2, <2>3 DEF ResumeAddedApply, ResumeInv, TypeInv, TypeOK, PlaceInv,
       sessionVars, ghostVars, Steps, Handled
<1>9. CASE ResumeSaveWanted
  <2>1. m_num_in_flight' \in Int
    BY <1>9, <1>13 DEF ResumeSaveWanted
  <2>2. /\ saving' \in [Torrent -> Nat]
        /\ \A u \in Torrent : saving'[u] > 0 => u \in added \ adding
    BY <1>3, <1>6, <1>9 DEF ResumeSaveWanted, ResumeInv, TypeInv, TypeOK, PlaceInv
  <2>3. batch' \in Seq(Alert) /\ Pending' \subseteq Pending /\ pc' = "alert"
    BY <1>2, <1>9 DEF ResumeSaveWanted, Handled
  <2>. QED
    BY <1>9, <2>1, <2>2, <2>3 DEF ResumeSaveWanted, ResumeInv, TypeInv, TypeOK, PlaceInv,
       historyVars, ghostVars, Steps
<1>10. CASE ResumeRemoved
  <2>. DEFINE rest == m_torrents \ {t}
  <2>1. m_torrents \subseteq Torrent /\ m_cursor \in m_torrents \cup {End} /\ rest \subseteq Torrent
    BY DEF ResumeInv, TypeInv, TypeOK
  <2>2. After(t) \in rest \cup {End}
    <3>1. After(t) \in m_torrents \cup {End}
      BY <2>1, CursorMoves
    <3>2. After(t) # t
      <4>. DEFINE later == {u \in m_torrents : u > t}
      <4>1. later # {} => Min(later) \in later
        BY <2>1, LeastTorrent
      <4>2. t \notin later /\ t # End
        BY SaveResumeAssumption DEF End
      <4>. QED
        BY <4>1, <4>2 DEF After
    <3>. QED
      BY <3>1, <3>2
  <2>3. m_torrents' \subseteq m_torrents /\ m_cursor' \in m_torrents' \cup {End}
    BY <1>3, <1>10, <2>1, <2>2, CursorMoves DEF ResumeRemoved
  <2>4. /\ DOMAIN db' \subseteq Torrent /\ \A u \in DOMAIN db' : db'[u] \in Row
        /\ adding \subseteq DOMAIN db'
    BY <1>3, <1>10 DEF ResumeRemoved, Drop, ResumeInv, TypeInv, TypeOK, PlaceInv
  <2>. QED
    BY <1>2, <1>3, <1>10, <2>3, <2>4, SaveResumeAssumption DEF ResumeRemoved, ResumeInv, TypeInv,
       TypeOK, PlaceInv, sessionVars, ghostVars, Steps, Handled
<1>11. CASE ResumeSaved
  <2>1. /\ DOMAIN db' \subseteq Torrent /\ \A u \in DOMAIN db' : db'[u] \in Row
        /\ adding \subseteq DOMAIN db'
    <3>1. PICK r : r = [version |-> Head(batch).version, tag |-> tags[t]]
      OBVIOUS
    <3>2. r \in Row
      BY <1>2, <1>3, <3>1 DEF Row, Alert, ResumeInv, TypeInv, TypeOK
    <3>3. db' = db \/ db' = Put(db, t, r)
      BY <1>3, <1>11, <3>1 DEF ResumeSaved
    <3>. QED
      BY <1>3, <3>2, <3>3 DEF Put, ResumeInv, TypeInv, TypeOK
  <2>2. m_num_in_flight' \in Int
    BY <1>11, <1>13 DEF ResumeSaved
  <2>3. batch' \in Seq(Alert) /\ Pending' \subseteq Pending /\ pc' = "alert"
    BY <1>2, <1>11 DEF ResumeSaved, Handled
  <2>. QED
    BY <1>11, <2>1, <2>2, <2>3 DEF ResumeSaved, ResumeInv, TypeInv, TypeOK, PlaceInv, sessionVars,
       historyVars, ghostVars, Steps
<1>12. CASE ResumeFailed
  <2>1. m_num_in_flight' \in Int
    BY <1>12, <1>13 DEF ResumeFailed
  <2>2. batch' \in Seq(Alert) /\ Pending' \subseteq Pending /\ pc' = "alert"
    BY <1>2, <1>12 DEF ResumeFailed, Handled
  <2>. QED
    BY <1>12, <2>1, <2>2 DEF ResumeFailed, ResumeInv, TypeInv, TypeOK, PlaceInv, sessionVars,
       historyVars, ghostVars, Steps
<1>. QED
  BY <1>4, <1>5, <1>7, <1>8, <1>9, <1>10, <1>11, <1>12

\* A process starts from the database and ends with nothing but that.
LEMMA ForgetKept ==
  ASSUME ResumeInv, NEW A, A \subseteq DOMAIN db, NEW P, DOMAIN P \subseteq Torrent,
         \A t \in DOMAIN P : P[t] \in TagValue, Forget(A, P), pc' \in {"down", "while"},
         starts' \in 0 .. MaxStarts, wanted' \in [Torrent -> TagValue],
         DOMAIN promised' \subseteq Torrent, \A t \in DOMAIN promised' : promised'[t] \in Row
  PROVE  ResumeInv'
<1>1. /\ <<>> \in Seq(Alert) /\ Range(<<>>) = {}
      /\ 0 \in Version /\ 0 \in TagValue /\ 0 \in Nat /\ 0 \in Int
      /\ 0 \in 0 .. Cardinality(Torrent)
  <2>1. <<>> \in Seq(Alert) /\ DOMAIN <<>> = {}
    OBVIOUS
  <2>2. Range(<<>>) = {}
    BY <2>1 DEF Range
  <2>3. Cardinality(Torrent) \in Nat
    BY SaveResumeAssumption, FS_CardinalityType
  <2>. QED
    BY <2>1, <2>2, <2>3, SaveResumeAssumption DEF Version
<1>2. DOMAIN db \subseteq Torrent /\ \A t \in DOMAIN db : db[t] \in Row
  BY DEF ResumeInv, TypeInv, TypeOK
<1>3. TypeOK'
  BY <1>1, <1>2 DEF Forget, TypeOK, Steps
<1>4. Pending' = {}
  BY <1>1 DEF Forget, Pending
<1>. QED
  BY <1>2, <1>3, <1>4 DEF Forget, ResumeInv, TypeInv, PlaceInv

\* Nothing is left of a process that dies.
LEMMA DieKept ==
  ASSUME ResumeInv, Die
  PROVE  ResumeInv'
<1>1. PICK P : P = Nothing
  OBVIOUS
<1>2. DOMAIN P = {}
  BY <1>1 DEF Nothing
<1>3. Forget({}, P) /\ pc' = "down" /\ promised' = P /\ UNCHANGED <<starts, wanted>>
  BY <1>1 DEF Die
<1>. QED
  BY <1>2, <1>3, ForgetKept DEF ResumeInv, TypeInv, TypeOK

\* The steps of the loop that handle no alert.
LEMMA LoopKept ==
  ASSUME ResumeInv, NEW n \in Nat,
         \/ PopAlerts \/ AlertsDone \/ CheckQuit \/ Tick(n) \/ NoTick \/ TickSave \/ TickStatus
         \/ TickDone \/ While \/ ForceQuit \/ Signal
  PROVE  ResumeInv'
<1>. USE DEF ResumeInv, TypeInv, TypeOK, PlaceInv
<1>1. Cardinality(Torrent) \in Nat /\ Cardinality(m_torrents) \in Nat
      /\ Cardinality(m_torrents) <= Cardinality(Torrent)
  BY SaveResumeAssumption, FS_CardinalityType, FS_Subset
<1>2. ASSUME NEW t \in alive, Ask(t)
      PROVE  /\ saving' \in [Torrent -> Nat]
             /\ \A u \in Torrent : saving'[u] > 0 => u \in added \ adding
  BY <1>2 DEF Ask
<1>3. CASE PopAlerts
  <2>1. <<>> \in Seq(Alert) /\ DOMAIN <<>> = {}
    OBVIOUS
  <2>2. Range(<<>>) = {}
    BY <2>1 DEF Range
  <2>3. Pending' \subseteq Pending
    <3>1. Range(alerts') = Range(<<>>) /\ Range(batch') = Range(alerts)
      BY <1>3 DEF PopAlerts
    <3>. QED
      BY <2>2, <3>1 DEF Pending
  <2>. QED
    BY <1>3, <2>1, <2>3 DEF PopAlerts, sessionVars, historyVars, resumeVars, ghostVars, Steps
<1>4. CASE AlertsDone \/ NoTick \/ TickDone \/ While \/ Signal
  <2>1. CASE AlertsDone
    BY <2>1 DEF AlertsDone, Pending, sessionVars, historyVars, resumeVars, ghostVars, Steps
  <2>2. CASE NoTick \/ TickDone
    BY <2>2 DEF NoTick, TickDone, Sleep, Pending, sessionVars, historyVars, resumeVars, ghostVars, Steps
  <2>3. CASE While
    BY <2>3 DEF While, Sleep, Pending, sessionVars, historyVars, resumeVars, ghostVars, Steps
  <2>4. CASE Signal
    BY <2>4 DEF Signal, Pending, sessionVars, historyVars, resumeVars, ghostVars, Steps
  <2>. QED
    BY <1>4, <2>1, <2>2, <2>3, <2>4
<1>5. CASE CheckQuit
  <2>1. CASE Die
    BY <2>1, DieKept
  <2>2. CASE UNCHANGED <<sessionVars, resumeVars, num_to_save, quit, ghostVars>> /\ pc' = "tick" /\ Sleep
    BY <1>5, <2>2 DEF CheckQuit, Sleep, Pending, sessionVars, historyVars, resumeVars, ghostVars, Steps
  <2>3. CASE SaveAll /\ m_torrents \subseteq alive
    <3>1. saving' = [t \in Torrent |-> saving[t] + IF t \in m_torrents THEN 1 ELSE 0]
      BY <2>3 DEF SaveAll
    <3>2. /\ saving' \in [Torrent -> Nat]
          /\ \A u \in Torrent : saving'[u] > 0 => u \in added \ adding
      BY <3>1
    <3>3. promised' = [t \in m_torrents \cap session |-> [version |-> version[t], tag |-> wanted[t]]]
      BY <2>3 DEF SaveAll
    <3>4. DOMAIN promised' \subseteq Torrent /\ \A t \in DOMAIN promised' : promised'[t] \in Row
      BY <3>3 DEF Row
    <3>5. m_num_in_flight' \in Int
      BY <1>1, <2>3 DEF SaveAll
    <3>. QED
      BY <1>5, <2>3, <3>2, <3>4, <3>5 DEF CheckQuit, SaveAll, Sleep, Pending, historyVars, Steps
  <2>. QED
    BY <1>5, <2>1, <2>2, <2>3 DEF CheckQuit, SaveAll
<1>6. CASE Tick(n)
  BY <1>1, <1>6 DEF Tick, Sleep, Pending, sessionVars, historyVars, resumeVars, ghostVars, Steps
<1>7. CASE TickSave
  <2>1. PICK t : t = IF m_cursor = End THEN Begin(m_torrents) ELSE m_cursor
    OBVIOUS
  <2>2. t \in m_torrents \cup {End} /\ (t \in alive => t \in m_torrents)
    BY <2>1, CursorMoves, SaveResumeAssumption DEF End
  <2>3. m_cursor' = t /\ pc = "ticking" /\ num_to_save > 0
        /\ \/ t \in alive /\ Ask(t) /\ pc' = "status" /\ UNCHANGED num_to_save
           \/ pc' = "while" /\ num_to_save' = 0 /\ UNCHANGED saving
        /\ Sleep
        /\ UNCHANGED <<session, alive, version, modified, added, adding, m_torrents, m_pending_tags,
                       m_num_in_flight, m_shutting_down, quit, ghostVars>>
    BY <1>7, <2>1 DEF TickSave, Thrown
  <2>. QED
    BY <1>1, <1>2, <2>2, <2>3 DEF Sleep, Pending, historyVars, ghostVars, Steps
<1>8. CASE TickStatus
  <2>1. m_cursor' \in m_torrents \cup {End} /\ m_num_in_flight' \in Int
        /\ num_to_save' \in 0 .. Cardinality(Torrent) /\ pc' \in {"ticking", "while"}
    <3>1. m_cursor' \in m_torrents \cup {End} /\ pc' \in {"ticking", "while"}
      BY <1>8, CursorMoves DEF TickStatus, Thrown
    <3>2. m_num_in_flight' \in Int
      BY <1>8 DEF TickStatus
    <3>3. num_to_save' \in 0 .. Cardinality(Torrent)
      BY <1>1, <1>8 DEF TickStatus, Thrown
    <3>. QED
      BY <3>1, <3>2, <3>3
  <2>. QED
    BY <1>8, <2>1 DEF TickStatus, Sleep, Pending, sessionVars, historyVars, ghostVars, Steps
<1>9. CASE ForceQuit
  <2>1. DOMAIN promised' = {}
    BY <1>9 DEF ForceQuit, Nothing
  <2>. QED
    BY <1>9, <2>1 DEF ForceQuit, Sleep, Pending, sessionVars, historyVars, resumeVars, Steps
<1>. QED
  BY <1>3, <1>4, <1>5, <1>6, <1>7, <1>8, <1>9

\* A start has what the database has.
LEMMA StartKept ==
  ASSUME ResumeInv, Start
  PROVE  ResumeInv'
<1>1. DOMAIN db \subseteq Torrent /\ \A t \in DOMAIN db : db[t] \in Row
  BY DEF ResumeInv, TypeInv, TypeOK
<1>2. PICK P : P = [t \in {t \in DOMAIN db : db[t].tag # 0} |-> db[t].tag]
  OBVIOUS
<1>3. DOMAIN P \subseteq Torrent /\ \A t \in DOMAIN P : P[t] \in TagValue
  BY <1>1, <1>2 DEF Row
<1>4. wanted' \in [Torrent -> TagValue]
  BY <1>1, SaveResumeAssumption DEF Start, Row
<1>5. starts' \in 0 .. MaxStarts
  BY SaveResumeAssumption DEF Start, ResumeInv, TypeInv, TypeOK
<1>6. Forget(DOMAIN db, P) /\ pc' = "while" /\ promised' = db
  BY <1>2 DEF Start
<1>. QED
  BY <1>1, <1>3, <1>4, <1>5, <1>6, ForgetKept

\* The steps of the main thread that handle an alert, and those that do not.
Handler ==
  \/ HistoryAdded \/ ResumeAdded \/ ResumeAddedSave \/ ResumeAddedApply
  \/ ResumeSaveWanted \/ ResumeRemoved \/ ResumeSaved \/ ResumeFailed
Loop ==
  \/ PopAlerts \/ AlertsDone \/ CheckQuit \/ TickSave \/ TickStatus \/ TickDone \/ NoTick \/ While
  \/ \E n \in Nat : Tick(n)
  \/ ForceQuit \/ Signal

\* Every step is of one of these kinds.
LEMMA NextKinds ==
  ASSUME Next
  PROVE  \/ \E t \in Torrent, tell \in BOOLEAN : Network(t) \/ Modify(t, tell) \/ Expire(t)
         \/ \E t \in Torrent, v \in {0, 1} \cap Version, value \in TagValue :
              UserAdd(t, v) \/ UserRemove(t) \/ UserSetTag(t, value)
         \/ Handler
         \/ Loop
         \/ Die
         \/ Start
         \/ UNCHANGED vars
<1>1. CASE User
  <2>1. 0 \in {0, 1} \cap Version /\ 0 \in TagValue
    BY SaveResumeAssumption DEF Version
  <2>. QED
    BY <1>1, <2>1 DEF User
<1>2. CASE TickDue
  <2>1. \A n \in 1 .. Cardinality(Torrent) : n \in Nat
    BY SaveResumeAssumption, FS_CardinalityType
  <2>. QED
    BY <1>2, <2>1 DEF TickDue, Loop
<1>3. CASE MainLoop
  BY <1>3 DEF MainLoop, Handler, Loop
<1>4. CASE \/ \E t \in Torrent : Network(t)
           \/ \E t \in Torrent, tell \in BOOLEAN : Modify(t, tell)
           \/ \E t \in Torrent : Expire(t)
  BY <1>4
<1>5. CASE Signal \/ ForceQuit \/ Crash \/ Start \/ Ended
  BY <1>5 DEF Loop, Crash, Ended
<1>. QED
  BY <1>1, <1>2, <1>3, <1>4, <1>5 DEF Next

\* One step of the proof per kind of step.
LEMMA ResumeStep ==
  ASSUME ResumeInv, [Next]_vars
  PROVE  ResumeInv'
<1>1. CASE Handler
  BY <1>1, HandlerKept DEF Handler
<1>2. CASE Loop
  <2>1. ASSUME NEW n \in Nat, Tick(n) PROVE ResumeInv'
    BY <2>1, LoopKept
  <2>2. 0 \in Nat
    OBVIOUS
  <2>. QED
    BY <1>2, <2>1, <2>2, LoopKept DEF Loop
<1>3. CASE UNCHANGED vars
  BY <1>3 DEF ResumeInv, TypeInv, TypeOK, PlaceInv, Pending, vars, sessionVars, historyVars, resumeVars,
     loopVars, ghostVars, Current
<1>. QED
  BY <1>1, <1>2, <1>3, NextKinds, NetworkKept, UserKept, DieKept, StartKept

\* Nothing is in memory, nor in the database.
LEMMA ResumeInit ==
  ASSUME Init
  PROVE  ResumeInv
<1>1. /\ <<>> \in Seq(Alert) /\ DOMAIN <<>> = {}
      /\ DOMAIN Nothing = {} /\ 0 \in TagValue /\ 0 \in Version /\ 0 \in 0 .. MaxStarts
  BY SaveResumeAssumption DEF Nothing, Version
<1>2. 0 \in 0 .. Cardinality(Torrent)
  BY SaveResumeAssumption, FS_CardinalityType
<1>3. Range(<<>>) = {}
  BY <1>1 DEF Range
<1>4. TypeOK
  <2>1. /\ version \in [Torrent -> Version] /\ saving \in [Torrent -> Nat]
        /\ tags \in [Torrent -> TagValue] /\ wanted \in [Torrent -> TagValue]
    BY <1>1 DEF Init
  <2>2. /\ DOMAIN m_pending_tags \subseteq Torrent
        /\ DOMAIN db \subseteq Torrent /\ \A t \in DOMAIN db : db[t] \in Row
        /\ DOMAIN promised \subseteq Torrent /\ \A t \in DOMAIN promised : promised[t] \in Row
    BY <1>1 DEF Init
  <2>3. alerts \in Seq(Alert) /\ batch \in Seq(Alert)
    BY <1>1 DEF Init
  <2>4. /\ session = {} /\ alive = {} /\ modified = {} /\ added = {} /\ adding = {} /\ known = {}
        /\ m_torrents = {} /\ m_cursor \in m_torrents \cup {End}
    BY DEF Init
  <2>5. m_shutting_down \in BOOLEAN /\ quit \in BOOLEAN /\ pc \in Steps
    BY DEF Init, Steps
  <2>6. /\ m_num_in_flight \in Int
        /\ num_to_save \in 0 .. Cardinality(Torrent) /\ starts \in 0 .. MaxStarts
        /\ uncounted \in Nat
    <3>1. m_num_in_flight = 0 /\ num_to_save = 0 /\ starts = 0 /\ uncounted = 0
      BY DEF Init
    <3>. QED
      BY <1>1, <1>2, <3>1
  <2>. QED
    BY <2>1, <2>2, <2>3, <2>4, <2>5, <2>6 DEF TypeOK
<1>5. Pending = {}
  BY <1>3 DEF Init, Pending
<1>. QED
  BY <1>1, <1>4, <1>5 DEF Init, ResumeInv, TypeInv, PlaceInv

\* Types, and a torrent to be added is nowhere yet.
THEOREM ResumeInvariant == Spec => []ResumeInv
BY ResumeInit, ResumeStep, PTL DEF Spec

\* The state keeps its types: the cursor is at a torrent that is still listed,
\* or at the end (save_resume::m_cursor is never left dangling).
THEOREM TypeCorrect == Spec => []TypeOK
<1>1. ResumeInv => TypeOK
  BY DEF ResumeInv, TypeInv
<1>. QED
  BY <1>1, ResumeInvariant, PTL

-----------------------------------------------------------------------------
(* Loading.                                                                *)

\* What is pending after an alert is posted, and after a step of the main
\* thread.
LEMMA PendingPosts ==
  ASSUME ResumeInv, NEW a \in Alert, alerts' = Append(alerts, a), batch' = batch
  PROVE  Pending' = Pending \cup {a}
<1>1. PICK s \in Seq(Alert) : s = alerts
  BY DEF ResumeInv, TypeInv, TypeOK
<1>2. Range(Append(s, a)) = Range(s) \cup {a}
  BY Posted
<1>. QED
  BY <1>1, <1>2 DEF Pending

\* The main thread takes alerts from the queues and posts none.
LEMMA MainTakes ==
  ASSUME ResumeInv, Handler \/ Loop
  PROVE  Pending' \subseteq Pending
<1>1. <<>> \in Seq(Alert) /\ DOMAIN <<>> = {}
  OBVIOUS
<1>2. Range(<<>>) = {}
  BY <1>1 DEF Range
<1>3. ASSUME batch # <<>>, Handled, UNCHANGED alerts PROVE Pending' \subseteq Pending
  BY <1>3, BatchShrinks
<1>4. CASE UNCHANGED <<alerts, batch>>
  BY <1>4 DEF Pending
<1>5. CASE Handler
  <2>1. batch # <<>>
    BY <1>5 DEF Handler, ResumeInv, TypeInv, HistoryAdded, ResumeAdded, ResumeAddedSave,
       ResumeAddedApply, ResumeSaveWanted, ResumeRemoved, ResumeSaved, ResumeFailed, Handling
  <2>2. UNCHANGED alerts /\ (UNCHANGED batch \/ Handled)
    BY <1>5 DEF Handler, HistoryAdded, ResumeAdded, ResumeAddedSave, ResumeAddedApply,
       ResumeSaveWanted, ResumeRemoved, ResumeSaved, ResumeFailed
  <2>. QED
    BY <1>3, <1>4, <2>1, <2>2
<1>6. CASE Loop
  <2>1. CASE PopAlerts
    BY <1>2, <2>1 DEF PopAlerts, Pending
  <2>2. CASE CheckQuit
    <3>1. CASE Die
      BY <1>2, <3>1 DEF Die, Forget, Pending
    <3>2. CASE UNCHANGED <<alerts, batch>>
      BY <1>4, <3>2
    <3>. QED
      BY <2>2, <3>1, <3>2 DEF CheckQuit, SaveAll, Sleep
  <2>3. ASSUME NEW n \in Nat, Tick(n) PROVE UNCHANGED <<alerts, batch>>
    BY <2>3 DEF Tick, Sleep
  <2>4. CASE \/ AlertsDone \/ TickSave \/ TickStatus \/ TickDone \/ NoTick \/ While \/ ForceQuit
             \/ Signal
    BY <2>4, <1>4 DEF AlertsDone, TickSave, TickStatus, TickDone, NoTick, While, ForceQuit, Signal, Sleep
  <2>. QED
    BY <1>4, <1>6, <2>1, <2>2, <2>3, <2>4 DEF Loop
<1>. QED
  BY <1>5, <1>6

\* What libtorrent does changes none of the torrents that are as they were
\* loaded.
LEMMA LoadedNetwork ==
  ASSUME ResumeInv, LoadedInv, NEW u \in Torrent, NEW tell \in BOOLEAN,
         Network(u) \/ Modify(u, tell) \/ Expire(u)
  PROVE  LoadedInv'
<1>. USE DEF LoadedInv, Loaded, Saves
<1>1. UNCHANGED <<historyVars, resumeVars, loopVars, db>>
  BY DEF Network, NetworkAdd, NetworkSave, Modify, Expire
<1>2. CASE NetworkAdd(u)
  <2>1. PICK v : v = db[u].version
    OBVIOUS
  <2>2. PICK a : a = [type |-> "added", t |-> u, version |-> v]
    OBVIOUS
  <2>3. a \in Alert /\ a.type = "added"
    BY <1>2, <2>1, <2>2 DEF Alert, AlertType, NetworkAdd, ResumeInv, TypeInv, TypeOK, Row
  <2>4. Pending' = Pending \cup {a}
    BY <1>1, <1>2, <2>1, <2>2, <2>3, PendingPosts DEF NetworkAdd, loopVars
  <2>. QED
    BY <1>1, <1>2, <2>3, <2>4 DEF NetworkAdd, historyVars, resumeVars, loopVars, ghostVars, Current
<1>3. CASE NetworkSave(u)
  <2>1. PICK a : a = AlertOf(IF u \in session /\ u \in modified THEN "saved" ELSE "save_failed", u)
    OBVIOUS
  <2>2. a \in Alert /\ a.t = u /\ (u \notin modified => a.type # "saved")
    BY <2>1 DEF Alert, AlertType, AlertOf, ResumeInv, TypeInv, TypeOK
  <2>3. /\ alerts' = Append(alerts, a) /\ modified' \subseteq modified
        /\ UNCHANGED <<session, adding, ghostVars>>
    BY <1>3, <2>1 DEF NetworkSave
  <2>4. Pending' = Pending \cup {a}
    BY <1>1, <2>2, <2>3, PendingPosts DEF loopVars
  <2>. QED
    BY <1>1, <2>2, <2>3, <2>4 DEF historyVars, resumeVars, loopVars, ghostVars, Current
<1>4. CASE Modify(u, tell)
  <2>1. PICK a : a = AlertOf("save_wanted", u)
    OBVIOUS
  <2>2. a \in Alert /\ a.type = "save_wanted"
    BY <2>1 DEF Alert, AlertType, AlertOf, ResumeInv, TypeInv, TypeOK
  <2>3. Pending' = Pending \/ Pending' = Pending \cup {a}
    <3>1. CASE alerts' = alerts
      BY <1>1, <3>1 DEF Pending, loopVars
    <3>2. CASE alerts' = Append(alerts, a)
      BY <1>1, <2>2, <3>2, PendingPosts DEF loopVars
    <3>. QED
      BY <1>4, <2>1, <3>1, <3>2 DEF Modify
  <2>4. /\ DOMAIN promised' = DOMAIN promised \ {u} /\ \A t \in DOMAIN promised' : promised'[t] = promised[t]
        /\ modified' = modified \cup {u} /\ UNCHANGED <<session, adding>>
    BY <1>4 DEF Modify, Overtaken, Drop
  <2>. QED
    BY <1>1, <2>2, <2>3, <2>4 DEF historyVars, resumeVars, loopVars, Current
<1>5. CASE Expire(u)
  BY <1>1, <1>5 DEF Expire, Pending, historyVars, resumeVars, loopVars, ghostVars, Current
<1>. QED
  BY <1>2, <1>3, <1>4, <1>5 DEF Network

\* A user who changes a torrent takes the promise back.
LEMMA LoadedUser ==
  ASSUME ResumeInv, LoadedInv, NEW u \in Torrent, NEW v \in {0, 1} \cap Version, NEW value \in TagValue,
         UserAdd(u, v) \/ UserRemove(u) \/ UserSetTag(u, value)
  PROVE  LoadedInv'
<1>. USE DEF LoadedInv, Loaded, Saves
<1>1. UNCHANGED <<known, resumeVars, loopVars, db, adding>>
  BY DEF UserAdd, UserRemove, UserSetTag, historyVars, sessionVars
<1>2. CASE UserAdd(u, v)
  <2>1. PICK a : a = [type |-> "added", t |-> u, version |-> v]
    OBVIOUS
  <2>2. a \in Alert /\ a.type = "added"
    BY <2>1 DEF Alert, AlertType
  <2>3. Pending' = Pending \cup {a}
    BY <1>1, <1>2, <2>1, <2>2, PendingPosts DEF UserAdd, loopVars
  <2>4. u \notin session \cup adding
    BY <1>2 DEF UserAdd, ResumeInv, TypeInv, TypeOK, PlaceInv
  <2>. QED
    BY <1>1, <1>2, <2>2, <2>3, <2>4 DEF UserAdd, historyVars, resumeVars, loopVars, ghostVars, Current
<1>3. CASE UserRemove(u)
  <2>1. PICK a : a = AlertOf("removed", u)
    OBVIOUS
  <2>2. a \in Alert /\ a.type = "removed"
    BY <2>1 DEF Alert, AlertType, AlertOf, ResumeInv, TypeInv, TypeOK
  <2>3. Pending' = Pending \cup {a}
    BY <1>1, <1>3, <2>1, <2>2, PendingPosts DEF UserRemove, loopVars
  <2>4. /\ DOMAIN promised' = DOMAIN promised \ {u} /\ \A t \in DOMAIN promised' : promised'[t] = promised[t]
        /\ session' = session \ {u} /\ modified' = modified \ {u} /\ UNCHANGED tags
    BY <1>3 DEF UserRemove, Overtaken, Drop, historyVars
  <2>. QED
    BY <1>1, <2>2, <2>3, <2>4 DEF resumeVars, loopVars, Current
<1>4. CASE UserSetTag(u, value)
  <2>1. /\ DOMAIN promised' = DOMAIN promised \ {u} /\ \A t \in DOMAIN promised' : promised'[t] = promised[t]
        /\ UNCHANGED <<session, modified, alerts>>
        /\ \A t \in DOMAIN tags : t # u => tags'[t] = tags[t]
    BY <1>4 DEF UserSetTag, Overtaken, Drop, sessionVars
  <2>2. DOMAIN promised \subseteq Torrent /\ DOMAIN tags = Torrent
    BY DEF ResumeInv, TypeInv, TypeOK
  <2>. QED
    BY <1>1, <2>1, <2>2 DEF resumeVars, loopVars, Current, Pending
<1>. QED
  BY <1>2, <1>3, <1>4

\* The handler applies the tag once, after torrent_history has the torrent,
\* and stores nothing over it.
LEMMA LoadedHandler ==
  ASSUME ResumeInv, LoadedInv, Handler
  PROVE  LoadedInv'
<1>1. batch # <<>>
  BY DEF Handler, ResumeInv, TypeInv, HistoryAdded, ResumeAdded, ResumeAddedSave,
     ResumeAddedApply, ResumeSaveWanted, ResumeRemoved, ResumeSaved, ResumeFailed, Handling
<1>2. PICK u \in Torrent : /\ u = Current /\ u \in added \ adding /\ Head(batch) \in Pending
                           /\ Head(batch).type = "removed" => u \notin session
  BY <1>1, BatchShrinks DEF ResumeInv, PlaceInv, Current
<1>3. /\ UNCHANGED <<session, alive, version, modified, added, adding, alerts, m_shutting_down,
                     ghostVars>>
      /\ Pending' \subseteq Pending
  BY MainTakes DEF Handler, HistoryAdded, ResumeAdded, ResumeAddedSave, ResumeAddedApply,
     ResumeSaveWanted, ResumeRemoved, ResumeSaved, ResumeFailed, sessionVars, resumeVars
<1>4. SUFFICES ASSUME ~m_shutting_down, NEW t \in DOMAIN promised, Loaded(t)
               PROVE  Loaded(t)'
  BY <1>3 DEF LoadedInv, ghostVars
<1>5. /\ t \in (session \cup adding) \ modified
      /\ \A a \in Pending : ~Saves(a, t)
      /\ promised' = promised
      /\ t \in Torrent /\ DOMAIN tags = Torrent /\ (t = u => t \in alive)
      /\ session \subseteq alive
  BY <1>2, <1>3, <1>4 DEF Loaded, ghostVars, ResumeInv, TypeInv, TypeOK
<1>6. CASE HistoryAdded
  BY <1>2, <1>3, <1>4, <1>5, <1>6 DEF HistoryAdded, Handling, Loaded, resumeVars, Current
<1>7. CASE ResumeAdded
  <2>1. t = u => pc' \in {"save", "apply"}
    BY <1>2, <1>5, <1>7 DEF ResumeAdded
  <2>2. u \in alive => batch' = batch /\ pc' \in {"save", "apply"} /\ m_torrents' = m_torrents \cup {u}
    BY <1>2, <1>7 DEF ResumeAdded
  <2>3. u \notin alive => pc' = "alert" /\ m_torrents' = m_torrents
    BY <1>2, <1>7 DEF ResumeAdded, Handled
  <2>4. pc = "insert" /\ UNCHANGED <<historyVars, m_pending_tags, db>>
    BY <1>7 DEF ResumeAdded
  <2>. QED
    BY <1>2, <1>3, <1>4, <1>5, <2>1, <2>2, <2>3, <2>4 DEF Loaded, Current, historyVars
<1>8. CASE ResumeAddedSave
  <2>1. /\ pc = "save" /\ UNCHANGED <<historyVars, m_pending_tags, db, m_torrents>>
        /\ u \in alive => batch' = batch /\ pc' = "apply"
        /\ u \notin alive => pc' = "alert"
    BY <1>2, <1>8 DEF ResumeAddedSave, Handled
  <2>. QED
    BY <1>2, <1>3, <1>4, <1>5, <2>1 DEF Loaded, Current, historyVars
<1>9. CASE ResumeAddedApply
  <2>1. /\ pc = "apply" /\ pc' = "alert" /\ UNCHANGED <<known, db, m_torrents>>
        /\ DOMAIN m_pending_tags' = DOMAIN m_pending_tags \ {u}
        /\ \A x \in DOMAIN m_pending_tags' : m_pending_tags'[x] = m_pending_tags[x]
    BY <1>2, <1>9 DEF ResumeAddedApply, Handled, Drop
  <2>2. CASE t = u /\ t \in DOMAIN m_pending_tags
    <3>1. t \in known
      BY <1>2, <1>4, <2>1, <2>2 DEF Loaded
    <3>2. tags'[t] = m_pending_tags[t]
      BY <1>2, <1>5, <1>9, <2>2, <3>1 DEF ResumeAddedApply
    <3>. QED
      BY <1>3, <1>4, <1>5, <2>1, <2>2, <3>2 DEF Loaded
  <2>3. CASE ~(t = u /\ t \in DOMAIN m_pending_tags)
    <3>1. tags'[t] = tags[t]
      BY <1>2, <1>5, <1>9, <2>3 DEF ResumeAddedApply
    <3>. QED
      BY <1>2, <1>3, <1>4, <1>5, <2>1, <2>3, <3>1 DEF Loaded
  <2>. QED
    BY <2>2, <2>3
<1>10. CASE ResumeSaveWanted \/ ResumeFailed
  <2>1. pc = "alert" /\ pc' = "alert" /\ UNCHANGED <<historyVars, m_pending_tags, db, m_torrents>>
    BY <1>10 DEF ResumeSaveWanted, ResumeFailed, Handled, Handling
  <2>. QED
    BY <1>3, <1>4, <1>5, <2>1 DEF Loaded, historyVars
<1>11. CASE ResumeRemoved
  <2>1. t # u
    BY <1>2, <1>5, <1>11 DEF ResumeRemoved, Handling
  <2>2. /\ pc = "alert" /\ pc' = "alert" /\ UNCHANGED m_pending_tags
        /\ known' = known \ {u} /\ m_torrents' \subseteq m_torrents
        /\ db' = db \/ db' = Drop(db, u)
        /\ tags'[t] = tags[t]
    BY <1>2, <1>5, <1>11, <2>1 DEF ResumeRemoved, Handled, Handling
  <2>3. db'[t] = db[t] /\ t \in DOMAIN db'
    BY <1>4, <2>1, <2>2 DEF Drop, Loaded
  <2>. QED
    BY <1>3, <1>4, <1>5, <2>1, <2>2, <2>3 DEF Loaded
<1>12. CASE ResumeSaved
  <2>1. t # u
    BY <1>2, <1>5, <1>12 DEF ResumeSaved, Handling, Saves, Current
  <2>2. /\ pc = "alert" /\ pc' = "alert" /\ UNCHANGED <<historyVars, m_pending_tags, m_torrents>>
    BY <1>12 DEF ResumeSaved, Handled, Handling
  <2>3. PICK r : db' = db \/ db' = Put(db, u, r)
    BY <1>2, <1>12 DEF ResumeSaved
  <2>4. db'[t] = db[t] /\ t \in DOMAIN db'
    BY <1>4, <2>1, <2>3 DEF Put, Loaded
  <2>. QED
    BY <1>3, <1>4, <1>5, <2>2, <2>4 DEF Loaded, historyVars
<1>. QED
  BY <1>6, <1>7, <1>8, <1>9, <1>10, <1>11, <1>12 DEF Handler

\* The loop stores nothing of its own; and a process that is told to quit has
\* made other promises.
LEMMA LoadedLoop ==
  ASSUME ResumeInv, LoadedInv, Loop
  PROVE  LoadedInv'
<1>1. Pending' \subseteq Pending
  BY MainTakes
<1>2. CASE DOMAIN promised' = {} \/ m_shutting_down'
  BY <1>2 DEF LoadedInv
<1>3. CASE ~(DOMAIN promised' = {} \/ m_shutting_down')
  <2>1. ~Die
    BY <1>3 DEF Die, Nothing
  <2>2. ASSUME NEW n \in Nat, Tick(n)
        PROVE /\ pc \notin {"save", "apply"} /\ pc' \notin {"insert", "save", "apply"}
              /\ UNCHANGED <<session, adding, modified, db, m_pending_tags, tags, known, m_torrents,
                             promised, m_shutting_down>>
    BY <2>2 DEF Tick, Sleep, sessionVars, historyVars, resumeVars, ghostVars
  <2>3. ASSUME CheckQuit
        PROVE /\ pc \notin {"save", "apply"} /\ pc' \notin {"insert", "save", "apply"}
              /\ UNCHANGED <<session, adding, modified, db, m_pending_tags, tags, known, m_torrents,
                             promised, m_shutting_down>>
    BY <1>3, <2>1, <2>3 DEF CheckQuit, SaveAll, Sleep, sessionVars, historyVars, resumeVars, ghostVars
  <2>4. ~ForceQuit
    BY <1>3 DEF ForceQuit, Nothing
  <2>5. ASSUME \/ PopAlerts \/ AlertsDone \/ TickSave \/ TickStatus \/ TickDone \/ NoTick \/ While
        PROVE /\ pc \notin {"save", "apply"} /\ pc' \notin {"insert", "save", "apply"}
              /\ UNCHANGED <<session, adding, modified, db, m_pending_tags, tags, known, m_torrents,
                             promised, m_shutting_down>>
    BY <2>5 DEF PopAlerts, AlertsDone, TickSave, TickStatus, TickDone, NoTick, While, Sleep, Thrown,
       sessionVars, historyVars, resumeVars, ghostVars
  <2>6. CASE Signal
    BY <2>6 DEF Signal, LoadedInv, Loaded, Pending, sessionVars, historyVars, resumeVars, ghostVars, Current
  <2>7. CASE ~Signal
    <3>1. /\ pc \notin {"save", "apply"} /\ pc' \notin {"insert", "save", "apply"}
          /\ UNCHANGED <<session, adding, modified, db, m_pending_tags, tags, known, m_torrents,
                         promised, m_shutting_down>>
      BY <2>2, <2>3, <2>4, <2>5, <2>7 DEF Loop
    <3>. QED
      BY <1>1, <3>1 DEF LoadedInv, Loaded
  <2>. QED
    BY <2>6, <2>7
<1>. QED
  BY <1>2, <1>3

\* Nothing was loaded, or everything is as load() reads it.
LEMMA LoadedStart ==
  ASSUME ResumeInv, Start
  PROVE  LoadedInv'
<1>1. PICK P : P = [t \in {t \in DOMAIN db : db[t].tag # 0} |-> db[t].tag]
  OBVIOUS
<1>2. Forget(DOMAIN db, P) /\ pc' = "while" /\ promised' = db
  BY <1>1 DEF Start
<1>3. <<>> \in Seq(Alert) /\ DOMAIN <<>> = {}
  OBVIOUS
<1>4. Pending' = {}
  BY <1>2, <1>3 DEF Forget, Pending, Range
<1>5. ASSUME NEW t \in DOMAIN db PROVE Loaded(t)'
  <2>1. t \in Torrent
    BY DEF ResumeInv, TypeInv, TypeOK
  <2>2. t \in DOMAIN P <=> db[t].tag # 0
    BY <1>1
  <2>3. t \in DOMAIN P => P[t] = db[t].tag
    BY <1>1
  <2>. QED
    BY <1>2, <1>4, <2>1, <2>2, <2>3 DEF Loaded, Forget
<1>. QED
  BY <1>2, <1>5 DEF LoadedInv

\* One step of the proof per kind of step.
LEMMA LoadedStep ==
  ASSUME ResumeInv, LoadedInv, [Next]_vars
  PROVE  LoadedInv'
<1>1. CASE Die
  BY <1>1 DEF Die, Nothing, LoadedInv
<1>2. CASE UNCHANGED vars
  BY <1>2 DEF LoadedInv, Loaded, Pending, vars, sessionVars, historyVars, resumeVars, loopVars,
     ghostVars, Current
<1>. QED
  BY <1>1, <1>2, NextKinds, LoadedNetwork, LoadedUser, LoadedHandler, LoadedLoop, LoadedStart

\* Until it is told to quit a process keeps what it has loaded as it was stored.
THEOREM LoadedInvariant == Spec => []LoadedInv
<1>1. Init => LoadedInv
  BY DEF Init, Nothing, LoadedInv
<1>. QED
  BY <1>1, LoadedStep, ResumeInvariant, PTL DEF Spec

\* A loaded torrent gets the tag it was stored with and its row keeps it, until
\* the user changes it (save_resume::load, m_pending_tags).
THEOREM TagsSurvive == Spec => []TagsRestored
<1>1. LoadedInv /\ ResumeInv => TagsRestored
  <2>1. SUFFICES ASSUME LoadedInv, ResumeInv, ~m_shutting_down, NEW t \in DOMAIN promised
                 PROVE  /\ db[t].tag = promised[t].tag
                        /\ t \in m_torrents /\ (batch = <<>> \/ Current # t) =>
                             tags[t] = promised[t].tag
    BY DEF TagsRestored
  <2>2. Loaded(t)
    BY <2>1 DEF LoadedInv
  <2>3. pc \in {"save", "apply"} => batch # <<>>
    BY <2>1 DEF ResumeInv, TypeInv
  <2>. QED
    BY <2>2, <2>3 DEF Loaded
<1>. QED
  BY <1>1, LoadedInvariant, ResumeInvariant, PTL

-----------------------------------------------------------------------------
(* The saves in flight.                                                    *)

Answered(s) == Cardinality(Answers(s))
IsAnswer(a) == a.type \in {"saved", "save_failed"}

\* A queue has a number of answers.
LEMMA AnswersCounted ==
  ASSUME NEW s \in Seq(Alert)
  PROVE  IsFiniteSet(Answers(s)) /\ Answered(s) \in Nat
<1>1. DOMAIN s = 1..Len(s) /\ Len(s) \in Nat
  OBVIOUS
<1>2. IsFiniteSet(1..Len(s))
  BY <1>1, FS_Interval
<1>3. Answers(s) \in SUBSET (1..Len(s))
  BY <1>1 DEF Answers
<1>. QED
  BY <1>2, <1>3, FS_Subset, FS_CardinalityType DEF Answered

\* An answer that is posted is one more; another alert is not.
LEMMA AnswerPosted ==
  ASSUME NEW s \in Seq(Alert), NEW a \in Alert
  PROVE  Answered(Append(s, a)) = Answered(s) + (IF IsAnswer(a) THEN 1 ELSE 0)
<1>1. PICK n \in Nat : n = Len(s) /\ DOMAIN s = 1..n
  OBVIOUS
<1>2. PICK q : q = Append(s, a)
  OBVIOUS
<1>3. /\ DOMAIN q = (1..n) \cup {n + 1}
      /\ q[n + 1] = a /\ \A i \in 1..n : q[i] = s[i]
  BY <1>1, <1>2, AppendProperties
<1>4. n + 1 \notin Answers(s)
  BY <1>1 DEF Answers
<1>6. IsFiniteSet(Answers(s)) /\ Answered(s) \in Nat
  BY AnswersCounted
<1>5. Answers(q) = IF IsAnswer(a) THEN Answers(s) \cup {n + 1} ELSE Answers(s)
  BY <1>1, <1>3 DEF Answers, IsAnswer
<1>7. Cardinality(Answers(s) \cup {n + 1}) = Cardinality(Answers(s)) + 1
  BY <1>4, <1>6, FS_AddElement
<1>8. Answered(q) = Answered(s) + (IF IsAnswer(a) THEN 1 ELSE 0)
  BY <1>5, <1>6, <1>7 DEF Answered
<1>. QED
  BY <1>2, <1>8

\* An answer that is handled is one less.
LEMMA AnswerHandled ==
  ASSUME NEW s \in Seq(Alert), s # <<>>
  PROVE  Answered(s) = Answered(Tail(s)) + (IF IsAnswer(Head(s)) THEN 1 ELSE 0)
<1>1. PICK n \in Nat : n = Len(s) - 1 /\ DOMAIN s = 1..(n + 1)
  OBVIOUS
<1>2. PICK q \in Seq(Alert) : q = Tail(s)
  BY HeadTailProperties
<1>3. /\ DOMAIN q = 1..n
      /\ \A i \in 1..n : q[i] = s[i + 1]
      /\ Head(s) = s[1]
  BY <1>1, <1>2, HeadTailProperties
<1>. DEFINE rest == Answers(s) \ {1}
<1>13. PICK f : f = [i \in Answers(q) |-> i + 1]
  OBVIOUS
<1>4. \A i \in Answers(q) : i \in 1..n
  BY <1>3 DEF Answers
<1>5. f \in [Answers(q) -> rest]
  <2>1. ASSUME NEW i \in Answers(q) PROVE i + 1 \in rest
    <3>1. i \in 1..n /\ q[i] = s[i + 1] /\ IsAnswer(q[i])
      BY <1>3, <1>4 DEF Answers, IsAnswer
    <3>2. i + 1 \in 1..(n + 1) /\ i + 1 # 1
      BY <3>1
    <3>. QED
      BY <1>1, <3>1, <3>2 DEF Answers, IsAnswer
  <2>. QED
    BY <1>13, <2>1
<1>6. \A i, j \in Answers(q) : f[i] = f[j] => i = j
  BY <1>4, <1>13
<1>7. \A k \in rest : \E i \in Answers(q) : f[i] = k
  <2>1. SUFFICES ASSUME NEW k \in rest PROVE \E i \in Answers(q) : f[i] = k
    OBVIOUS
  <2>2. k \in 1..(n + 1) /\ k # 1 /\ IsAnswer(s[k])
    BY <1>1 DEF Answers, IsAnswer
  <2>3. k - 1 \in 1..n /\ (k - 1) + 1 = k
    BY <2>2
  <2>4. k - 1 \in Answers(q)
    BY <1>3, <2>2, <2>3 DEF Answers, IsAnswer
  <2>. QED
    BY <1>13, <2>3, <2>4
<1>8. f \in Bijection(Answers(q), rest)
  BY <1>5, <1>6, <1>7 DEF Bijection, Injection, Surjection, IsInjective
<1>9. /\ IsFiniteSet(Answers(q)) /\ Answered(q) \in Nat
      /\ IsFiniteSet(Answers(s)) /\ Answered(s) \in Nat
  BY <1>2, AnswersCounted
<1>10. Cardinality(rest) = Answered(q)
  BY <1>8, <1>9, FS_Bijection DEF ExistsBijection, Answered
<1>11. 1 \in Answers(s) <=> IsAnswer(Head(s))
  BY <1>1, <1>3 DEF Answers, IsAnswer
<1>12. Cardinality(rest) = IF IsAnswer(Head(s)) THEN Answered(s) - 1 ELSE Answered(s)
  BY <1>9, <1>11, FS_RemoveElement DEF Answered
<1>. QED
  BY <1>2, <1>9, <1>10, <1>12

\* A call is one more of those asked for ...
LEMMA AskedMore ==
  ASSUME TypeOK, IsFiniteSet(Asked), NEW t \in Torrent, Ask(t)
  PROVE  IsFiniteSet(Asked') /\ Cardinality(Asked') = Cardinality(Asked) + 1
<1>1. PICK n \in Nat : n = saving[t]
  BY DEF TypeOK
<1>2. saving' = [saving EXCEPT ![t] = n + 1] /\ saving \in [Torrent -> Nat]
  BY <1>1 DEF Ask, TypeOK
<1>3. Asked' = Asked \cup {<<t, n + 1>>}
  <2>1. 1..(n + 1) = (1..n) \cup {n + 1}
    OBVIOUS
  <2>2. \A u \in Torrent : {u} \X (1..saving'[u]) =
          IF u = t THEN ({u} \X (1..saving[u])) \cup {<<t, n + 1>>} ELSE {u} \X (1..saving[u])
    BY <1>1, <1>2, <2>1
  <2>. QED
    BY <2>2 DEF Asked
<1>4. <<t, n + 1>> \notin Asked
  <2>1. n + 1 \notin 1..n
    OBVIOUS
  <2>. QED
    BY <1>1, <2>1 DEF Asked
<1>. QED
  BY <1>3, <1>4, FS_AddElement

\* ... and one that is carried out is one less.
LEMMA AskedLess ==
  ASSUME TypeOK, IsFiniteSet(Asked), NEW t \in Torrent, saving[t] > 0,
         saving' = [saving EXCEPT ![t] = saving[t] - 1]
  PROVE  IsFiniteSet(Asked') /\ Cardinality(Asked') = Cardinality(Asked) - 1
<1>1. PICK n \in Nat : n = saving[t] - 1 /\ saving[t] = n + 1
  BY DEF TypeOK
<1>2. saving' = [saving EXCEPT ![t] = n] /\ saving \in [Torrent -> Nat]
  BY <1>1 DEF TypeOK
<1>3. Asked' = Asked \ {<<t, n + 1>>}
  <2>1. 1..n = (1..(n + 1)) \ {n + 1}
    OBVIOUS
  <2>2. \A u \in Torrent : {u} \X (1..saving'[u]) =
          IF u = t THEN ({u} \X (1..saving[u])) \ {<<t, n + 1>>} ELSE {u} \X (1..saving[u])
    BY <1>1, <1>2, <2>1
  <2>. QED
    BY <2>2 DEF Asked
<1>4. <<t, n + 1>> \in Asked
  <2>1. n + 1 \in 1..(n + 1)
    OBVIOUS
  <2>2. <<t, n + 1>> \in {t} \X (1..saving[t])
    BY <1>1, <2>1
  <2>. QED
    BY <2>2 DEF Asked
<1>. QED
  BY <1>3, <1>4, FS_RemoveElement

\* save_all() asks for one of each torrent of m_torrents.
LEMMA AskedAll ==
  ASSUME TypeOK, IsFiniteSet(Asked),
         saving' = [t \in Torrent |-> saving[t] + IF t \in m_torrents THEN 1 ELSE 0]
  PROVE  /\ IsFiniteSet(Asked')
         /\ Cardinality(Asked') = Cardinality(Asked) + Cardinality(m_torrents)
<1>1. saving \in [Torrent -> Nat] /\ m_torrents \in SUBSET Torrent
  BY DEF TypeOK
<1>. DEFINE new == {<<t, saving[t] + 1>> : t \in m_torrents}
<1>8. PICK f : f = [t \in m_torrents |-> <<t, saving[t] + 1>>]
  OBVIOUS
<1>2. Asked' = Asked \cup new
  <2>1. \A n \in Nat : 1..(n + 1) = (1..n) \cup {n + 1}
    OBVIOUS
  <2>2. \A u \in Torrent : {u} \X (1..saving'[u]) =
          IF u \in m_torrents THEN ({u} \X (1..saving[u])) \cup {<<u, saving[u] + 1>>}
                              ELSE {u} \X (1..saving[u])
    <3>1. SUFFICES ASSUME NEW u \in Torrent
                   PROVE {u} \X (1..saving'[u]) =
                     IF u \in m_torrents THEN ({u} \X (1..saving[u])) \cup {<<u, saving[u] + 1>>}
                              ELSE {u} \X (1..saving[u])
      OBVIOUS
    <3>2. PICK n \in Nat : n = saving[u]
      BY <1>1
    <3>3. saving'[u] = IF u \in m_torrents THEN n + 1 ELSE n
      BY <3>2
    <3>. QED
      BY <2>1, <3>2, <3>3
  <2>. QED
    BY <1>1, <2>2 DEF Asked
<1>3. Asked \cap new = {}
  <2>1. \A n \in Nat : n + 1 \notin 1..n
    OBVIOUS
  <2>. QED
    BY <1>1, <2>1 DEF Asked
<1>4. IsFiniteSet(m_torrents)
  BY <1>1, SaveResumeAssumption, FS_Subset
<1>5. f \in Bijection(m_torrents, new)
  <2>1. f \in [m_torrents -> new]
    BY <1>8
  <2>2. \A a, b \in m_torrents : f[a] = f[b] => a = b
    BY <1>8
  <2>3. \A x \in new : \E a \in m_torrents : f[a] = x
    BY <1>8
  <2>. QED
    BY <2>1, <2>2, <2>3 DEF Bijection, Injection, Surjection, IsInjective
<1>6. IsFiniteSet(new) /\ Cardinality(new) = Cardinality(m_torrents)
  BY <1>4, <1>5, FS_Bijection DEF ExistsBijection
<1>7. Cardinality(Asked) \in Nat /\ Cardinality(m_torrents) \in Nat /\ Cardinality({}) = 0
  BY <1>4, FS_CardinalityType, FS_EmptySet
<1>. QED
  BY <1>2, <1>3, <1>6, <1>7, FS_Union

\* What m_num_in_flight and the saves that are not in it come to.
Outstanding == Cardinality(Asked) + Answered(batch) + Answered(alerts)

\* The invariant in these terms, and the ranges of what is counted.
LEMMA CountRead ==
  /\ CountInv <=> IsFiniteSet(Asked) /\ (Running => m_num_in_flight + NotCounted = Outstanding)
  /\ ResumeInv /\ CountInv => /\ Cardinality(Asked) \in Nat
                              /\ Answered(batch) \in Nat /\ Answered(alerts) \in Nat
                              /\ m_num_in_flight \in Int /\ uncounted \in Nat
<1>1. CountInv <=> IsFiniteSet(Asked) /\ (Running => m_num_in_flight + NotCounted = Outstanding)
  BY DEF CountInv, InFlightAccounted, Outstanding, Answered
<1>2. ASSUME ResumeInv, CountInv
      PROVE  /\ Cardinality(Asked) \in Nat
             /\ Answered(batch) \in Nat /\ Answered(alerts) \in Nat
             /\ m_num_in_flight \in Int /\ uncounted \in Nat
  <2>1. m_num_in_flight \in Int /\ uncounted \in Nat /\ batch \in Seq(Alert) /\ alerts \in Seq(Alert)
    BY <1>2 DEF ResumeInv, TypeInv, TypeOK
  <2>2. Cardinality(Asked) \in Nat
    BY <1>2, FS_CardinalityType DEF CountInv
  <2>. QED
    BY <2>1, <2>2, AnswersCounted
<1>. QED
  BY <1>1, <1>2

\* A queue with an alert more, or less, that is no answer has as many answers.
LEMMA CountPosted ==
  ASSUME ResumeInv, NEW a \in Alert, alerts' = Append(alerts, a)
  PROVE  Answered(alerts') = Answered(alerts) + (IF IsAnswer(a) THEN 1 ELSE 0)
<1>1. PICK s \in Seq(Alert) : s = alerts
  BY DEF ResumeInv, TypeInv, TypeOK
<1>2. Answered(Append(s, a)) = Answered(s) + (IF IsAnswer(a) THEN 1 ELSE 0)
  BY AnswerPosted
<1>3. alerts' = Append(s, a)
  BY <1>1
<1>. QED
  BY <1>1, <1>2, <1>3

\* The same of an alert that is handled.
LEMMA CountHandled ==
  ASSUME ResumeInv, batch # <<>>, Handled
  PROVE  Answered(batch) = Answered(batch') + (IF IsAnswer(Head(batch)) THEN 1 ELSE 0)
<1>1. PICK s \in Seq(Alert) : s = batch
  BY DEF ResumeInv, TypeInv, TypeOK
<1>2. Answered(s) = Answered(Tail(s)) + (IF IsAnswer(Head(s)) THEN 1 ELSE 0)
  BY <1>1, AnswerHandled
<1>3. batch' = Tail(s)
  BY <1>1 DEF Handled
<1>. QED
  BY <1>1, <1>2, <1>3

\* An answer takes the place of the call it answers.
LEMMA CountNetwork ==
  ASSUME ResumeInv, CountInv, NEW u \in Torrent, NEW tell \in BOOLEAN,
         Network(u) \/ Modify(u, tell) \/ Expire(u)
  PROVE  CountInv'
<1>1. UNCHANGED <<batch, pc, m_num_in_flight, uncounted>>
  BY DEF Network, NetworkAdd, NetworkSave, Modify, Expire, loopVars, resumeVars, ghostVars
<1>2. (Running' => Running) /\ NotCounted' = NotCounted
  BY <1>1 DEF Running, NotCounted
<1>3. /\ Cardinality(Asked) \in Nat /\ Answered(batch) \in Nat /\ Answered(alerts) \in Nat
      /\ m_num_in_flight \in Int /\ version \in [Torrent -> Version] /\ TypeOK
      /\ Answered(batch') = Answered(batch)
  BY <1>1, CountRead DEF ResumeInv, TypeInv, TypeOK
<1>4. SUFFICES IsFiniteSet(Asked') /\ Cardinality(Asked') + Answered(alerts') = Cardinality(Asked) + Answered(alerts)
  <2>1. IsFiniteSet(Asked') => Cardinality(Asked') \in Nat
    BY FS_CardinalityType
  <2>2. ASSUME IsFiniteSet(Asked'),
               Cardinality(Asked') + Answered(alerts') = Cardinality(Asked) + Answered(alerts),
               Answered(alerts') \in Nat
        PROVE  CountInv'
    <3>1. Outstanding' = Outstanding
      BY <1>3, <2>1, <2>2 DEF Outstanding, Answered
    <3>. QED
      BY <1>1, <1>2, <2>2, <3>1, CountRead DEF CountInv, InFlightAccounted, Outstanding, Answered
  <2>3. Answered(alerts') \in Nat
    BY NetworkKept, AnswersCounted DEF ResumeInv, TypeInv, TypeOK
  <2>. QED
    BY <2>2, <2>3
<1>5. CASE NetworkAdd(u)
  <2>1. PICK v : v = db[u].version
    OBVIOUS
  <2>2. PICK a : a = [type |-> "added", t |-> u, version |-> v]
    OBVIOUS
  <2>3. a \in Alert /\ ~IsAnswer(a)
    BY <1>5, <2>1, <2>2 DEF Alert, AlertType, NetworkAdd, ResumeInv, TypeInv, TypeOK, Row, IsAnswer
  <2>4. alerts' = Append(alerts, a) /\ saving' = saving
    BY <1>5, <2>1, <2>2 DEF NetworkAdd
  <2>. QED
    BY <1>3, <2>3, <2>4, CountPosted DEF CountInv, Asked
<1>6. CASE NetworkSave(u)
  <2>1. PICK a : a = AlertOf(IF u \in session /\ u \in modified THEN "saved" ELSE "save_failed", u)
    OBVIOUS
  <2>2. a \in Alert /\ IsAnswer(a)
    BY <1>3, <2>1 DEF Alert, AlertType, AlertOf, IsAnswer
  <2>3. alerts' = Append(alerts, a) /\ saving[u] > 0 /\ saving' = [saving EXCEPT ![u] = saving[u] - 1]
    BY <1>6, <2>1 DEF NetworkSave
  <2>4. IsFiniteSet(Asked') /\ Cardinality(Asked') = Cardinality(Asked) - 1
    BY <1>3, <2>3, AskedLess DEF CountInv
  <2>5. Answered(alerts') = Answered(alerts) + 1
    BY <2>2, <2>3, CountPosted
  <2>. QED
    BY <1>3, <2>4, <2>5
<1>7. CASE Modify(u, tell)
  <2>1. PICK a : a = AlertOf("save_wanted", u)
    OBVIOUS
  <2>2. a \in Alert /\ ~IsAnswer(a)
    BY <1>3, <2>1 DEF Alert, AlertType, AlertOf, IsAnswer
  <2>3. (alerts' = alerts \/ alerts' = Append(alerts, a)) /\ saving' = saving
    BY <1>7, <2>1 DEF Modify
  <2>. QED
    BY <1>3, <2>2, <2>3, CountPosted DEF CountInv, Asked
<1>8. CASE Expire(u)
  BY <1>3, <1>8 DEF Expire, CountInv, Asked
<1>. QED
  BY <1>5, <1>6, <1>7, <1>8 DEF Network

\* A user asks for no save.
LEMMA CountUser ==
  ASSUME ResumeInv, CountInv, NEW u \in Torrent, NEW v \in {0, 1} \cap Version, NEW value \in TagValue,
         UserAdd(u, v) \/ UserRemove(u) \/ UserSetTag(u, value)
  PROVE  CountInv'
<1>1. UNCHANGED <<batch, pc, m_num_in_flight, saving, uncounted>>
  BY DEF UserAdd, UserRemove, UserSetTag, sessionVars, loopVars, resumeVars, ghostVars
<1>2. Running' = Running /\ NotCounted' = NotCounted
  BY <1>1 DEF Running, NotCounted
<1>3. Answered(alerts') = Answered(alerts)
  <2>1. CASE UserAdd(u, v)
    <3>1. PICK a : a = [type |-> "added", t |-> u, version |-> v]
      OBVIOUS
    <3>2. a \in Alert /\ ~IsAnswer(a)
      BY <3>1 DEF Alert, AlertType, IsAnswer
    <3>3. alerts' = Append(alerts, a)
      BY <2>1, <3>1 DEF UserAdd
    <3>. QED
      BY <3>2, <3>3, CountPosted, CountRead
  <2>2. CASE UserRemove(u)
    <3>1. PICK a : a = AlertOf("removed", u)
      OBVIOUS
    <3>2. a \in Alert /\ ~IsAnswer(a)
      BY <3>1 DEF Alert, AlertType, AlertOf, IsAnswer, ResumeInv, TypeInv, TypeOK
    <3>3. alerts' = Append(alerts, a)
      BY <2>2, <3>1 DEF UserRemove
    <3>. QED
      BY <3>2, <3>3, CountPosted, CountRead
  <2>3. CASE UserSetTag(u, value)
    BY <2>3 DEF UserSetTag
  <2>. QED
    BY <2>1, <2>2, <2>3
<1>. QED
  BY <1>1, <1>2, <1>3 DEF CountInv, InFlightAccounted, Answered, Asked

\* The handler counts what it asks for, and what is answered.
LEMMA CountHandler ==
  ASSUME ResumeInv, CountInv, Handler
  PROVE  CountInv'
<1>1. batch # <<>>
  BY DEF Handler, ResumeInv, TypeInv, HistoryAdded, ResumeAdded, ResumeAddedSave,
     ResumeAddedApply, ResumeSaveWanted, ResumeRemoved, ResumeSaved, ResumeFailed, Handling
<1>2. PICK u \in Torrent : u = Current
  BY <1>1, BatchShrinks
<1>3. /\ UNCHANGED <<alerts, uncounted>>
      /\ Running /\ NotCounted = uncounted /\ NotCounted' = uncounted
  <2>1. UNCHANGED <<alerts, uncounted>>
    BY DEF Handler, HistoryAdded, ResumeAdded, ResumeAddedSave, ResumeAddedApply,
       ResumeSaveWanted, ResumeRemoved, ResumeSaved, ResumeFailed, ghostVars
  <2>2. pc \in {"alert", "insert", "save", "apply"} /\ pc' \in {"alert", "insert", "save", "apply"}
    BY DEF Handler, HistoryAdded, ResumeAdded, ResumeAddedSave, ResumeAddedApply,
       ResumeSaveWanted, ResumeRemoved, ResumeSaved, ResumeFailed, Handling, Handled
  <2>3. uncounted \in Nat
    BY DEF ResumeInv, TypeInv, TypeOK
  <2>. QED
    BY <2>1, <2>2, <2>3 DEF Running, NotCounted
<1>4. /\ Cardinality(Asked) \in Nat /\ Answered(batch) \in Nat /\ Answered(alerts) \in Nat
      /\ m_num_in_flight \in Int /\ TypeOK /\ IsFiniteSet(Asked)
      /\ Answered(alerts') = Answered(alerts)
  BY <1>3, CountRead DEF ResumeInv, TypeInv, CountInv
<1>5. Ask(u) => IsFiniteSet(Asked') /\ Cardinality(Asked') = Cardinality(Asked) + 1
  BY <1>4, AskedMore
<1>6. UNCHANGED saving => IsFiniteSet(Asked') /\ Cardinality(Asked') = Cardinality(Asked)
  BY <1>4 DEF Asked
<1>7. Handled => Answered(batch) = Answered(batch') + (IF IsAnswer(Head(batch)) THEN 1 ELSE 0)
  BY <1>1, CountHandled
<1>8. Answered(batch') \in Nat
  BY HandlerKept, AnswersCounted DEF Handler, ResumeInv, TypeInv, TypeOK
<1>9. SUFFICES /\ IsFiniteSet(Asked')
               /\ (m_num_in_flight' - m_num_in_flight) =
                    (Cardinality(Asked') - Cardinality(Asked)) + (Answered(batch') - Answered(batch))
  <2>1. ASSUME IsFiniteSet(Asked'),
               (m_num_in_flight' - m_num_in_flight) =
                    (Cardinality(Asked') - Cardinality(Asked)) + (Answered(batch') - Answered(batch))
        PROVE  CountInv'
    <3>1. Cardinality(Asked') \in Nat
      BY <2>1, FS_CardinalityType
    <3>2. m_num_in_flight' \in Int /\ uncounted \in Nat
      BY HandlerKept DEF Handler, ResumeInv, TypeInv, TypeOK
    <3>3. m_num_in_flight + uncounted = (Cardinality(Asked) + Answered(batch)) + Answered(alerts)
      BY <1>3, <1>4, CountRead DEF Outstanding
    <3>4. m_num_in_flight' + uncounted = (Cardinality(Asked') + Answered(batch')) + Answered(alerts')
      BY <1>4, <1>8, <2>1, <3>1, <3>2, <3>3
    <3>. QED
      BY <1>3, <2>1, <3>1, <3>2, <3>4 DEF CountInv, InFlightAccounted, Answered
  <2>. QED
    BY <2>1
<1>10. CASE HistoryAdded
  <2>1. UNCHANGED <<saving, batch, m_num_in_flight>>
    BY <1>10 DEF HistoryAdded, sessionVars, resumeVars
  <2>. QED
    BY <1>4, <1>6, <2>1
<1>11. CASE ResumeAdded
  <2>1. /\ UNCHANGED <<saving, m_num_in_flight>>
        /\ \/ UNCHANGED batch
           \/ Handled /\ ~IsAnswer(Head(batch))
    BY <1>11 DEF ResumeAdded, sessionVars, ResumeInv, TypeInv, IsAnswer
  <2>. QED
    BY <1>4, <1>6, <1>7, <1>8, <2>1
<1>12. CASE ResumeAddedSave
  <2>1. \/ Ask(u) /\ m_num_in_flight' = m_num_in_flight + 1 /\ UNCHANGED batch
        \/ UNCHANGED <<saving, m_num_in_flight>> /\ Handled /\ ~IsAnswer(Head(batch))
    BY <1>2, <1>12 DEF ResumeAddedSave, ResumeInv, TypeInv, IsAnswer
  <2>. QED
    BY <1>4, <1>5, <1>6, <1>7, <1>8, <2>1
<1>13. CASE ResumeAddedApply
  <2>1. UNCHANGED <<saving, m_num_in_flight>> /\ Handled /\ ~IsAnswer(Head(batch))
    BY <1>13 DEF ResumeAddedApply, sessionVars, ResumeInv, TypeInv, IsAnswer
  <2>. QED
    BY <1>4, <1>6, <1>7, <1>8, <2>1
<1>14. CASE ResumeSaveWanted
  <2>1. /\ \/ Ask(u) /\ m_num_in_flight' = m_num_in_flight + 1
           \/ UNCHANGED <<saving, m_num_in_flight>>
        /\ Handled /\ ~IsAnswer(Head(batch))
    BY <1>2, <1>14 DEF ResumeSaveWanted, Handling, IsAnswer
  <2>. QED
    BY <1>4, <1>5, <1>6, <1>7, <1>8, <2>1
<1>15. CASE ResumeRemoved
  <2>1. UNCHANGED <<saving, m_num_in_flight>> /\ Handled /\ ~IsAnswer(Head(batch))
    BY <1>15 DEF ResumeRemoved, sessionVars, Handling, IsAnswer
  <2>. QED
    BY <1>4, <1>6, <1>7, <1>8, <2>1
<1>16. CASE ResumeSaved \/ ResumeFailed
  <2>1. /\ UNCHANGED saving /\ m_num_in_flight' = m_num_in_flight - 1
        /\ Handled /\ IsAnswer(Head(batch))
    BY <1>16 DEF ResumeSaved, ResumeFailed, sessionVars, Handling, IsAnswer
  <2>. QED
    BY <1>4, <1>6, <1>7, <1>8, <2>1
<1>. QED
  BY <1>10, <1>11, <1>12, <1>13, <1>14, <1>15, <1>16 DEF Handler

\* The loop counts what it asks for: save_all() at once, a tick one by one,
\* each after its status().
LEMMA CountLoop ==
  ASSUME ResumeInv, CountInv, NEW n \in Nat,
         \/ PopAlerts \/ AlertsDone \/ CheckQuit \/ Tick(n) \/ NoTick \/ TickSave \/ TickStatus
         \/ TickDone \/ While \/ ForceQuit \/ Signal
  PROVE  CountInv'
<1>1. /\ Cardinality(Asked) \in Nat /\ Answered(batch) \in Nat /\ Answered(alerts) \in Nat
      /\ m_num_in_flight \in Int /\ uncounted \in Nat /\ TypeOK /\ IsFiniteSet(Asked)
  BY CountRead DEF ResumeInv, TypeInv, CountInv
<1>2. CASE PopAlerts
  <2>1. <<>> \in Seq(Alert) /\ DOMAIN <<>> = {}
    OBVIOUS
  <2>2. Answers(<<>>) = {}
    BY <2>1 DEF Answers
  <2>3. Answered(<<>>) = 0
    BY <2>2, FS_EmptySet DEF Answered
  <2>4. batch = <<>> /\ batch' = alerts /\ alerts' = <<>>
    BY <1>2 DEF PopAlerts, ResumeInv, TypeInv
  <2>5. UNCHANGED <<saving, m_num_in_flight, uncounted>> /\ Running /\ pc # "status" /\ pc' # "status"
    BY <1>2 DEF PopAlerts, sessionVars, resumeVars, ghostVars, Running
  <2>6. Answered(batch') + Answered(alerts') = Answered(batch) + Answered(alerts)
    BY <1>1, <2>3, <2>4
  <2>7. Asked' = Asked /\ NotCounted' = NotCounted /\ NotCounted \in Nat
    BY <1>1, <2>5 DEF Asked, NotCounted
  <2>8. m_num_in_flight + NotCounted = (Cardinality(Asked) + Answered(batch)) + Answered(alerts)
    BY <2>5, CountRead DEF Outstanding
  <2>9. Answered(batch') \in Nat /\ Answered(alerts') \in Nat
    BY <1>1, <2>3, <2>4
  <2>10. m_num_in_flight' + NotCounted' = (Cardinality(Asked') + Answered(batch')) + Answered(alerts')
    BY <1>1, <2>5, <2>6, <2>7, <2>8, <2>9
  <2>. QED
    BY <1>1, <2>7, <2>10 DEF CountInv, InFlightAccounted, Answered
<1>3. CASE UNCHANGED <<saving, m_num_in_flight, uncounted, alerts, batch>>
           /\ (Running' => Running) /\ ((pc' # "status" /\ pc # "status") \/ pc' = pc)
  <2>1. Asked' = Asked /\ NotCounted' = NotCounted
    BY <1>3 DEF Asked, NotCounted
  <2>. QED
    BY <1>3, <2>1 DEF CountInv, InFlightAccounted
<1>4. CASE AlertsDone \/ Tick(n) \/ NoTick \/ TickDone \/ While \/ ForceQuit \/ Signal
  <2>1. UNCHANGED <<saving, m_num_in_flight, uncounted, alerts, batch>>
           /\ (Running' => Running) /\ ((pc' # "status" /\ pc # "status") \/ pc' = pc)
    BY <1>4 DEF AlertsDone, Tick, NoTick, TickDone, While, ForceQuit, Signal, Sleep, sessionVars,
       resumeVars, ghostVars, Running
  <2>. QED
    BY <1>3, <2>1
<1>5. CASE CheckQuit
  <2>1. CASE Die
    <3>1. pc' = "down" /\ saving' = [t \in Torrent |-> 0]
      BY <2>1 DEF Die, Forget
    <3>2. Asked' = {}
      BY <3>1 DEF Asked
    <3>. QED
      BY <3>1, <3>2, FS_EmptySet DEF CountInv, InFlightAccounted, Running
  <2>2. CASE UNCHANGED <<sessionVars, resumeVars, num_to_save, quit, ghostVars>> /\ pc' = "tick" /\ Sleep
    <3>1. UNCHANGED <<saving, m_num_in_flight, uncounted, alerts, batch>>
           /\ (Running' => Running) /\ ((pc' # "status" /\ pc # "status") \/ pc' = pc)
      BY <1>5, <2>2 DEF CheckQuit, Sleep, sessionVars, resumeVars, ghostVars, Running
    <3>. QED
      BY <1>3, <3>1
  <2>3. CASE SaveAll /\ m_torrents \subseteq alive
    <3>1. /\ saving' = [t \in Torrent |-> saving[t] + IF t \in m_torrents THEN 1 ELSE 0]
          /\ m_num_in_flight' = m_num_in_flight + Cardinality(m_torrents)
          /\ UNCHANGED <<uncounted, alerts, batch>>
          /\ pc = "check_quit" /\ pc' = "tick"
      BY <1>5, <2>3 DEF CheckQuit, SaveAll, Sleep
    <3>2. IsFiniteSet(Asked') /\ Cardinality(Asked') = Cardinality(Asked) + Cardinality(m_torrents)
      BY <1>1, <3>1, AskedAll
    <3>3. Cardinality(m_torrents) \in Nat
      BY <1>1, SaveResumeAssumption, FS_Subset, FS_CardinalityType DEF TypeOK
    <3>4. /\ Running /\ NotCounted = uncounted /\ NotCounted' = uncounted
          /\ m_num_in_flight + NotCounted = (Cardinality(Asked) + Answered(batch)) + Answered(alerts)
      BY <1>1, <3>1, CountRead DEF Outstanding, NotCounted, Running
    <3>5. m_num_in_flight' + NotCounted' = (Cardinality(Asked') + Answered(batch')) + Answered(alerts')
      BY <1>1, <3>1, <3>2, <3>3, <3>4
    <3>. QED
      BY <1>1, <3>1, <3>2, <3>3, <3>5 DEF CountInv, InFlightAccounted, Answered
  <2>. QED
    BY <1>5, <2>1, <2>2, <2>3 DEF CheckQuit, SaveAll
<1>6. CASE TickSave
  <2>1. PICK t : t = IF m_cursor = End THEN Begin(m_torrents) ELSE m_cursor
    OBVIOUS
  <2>2. /\ pc = "ticking"
        /\ \/ t \in alive /\ Ask(t) /\ pc' = "status"
           \/ pc' = "while" /\ UNCHANGED saving
        /\ UNCHANGED <<m_num_in_flight, uncounted, alerts, batch>>
    BY <1>6, <2>1 DEF TickSave, Thrown, Sleep, ghostVars
  <2>3. CASE UNCHANGED saving /\ pc' = "while"
    BY <1>3, <2>2, <2>3 DEF Running
  <2>4. CASE t \in alive /\ Ask(t) /\ pc' = "status"
    <3>1. IsFiniteSet(Asked') /\ Cardinality(Asked') = Cardinality(Asked) + 1
      BY <1>1, <2>4, AskedMore DEF TypeOK
    <3>2. /\ Running /\ NotCounted = uncounted /\ NotCounted' = uncounted + 1
          /\ m_num_in_flight + NotCounted = (Cardinality(Asked) + Answered(batch)) + Answered(alerts)
      BY <1>1, <2>2, <2>4, CountRead DEF Outstanding, NotCounted, Running
    <3>3. /\ m_num_in_flight' = m_num_in_flight /\ Answered(batch') = Answered(batch)
          /\ Answered(alerts') = Answered(alerts) /\ uncounted \in Nat
          /\ Cardinality(Asked) \in Nat /\ m_num_in_flight \in Int
      BY <1>1, <2>2 DEF TypeOK
    <3>4. m_num_in_flight' + NotCounted' = (Cardinality(Asked') + Answered(batch')) + Answered(alerts')
      BY <1>1, <3>1, <3>2, <3>3
    <3>. QED
      BY <1>1, <2>2, <2>4, <3>1, <3>4 DEF CountInv, InFlightAccounted, Answered
  <2>. QED
    BY <2>2, <2>3, <2>4
<1>7. CASE TickStatus
  <2>1. /\ pc = "status" /\ pc' \in {"ticking", "while"}
        /\ UNCHANGED <<saving, alerts, batch>>
    BY <1>7 DEF TickStatus, Thrown, Sleep, sessionVars
  <2>2. \/ m_num_in_flight' = m_num_in_flight + 1 /\ uncounted' = uncounted
        \/ m_num_in_flight' = m_num_in_flight /\ uncounted' = uncounted + 1
    BY <1>7 DEF TickStatus
  <2>3. /\ NotCounted = uncounted + 1 /\ NotCounted' = uncounted'
        /\ m_num_in_flight + NotCounted = (Cardinality(Asked) + Answered(batch)) + Answered(alerts)
    BY <1>1, <2>1, <2>2, CountRead DEF Outstanding, NotCounted, Running
  <2>4. Asked' = Asked
    BY <2>1 DEF Asked
  <2>5. m_num_in_flight' + NotCounted' = m_num_in_flight + NotCounted
    BY <1>1, <2>2, <2>3
  <2>. QED
    BY <1>1, <2>1, <2>3, <2>4, <2>5 DEF CountInv, InFlightAccounted, Answered
<1>. QED
  BY <1>2, <1>4, <1>5, <1>6, <1>7

\* A process starts with no save asked for, and leaves none.
LEMMA CountForget ==
  ASSUME NEW A, NEW P, Forget(A, P), pc' # "status"
  PROVE  CountInv'
<1>1. <<>> \in Seq(Alert) /\ DOMAIN <<>> = {}
  OBVIOUS
<1>2. Cardinality(Answers(<<>>)) = 0
  BY <1>1, FS_EmptySet DEF Answers
<1>3. Asked' = {}
  BY DEF Forget, Asked
<1>4. IsFiniteSet(Asked') /\ Cardinality(Asked') = 0
  BY <1>3, FS_EmptySet
<1>5. m_num_in_flight' = 0 /\ batch' = <<>> /\ alerts' = <<>> /\ NotCounted' = 0
  BY DEF Forget, NotCounted
<1>. QED
  BY <1>2, <1>4, <1>5 DEF CountInv, InFlightAccounted

\* One step of the proof per kind of step.
LEMMA CountStep ==
  ASSUME ResumeInv, CountInv, [Next]_vars
  PROVE  CountInv'
<1>1. CASE Loop
  <2>1. ASSUME NEW n \in Nat, Tick(n) PROVE CountInv'
    BY <2>1, CountLoop
  <2>2. 0 \in Nat
    OBVIOUS
  <2>. QED
    BY <1>1, <2>1, <2>2, CountLoop DEF Loop
<1>2. CASE Die \/ Start
  BY <1>2, CountForget DEF Die, Start
<1>3. CASE UNCHANGED vars
  BY <1>3 DEF CountInv, InFlightAccounted, NotCounted, Asked, Answers, Running, vars, sessionVars,
     resumeVars, loopVars, ghostVars
<1>. QED
  BY <1>1, <1>2, <1>3, NextKinds, CountNetwork, CountUser, CountHandler

\* The count of outstanding saves.
THEOREM CountInvariant == Spec => []CountInv
<1>1. Init => CountInv
  <2>1. SUFFICES ASSUME Init PROVE CountInv
    OBVIOUS
  <2>2. ~Running /\ saving = [t \in Torrent |-> 0]
    BY <2>1 DEF Init, Running
  <2>3. Asked = {}
    BY <2>2 DEF Asked
  <2>. QED
    BY <2>2, <2>3, FS_EmptySet DEF CountInv, InFlightAccounted
<1>. QED
  BY <1>1, CountStep, ResumeInvariant, PTL DEF Spec

\* The counter of outstanding saves is exact but for the saves tick() asked for and
\* did not count, whatever torrents are removed: while there are none of these
\* ok_to_quit() is true when, and only when, every save was answered
\* (save_resume::m_num_in_flight).
THEOREM SavesCounted == Spec => []InFlightAccounted
<1>1. CountInv => InFlightAccounted
  BY DEF CountInv
<1>. QED
  BY <1>1, CountInvariant, PTL

-----------------------------------------------------------------------------
(* What an exit has stored.                                                *)

\* An alert that is posted is the last one.
LEMMA SavePosted ==
  ASSUME NEW s \in Seq(Alert), NEW a \in Alert, NEW t, NEW v
  PROVE  /\ NoSave(Append(s, a), t) <=> NoSave(s, t) /\ ~Saves(a, t)
         /\ Saves(a, t) /\ a.version = v => LastSaves(Append(s, a), t, v)
         /\ ~Saves(a, t) /\ LastSaves(s, t, v) => LastSaves(Append(s, a), t, v)
<1>1. PICK n \in Nat : n = Len(s) /\ DOMAIN s = 1..n
  OBVIOUS
<1>2. PICK q : q = Append(s, a)
  OBVIOUS
<1>3. /\ DOMAIN q = (1..n) \cup {n + 1}
      /\ q[n + 1] = a /\ \A i \in 1..n : q[i] = s[i] /\ n + 1 > i
  BY <1>1, <1>2, AppendProperties
<1>4. NoSave(q, t) <=> NoSave(s, t) /\ ~Saves(a, t)
  BY <1>1, <1>3 DEF NoSave
<1>5. ASSUME Saves(a, t), a.version = v PROVE LastSaves(q, t, v)
  BY <1>3, <1>5 DEF LastSaves
<1>6. ASSUME ~Saves(a, t), LastSaves(s, t, v) PROVE LastSaves(q, t, v)
  <2>1. SUFFICES ASSUME NEW i \in DOMAIN q, Saves(q[i], t), \A j \in DOMAIN q : j > i => ~Saves(q[j], t)
                 PROVE  q[i].version = v
    BY DEF LastSaves
  <2>2. i \in 1..n /\ q[i] = s[i] /\ \A j \in 1..n : j > i => ~Saves(s[j], t)
    BY <1>3, <1>6, <2>1
  <2>. QED
    BY <1>1, <1>6, <2>1, <2>2 DEF LastSaves
<1>. QED
  BY <1>2, <1>4, <1>5, <1>6

\* A queue from which the first alert is taken ends as it did.
LEMMA SaveHandled ==
  ASSUME NEW s \in Seq(Alert), s # <<>>, NEW t, NEW v, LastSaves(s, t, v)
  PROVE  /\ LastSaves(Tail(s), t, v)
         /\ NoSave(s, t) <=> NoSave(Tail(s), t) /\ ~Saves(Head(s), t)
         /\ NoSave(Tail(s), t) /\ Saves(Head(s), t) => Head(s).version = v
<1>1. PICK n \in Nat : n = Len(s) - 1 /\ DOMAIN s = 1..(n + 1)
  OBVIOUS
<1>2. PICK q \in Seq(Alert) : q = Tail(s)
  BY HeadTailProperties
<1>3. /\ DOMAIN q = 1..n
      /\ \A i \in 1..n : q[i] = s[i + 1] /\ i + 1 \in 1..(n + 1)
      /\ \A j \in 1..(n + 1) : j # 1 => j - 1 \in 1..n /\ s[j] = q[j - 1]
      /\ Head(s) = s[1] /\ 1 \in 1..(n + 1)
  BY <1>1, <1>2, HeadTailProperties
<1>4. LastSaves(q, t, v)
  <2>1. SUFFICES ASSUME NEW i \in 1..n, Saves(q[i], t), \A j \in 1..n : j > i => ~Saves(q[j], t)
                 PROVE  q[i].version = v
    BY <1>3 DEF LastSaves
  <2>2. \A j \in 1..(n + 1) : j > i + 1 => ~Saves(s[j], t)
    <3>1. SUFFICES ASSUME NEW j \in 1..(n + 1), j > i + 1 PROVE ~Saves(s[j], t)
      OBVIOUS
    <3>2. j # 1 /\ j - 1 > i
      BY <3>1
    <3>. QED
      BY <1>3, <2>1, <3>2
  <2>3. i + 1 \in 1..(n + 1) /\ q[i] = s[i + 1]
    BY <1>3
  <2>4. Saves(s[i + 1], t)
    BY <2>1, <2>3
  <2>. QED
    BY <1>1, <2>2, <2>3, <2>4 DEF LastSaves
<1>5. NoSave(s, t) <=> NoSave(q, t) /\ ~Saves(Head(s), t)
  <2>1. ASSUME NoSave(s, t) PROVE NoSave(q, t) /\ ~Saves(Head(s), t)
    BY <1>1, <1>3, <2>1 DEF NoSave
  <2>2. ASSUME NoSave(q, t), ~Saves(Head(s), t) PROVE NoSave(s, t)
    BY <1>1, <1>3, <2>2 DEF NoSave
  <2>. QED
    BY <2>1, <2>2
<1>6. ASSUME NoSave(q, t), Saves(Head(s), t) PROVE Head(s).version = v
  <2>1. \A j \in 1..(n + 1) : j > 1 => ~Saves(s[j], t)
    BY <1>3, <1>6 DEF NoSave
  <2>. QED
    BY <1>1, <1>3, <1>6, <2>1 DEF LastSaves
<1>. QED
  BY <1>2, <1>4, <1>5, <1>6

\* What the database will have survives an alert that is posted ...
LEMMA WillHavePosted ==
  ASSUME ResumeInv, NEW a \in Alert, alerts' = Append(alerts, a), UNCHANGED <<batch, db>>,
         NEW t, NEW v,
         \/ Saves(a, t) /\ a.version = v
         \/ ~Saves(a, t) /\ WillHave(t, v)
  PROVE  WillHave(t, v)'
<1>1. PICK s \in Seq(Alert) : s = alerts
  BY DEF ResumeInv, TypeInv, TypeOK
<1>2. /\ NoSave(Append(s, a), t) <=> NoSave(s, t) /\ ~Saves(a, t)
      /\ Saves(a, t) /\ a.version = v => LastSaves(Append(s, a), t, v)
      /\ ~Saves(a, t) /\ LastSaves(s, t, v) => LastSaves(Append(s, a), t, v)
  BY SavePosted
<1>3. alerts' = Append(s, a)
  BY <1>1
<1>4. /\ LastSaves(alerts', t, v)
      /\ NoSave(alerts', t) => NoSave(alerts, t) /\ WillHave(t, v)
  BY <1>1, <1>2, <1>3 DEF WillHave
<1>5. WillHave(t, v)' <=> /\ LastSaves(alerts', t, v)
                          /\ NoSave(alerts', t) => LastSaves(batch', t, v)
                          /\ NoSave(alerts', t) /\ NoSave(batch', t) => t \in DOMAIN db' /\ db'[t].version = v
  BY DEF WillHave, LastSaves, NoSave
<1>. QED
  BY <1>4, <1>5 DEF WillHave

\* ... one that is handled, if the row it saves is written ...
LEMMA WillHaveHandled ==
  ASSUME ResumeInv, batch # <<>>, Handled, UNCHANGED alerts, NEW t, NEW v, WillHave(t, v),
         Saves(Head(batch), t) => t \in DOMAIN db' /\ db'[t].version = Head(batch).version,
         ~Saves(Head(batch), t) /\ t \in DOMAIN db => t \in DOMAIN db' /\ db'[t] = db[t]
  PROVE  WillHave(t, v)'
<1>1. PICK s \in Seq(Alert) : s = batch /\ s # <<>>
  BY DEF ResumeInv, TypeInv, TypeOK
<1>2. batch' = Tail(s)
  BY <1>1 DEF Handled
<1>3. LastSaves(s, t, v) =>
        /\ LastSaves(Tail(s), t, v)
        /\ NoSave(s, t) <=> NoSave(Tail(s), t) /\ ~Saves(Head(s), t)
        /\ NoSave(Tail(s), t) /\ Saves(Head(s), t) => Head(s).version = v
  BY <1>1, SaveHandled
<1>4. WillHave(t, v)' <=> /\ LastSaves(alerts', t, v)
                          /\ NoSave(alerts', t) => LastSaves(batch', t, v)
                          /\ NoSave(alerts', t) /\ NoSave(batch', t) => t \in DOMAIN db' /\ db'[t].version = v
  BY DEF WillHave, LastSaves, NoSave
<1>5. CASE NoSave(alerts, t)
  BY <1>1, <1>2, <1>3, <1>4, <1>5 DEF WillHave
<1>6. CASE ~NoSave(alerts, t)
  BY <1>4, <1>6 DEF WillHave
<1>. QED
  BY <1>5, <1>6

\* ... and the moment at which the queue is taken.
LEMMA WillHavePopped ==
  ASSUME ResumeInv, PopAlerts, NEW t, NEW v, WillHave(t, v)
  PROVE  WillHave(t, v)'
<1>1. DOMAIN <<>> = {}
  OBVIOUS
<1>2. batch = <<>> /\ batch' = alerts /\ alerts' = <<>> /\ db' = db
  BY DEF PopAlerts, ResumeInv, TypeInv
<1>3. NoSave(<<>>, t) /\ LastSaves(<<>>, t, v)
  BY <1>1 DEF NoSave, LastSaves
<1>4. WillHave(t, v)' <=> /\ LastSaves(alerts', t, v)
                          /\ NoSave(alerts', t) => LastSaves(batch', t, v)
                          /\ NoSave(alerts', t) /\ NoSave(batch', t) => t \in DOMAIN db' /\ db'[t].version = v
  BY DEF WillHave, LastSaves, NoSave
<1>. QED
  BY <1>2, <1>3, <1>4 DEF WillHave

\* Nothing else changes it.
LEMMA WillHaveSame ==
  ASSUME UNCHANGED <<alerts, batch, db>>, NEW t, NEW v, WillHave(t, v)
  PROVE  WillHave(t, v)'
BY DEF WillHave, LastSaves, NoSave

\* What libtorrent saves is delivered last.
LEMMA LatestNetwork ==
  ASSUME ResumeInv, LatestInv, NEW u \in Torrent, NEW tell \in BOOLEAN,
         Network(u) \/ Modify(u, tell) \/ Expire(u)
  PROVE  LatestInv'
<1>1. UNCHANGED <<batch, db>> /\ version \in [Torrent -> Version]
      /\ session \subseteq alive /\ alive \subseteq Torrent
  BY DEF Network, NetworkAdd, NetworkSave, Modify, Expire, loopVars, ResumeInv, TypeInv, TypeOK
<1>2. SUFFICES ASSUME NEW t \in session' \ modified', NEW w, w = version'[t] PROVE WillHave(t, w)'
  BY DEF LatestInv, WillHave, LastSaves, NoSave
<1>3. CASE NetworkAdd(u)
  <2>1. PICK v : v = db[u].version
    OBVIOUS
  <2>2. PICK a : a = [type |-> "added", t |-> u, version |-> v]
    OBVIOUS
  <2>3. a \in Alert /\ \A x : ~Saves(a, x)
    BY <1>3, <2>1, <2>2 DEF Alert, AlertType, NetworkAdd, ResumeInv, TypeInv, TypeOK, Row, Saves
  <2>4. /\ alerts' = Append(alerts, a) /\ version' = [version EXCEPT ![u] = v]
        /\ session' = session \cup {u} /\ modified' = modified /\ u \in adding
    BY <1>3, <2>1, <2>2 DEF NetworkAdd
  <2>5. CASE t = u
    <3>1. \A b \in Pending : b.t # u
      BY <2>4 DEF ResumeInv, PlaceInv
    <3>2. NoSave(alerts, u) /\ NoSave(batch, u) /\ LastSaves(alerts, u, v) /\ LastSaves(batch, u, v)
      BY <3>1 DEF NoSave, LastSaves, Saves, Pending, Range
    <3>3. WillHave(u, v)
      BY <2>1, <2>4, <3>2 DEF WillHave, ResumeInv, TypeInv
    <3>4. WillHave(u, v)'
      BY <1>1, <2>3, <2>4, <3>3, WillHavePosted
    <3>5. w = v
      BY <1>1, <1>2, <2>4, <2>5
    <3>. QED
      BY <2>5, <3>4, <3>5
  <2>6. CASE t # u
    <3>1. w = version[t]
      BY <1>1, <1>2, <2>4, <2>6
    <3>2. WillHave(t, w)
      BY <1>2, <2>4, <2>6, <3>1 DEF LatestInv
    <3>. QED
      BY <1>1, <2>3, <2>4, <3>2, WillHavePosted
  <2>. QED
    BY <2>5, <2>6
<1>4. CASE NetworkSave(u)
  <2>1. PICK a : a = AlertOf(IF u \in session /\ u \in modified THEN "saved" ELSE "save_failed", u)
    OBVIOUS
  <2>2. /\ a \in Alert /\ a.t = u /\ a.version = version[u]
        /\ a.type = "saved" <=> u \in session /\ u \in modified
    BY <1>1, <2>1 DEF Alert, AlertType, AlertOf
  <2>3. /\ alerts' = Append(alerts, a) /\ UNCHANGED <<session, version>>
        /\ modified' = IF u \in session /\ u \in modified THEN modified \ {u} ELSE modified
    BY <1>4, <2>1 DEF NetworkSave
  <2>4. w = version[t]
    BY <1>2, <2>3
  <2>5. \/ Saves(a, t) /\ a.version = w
        \/ ~Saves(a, t) /\ WillHave(t, w)
    BY <1>2, <2>2, <2>3, <2>4 DEF Saves, LatestInv
  <2>. QED
    BY <1>1, <2>2, <2>3, <2>5, WillHavePosted
<1>5. CASE Modify(u, tell)
  <2>1. PICK a : a = AlertOf("save_wanted", u)
    OBVIOUS
  <2>2. a \in Alert /\ ~Saves(a, t)
    BY <1>1, <2>1 DEF Alert, AlertType, AlertOf, Saves
  <2>3. /\ alerts' = alerts \/ alerts' = Append(alerts, a)
        /\ modified' = modified \cup {u} /\ session' = session
        /\ version' = [version EXCEPT ![u] = version[u] + 1]
    BY <1>5, <2>1 DEF Modify
  <2>4. w = version[t]
    BY <1>1, <1>2, <2>3
  <2>5. WillHave(t, w)
    BY <1>2, <2>3, <2>4 DEF LatestInv
  <2>. QED
    BY <1>1, <2>2, <2>3, <2>5, WillHavePosted, WillHaveSame
<1>6. CASE Expire(u)
  <2>1. UNCHANGED <<session, modified, version, alerts>>
    BY <1>6 DEF Expire
  <2>2. WillHave(t, w)
    BY <1>2, <2>1 DEF LatestInv
  <2>. QED
    BY <1>1, <2>1, <2>2, WillHaveSame
<1>. QED
  BY <1>3, <1>4, <1>5, <1>6 DEF Network

\* A torrent a user adds has everything to save; one that is removed nothing.
LEMMA LatestUser ==
  ASSUME ResumeInv, LatestInv, NEW u \in Torrent, NEW v \in {0, 1} \cap Version, NEW value \in TagValue,
         UserAdd(u, v) \/ UserRemove(u) \/ UserSetTag(u, value)
  PROVE  LatestInv'
<1>1. UNCHANGED <<batch, db>> /\ version \in [Torrent -> Version]
  BY DEF UserAdd, UserRemove, UserSetTag, loopVars, ResumeInv, TypeInv, TypeOK
<1>2. SUFFICES ASSUME NEW t \in session' \ modified', NEW w, w = version'[t] PROVE WillHave(t, w)'
  BY DEF LatestInv, WillHave, LastSaves, NoSave
<1>4. t \in session \ modified /\ version[t] = w
  <2>1. CASE UserAdd(u, v)
    BY <1>1, <1>2, <2>1 DEF UserAdd, ResumeInv, TypeInv, TypeOK
  <2>2. CASE UserRemove(u)
    BY <1>2, <2>2 DEF UserRemove
  <2>3. CASE UserSetTag(u, value)
    BY <1>2, <2>3 DEF UserSetTag, sessionVars
  <2>. QED
    BY <2>1, <2>2, <2>3
<1>5. WillHave(t, w)
  BY <1>4 DEF LatestInv
<1>6. WillHave(t, w)'
  <2>1. CASE UserAdd(u, v)
    <3>1. PICK a : a = [type |-> "added", t |-> u, version |-> v]
      OBVIOUS
    <3>2. a \in Alert /\ ~Saves(a, t)
      BY <3>1 DEF Alert, AlertType, Saves
    <3>3. alerts' = Append(alerts, a)
      BY <2>1, <3>1 DEF UserAdd
    <3>. QED
      BY <1>1, <1>5, <3>2, <3>3, WillHavePosted
  <2>2. CASE UserRemove(u)
    <3>1. PICK a : a = AlertOf("removed", u)
      OBVIOUS
    <3>2. a \in Alert /\ ~Saves(a, t)
      BY <1>1, <3>1 DEF Alert, AlertType, AlertOf, Saves
    <3>3. alerts' = Append(alerts, a)
      BY <2>2, <3>1 DEF UserRemove
    <3>. QED
      BY <1>1, <1>5, <3>2, <3>3, WillHavePosted
  <2>3. CASE UserSetTag(u, value)
    BY <1>1, <1>5, <2>3, WillHaveSame DEF UserSetTag
  <2>. QED
    BY <2>1, <2>2, <2>3
<1>. QED
  BY <1>6

\* The row of a torrent that is still in the session is written with what is
\* saved, and with nothing else.
LEMMA LatestHandler ==
  ASSUME ResumeInv, LatestInv, Handler
  PROVE  LatestInv'
<1>1. batch # <<>>
  BY DEF Handler, ResumeInv, TypeInv, HistoryAdded, ResumeAdded, ResumeAddedSave,
     ResumeAddedApply, ResumeSaveWanted, ResumeRemoved, ResumeSaved, ResumeFailed, Handling
<1>2. PICK u \in Torrent : u = Current /\ (Head(batch).type = "removed" => u \notin session)
  BY <1>1, BatchShrinks DEF ResumeInv, PlaceInv, Current
<1>3. UNCHANGED <<session, version, modified, alerts>> /\ session \subseteq alive
  BY DEF Handler, HistoryAdded, ResumeAdded, ResumeAddedSave, ResumeAddedApply,
     ResumeSaveWanted, ResumeRemoved, ResumeSaved, ResumeFailed, sessionVars, ResumeInv, TypeInv, TypeOK
<1>4. SUFFICES ASSUME NEW t \in session \ modified, NEW w, w = version[t] PROVE WillHave(t, w)'
  BY <1>3 DEF LatestInv, WillHave, LastSaves, NoSave
<1>5. WillHave(t, w)
  BY <1>4 DEF LatestInv
<1>6. CASE UNCHANGED <<batch, db>>
  BY <1>3, <1>5, <1>6, WillHaveSame
<1>7. CASE /\ Handled
           /\ Saves(Head(batch), t) => t \in DOMAIN db' /\ db'[t].version = Head(batch).version
           /\ ~Saves(Head(batch), t) /\ t \in DOMAIN db => t \in DOMAIN db' /\ db'[t] = db[t]
  BY <1>1, <1>3, <1>5, <1>7, WillHaveHandled
<1>8. CASE HistoryAdded
  BY <1>6, <1>8 DEF HistoryAdded
<1>9. CASE ResumeAdded \/ ResumeAddedSave \/ ResumeAddedApply \/ ResumeSaveWanted \/ ResumeFailed
  <2>1. UNCHANGED db /\ Head(batch).type # "saved" /\ (UNCHANGED batch \/ Handled)
    BY <1>9 DEF ResumeAdded, ResumeAddedSave, ResumeAddedApply, ResumeSaveWanted, ResumeFailed,
       Handling, ResumeInv, TypeInv
  <2>. QED
    BY <1>6, <1>7, <2>1 DEF Saves
<1>10. CASE ResumeRemoved
  <2>1. t # u /\ Head(batch).type # "saved" /\ Handled /\ (db' = db \/ db' = Drop(db, u))
    BY <1>2, <1>4, <1>10 DEF ResumeRemoved, Handling
  <2>. QED
    BY <1>7, <2>1 DEF Saves, Drop
<1>11. CASE ResumeSaved
  <2>1. Head(batch).t = u /\ Head(batch).type = "saved" /\ Handled
    BY <1>2, <1>11 DEF ResumeSaved, Handling, Current
  <2>2. PICK r : /\ r.version = Head(batch).version
                 /\ db' = IF u \in alive THEN Put(db, u, r) ELSE db
    <3>1. PICK r : r = [version |-> Head(batch).version, tag |-> tags[u]]
      OBVIOUS
    <3>. QED
      BY <1>2, <1>11, <3>1 DEF ResumeSaved
  <2>3. CASE t = u
    <3>1. db' = Put(db, u, r)
      BY <1>3, <1>4, <2>2, <2>3
    <3>2. t \in DOMAIN db' /\ db'[t] = r
      BY <2>3, <3>1 DEF Put
    <3>. QED
      BY <1>7, <2>1, <2>2, <2>3, <3>2 DEF Saves
  <2>4. CASE t # u
    <3>1. t \in DOMAIN db => t \in DOMAIN db' /\ db'[t] = db[t]
      BY <2>2, <2>4 DEF Put
    <3>. QED
      BY <1>7, <2>1, <2>4, <3>1 DEF Saves
  <2>. QED
    BY <2>3, <2>4
<1>. QED
  BY <1>8, <1>9, <1>10, <1>11 DEF Handler

\* One step of the proof per kind of step.
LEMMA LatestStep ==
  ASSUME ResumeInv, LatestInv, [Next]_vars
  PROVE  LatestInv'
<1>1. CASE session' = {}
  BY <1>1 DEF LatestInv
<1>2. CASE UNCHANGED <<session, modified, version, alerts, batch, db>>
  BY <1>2 DEF LatestInv, WillHave, LastSaves, NoSave
<1>3. CASE Die \/ Start
  BY <1>1, <1>3 DEF Die, Start, Forget
<1>4. CASE UNCHANGED vars
  BY <1>2, <1>4 DEF vars, sessionVars, loopVars
<1>5. CASE Loop
  <2>1. CASE PopAlerts
    <3>1. UNCHANGED <<session, modified, version>>
      BY <2>1 DEF PopAlerts, sessionVars
    <3>2. SUFFICES ASSUME NEW t \in session \ modified, NEW w, w = version[t] PROVE WillHave(t, w)'
      BY <3>1 DEF LatestInv, WillHave, LastSaves, NoSave
    <3>. QED
      BY <2>1, <3>2, WillHavePopped DEF LatestInv
  <2>2. CASE CheckQuit
    <3>1. ~Die => UNCHANGED <<session, modified, version, alerts, batch, db>>
      BY <2>2 DEF CheckQuit, SaveAll, Sleep, sessionVars
    <3>. QED
      BY <1>2, <1>3, <3>1
  <2>3. ASSUME NEW n \in Nat, Tick(n) PROVE UNCHANGED <<session, modified, version, alerts, batch, db>>
    BY <2>3 DEF Tick, Sleep, sessionVars
  <2>4. CASE \/ AlertsDone \/ TickSave \/ TickStatus \/ TickDone \/ NoTick \/ While \/ ForceQuit
             \/ Signal
    BY <1>2, <2>4 DEF AlertsDone, TickSave, TickStatus, TickDone, NoTick, While, ForceQuit, Signal,
       Sleep, sessionVars
  <2>. QED
    BY <1>2, <1>5, <2>1, <2>2, <2>3, <2>4 DEF Loop
<1>. QED
  BY <1>3, <1>4, <1>5, NextKinds, LatestNetwork, LatestUser, LatestHandler

\* What a torrent that is not modified has is in the database once all that
\* libtorrent delivered is handled.
THEOREM LatestInvariant == Spec => []LatestInv
<1>1. Init => LatestInv
  BY DEF Init, LatestInv
<1>. QED
  BY <1>1, LatestStep, ResumeInvariant, PTL DEF Spec

\* A promised torrent stays as it is, and a save of it stays asked for.
LEMMA PromiseStep ==
  ASSUME ResumeInv, PromiseInv, [Next]_vars
  PROVE  PromiseInv'
<1>1. /\ session \subseteq added \ adding /\ DOMAIN promised \subseteq Torrent
      /\ saving \in [Torrent -> Nat] /\ version \in [Torrent -> Version]
  BY DEF ResumeInv, TypeInv, TypeOK, PlaceInv
<1>2. CASE DOMAIN promised' = {} \/ ~m_shutting_down'
  BY <1>2 DEF PromiseInv
<1>3. CASE /\ UNCHANGED <<m_shutting_down, promised, session, version, modified>>
           /\ \A t \in Torrent : saving[t] > 0 => saving'[t] > 0
  BY <1>1, <1>3 DEF PromiseInv
<1>4. ASSUME NEW u \in Torrent, Ask(u) PROVE \A t \in Torrent : saving[t] > 0 => saving'[t] > 0
  BY <1>1, <1>4 DEF Ask
<1>5. ASSUME NEW u \in Torrent, NEW tell \in BOOLEAN, Network(u) \/ Modify(u, tell) \/ Expire(u)
      PROVE  PromiseInv'
  <2>1. CASE NetworkAdd(u)
    BY <1>1, <2>1 DEF NetworkAdd, PromiseInv, resumeVars, ghostVars
  <2>2. CASE NetworkSave(u)
    BY <1>1, <2>2 DEF NetworkSave, PromiseInv, resumeVars, ghostVars
  <2>3. CASE Modify(u, tell)
    BY <1>1, <2>3 DEF Modify, Overtaken, Drop, PromiseInv, resumeVars
  <2>4. CASE Expire(u)
    BY <1>3, <2>4 DEF Expire, resumeVars, ghostVars
  <2>. QED
    BY <1>5, <2>1, <2>2, <2>3, <2>4 DEF Network
<1>6. ASSUME NEW u \in Torrent, NEW v \in {0, 1} \cap Version, NEW value \in TagValue,
             UserAdd(u, v) \/ UserRemove(u) \/ UserSetTag(u, value)
      PROVE  PromiseInv'
  <2>1. CASE UserAdd(u, v)
    BY <1>1, <2>1 DEF UserAdd, PromiseInv, resumeVars, ghostVars
  <2>2. CASE UserRemove(u)
    BY <1>1, <2>2 DEF UserRemove, Overtaken, Drop, PromiseInv, resumeVars
  <2>3. CASE UserSetTag(u, value)
    BY <1>1, <2>3 DEF UserSetTag, Overtaken, Drop, PromiseInv, resumeVars, sessionVars
  <2>. QED
    BY <1>6, <2>1, <2>2, <2>3
<1>7. CASE Handler
  <2>1. batch # <<>>
    BY <1>7 DEF Handler, ResumeInv, TypeInv, HistoryAdded, ResumeAdded, ResumeAddedSave,
       ResumeAddedApply, ResumeSaveWanted, ResumeRemoved, ResumeSaved, ResumeFailed, Handling
  <2>2. /\ UNCHANGED <<m_shutting_down, promised, session, version, modified>>
        /\ Ask(Current) \/ UNCHANGED saving
    BY <1>7 DEF Handler, HistoryAdded, ResumeAdded, ResumeAddedSave, ResumeAddedApply,
       ResumeSaveWanted, ResumeRemoved, ResumeSaved, ResumeFailed, sessionVars, resumeVars, ghostVars
  <2>. QED
    BY <1>3, <1>4, <2>1, <2>2, BatchShrinks
<1>8. CASE Loop
  <2>1. CASE CheckQuit
    <3>1. CASE Die
      BY <1>2, <3>1 DEF Die, Forget
    <3>2. CASE UNCHANGED <<sessionVars, resumeVars, num_to_save, quit, ghostVars>>
      BY <1>3, <3>2 DEF sessionVars, resumeVars, ghostVars
    <3>3. CASE SaveAll /\ m_torrents \subseteq alive
      <4>1. /\ saving' = [t \in Torrent |-> saving[t] + IF t \in m_torrents THEN 1 ELSE 0]
            /\ promised' = [t \in m_torrents \cap session |-> [version |-> version[t], tag |-> wanted[t]]]
            /\ UNCHANGED <<session, version, modified>>
        BY <3>3 DEF SaveAll
      <4>2. ASSUME NEW t \in m_torrents \cap session PROVE saving'[t] > 0
        BY <1>1, <4>1 DEF ResumeInv, TypeInv, TypeOK
      <4>. QED
        BY <4>1, <4>2 DEF PromiseInv
    <3>. QED
      BY <2>1, <3>1, <3>2, <3>3 DEF CheckQuit, SaveAll
  <2>2. ASSUME NEW n \in Nat, Tick(n) PROVE PromiseInv'
    BY <1>3, <2>2 DEF Tick, sessionVars, resumeVars, ghostVars
  <2>3. CASE TickSave
    <3>1. PICK t : t = IF m_cursor = End THEN Begin(m_torrents) ELSE m_cursor
      OBVIOUS
    <3>2. /\ UNCHANGED <<m_shutting_down, promised, session, version, modified>>
          /\ (t \in alive /\ Ask(t)) \/ UNCHANGED saving
      BY <2>3, <3>1 DEF TickSave, ghostVars
    <3>3. alive \subseteq Torrent
      BY DEF ResumeInv, TypeInv, TypeOK
    <3>. QED
      BY <1>3, <1>4, <3>2, <3>3
  <2>4. CASE ForceQuit
    BY <1>2, <2>4 DEF ForceQuit, Nothing
  <2>5. CASE \/ PopAlerts \/ AlertsDone \/ TickStatus \/ TickDone \/ NoTick \/ While \/ Signal
    BY <1>3, <2>5 DEF PopAlerts, AlertsDone, TickStatus, TickDone, NoTick, While, Signal,
       sessionVars, resumeVars, ghostVars
  <2>. QED
    BY <1>8, <2>1, <2>2, <2>3, <2>4, <2>5 DEF Loop
<1>9. CASE Die \/ Start
  BY <1>2, <1>9 DEF Die, Start, Forget
<1>10. CASE UNCHANGED vars
  BY <1>3, <1>10 DEF vars, sessionVars, resumeVars, ghostVars
<1>. QED
  BY <1>5, <1>6, <1>7, <1>8, <1>9, <1>10, NextKinds

\* What shutting down promised is in the session as it was, saved or to be saved.
THEOREM PromiseInvariant == Spec => []PromiseInv
<1>1. Init => PromiseInv
  BY DEF Init, PromiseInv
<1>. QED
  BY <1>1, PromiseStep, ResumeInvariant, PTL DEF Spec

\* A process exits at the end of a round of its loop, or on a second signal.
LEMMA Exits ==
  ASSUME Next, pc' = "exited"
  PROVE  While \/ ForceQuit \/ UNCHANGED <<pc, db, promised, uncounted>>
<1>1. CASE Running
  <2>1. pc # "exited"
    BY <1>1 DEF Running
  <2>2. ASSUME NEW t \in Torrent, Network(t) PROVE FALSE
    BY <2>1, <2>2 DEF Network, NetworkAdd, NetworkSave, loopVars
  <2>3. ASSUME NEW t \in Torrent, NEW tell \in BOOLEAN, Modify(t, tell) \/ Expire(t) PROVE FALSE
    BY <2>1, <2>3 DEF Modify, Expire, loopVars
  <2>4. ASSUME User PROVE FALSE
    BY <2>1, <2>4 DEF User, UserAdd, UserRemove, UserSetTag, loopVars
  <2>5. ASSUME MainLoop, ~While PROVE FALSE
    BY <2>1, <2>5 DEF MainLoop, PopAlerts, HistoryAdded, ResumeAdded, ResumeAddedSave, ResumeAddedApply,
       ResumeSaveWanted, ResumeRemoved, ResumeSaved, ResumeFailed, AlertsDone, CheckQuit, SaveAll,
       Die, TickSave, TickStatus, TickDone, NoTick, Handled, Thrown
  <2>6. ASSUME TickDue \/ Signal \/ Crash PROVE FALSE
    BY <2>1, <2>6 DEF TickDue, Tick, Signal, Crash, Die
  <2>7. ~Start /\ (Ended => UNCHANGED vars)
    BY <1>1 DEF Running, Start, Ended
  <2>. QED
    BY <2>1, <2>2, <2>3, <2>4, <2>5, <2>6, <2>7 DEF Next, vars, loopVars
<1>2. CASE ~Running
  <2>1. Start \/ UNCHANGED vars
    BY <1>2 DEF Next, Ended
  <2>2. ~Start
    BY DEF Start
  <2>. QED
    BY <2>1, <2>2 DEF vars, loopVars, ghostVars, sessionVars
<1>. QED
  BY <1>1, <1>2

\* At the end of a round in which it exits nothing is in flight.
LEMMA ExitStored ==
  ASSUME ResumeInv, CountInv, LatestInv, PromiseInv, LoadedInv, While, pc' = "exited"
  PROVE  CleanExitSaves'
<1>1. /\ pc = "while" /\ m_num_in_flight = 0
      /\ UNCHANGED <<uncounted, promised, db>>
  BY DEF While, Sleep, ghostVars
<1>2. SUFFICES ASSUME uncounted = 0, NEW t \in DOMAIN promised
               PROVE  t \in DOMAIN db /\ db[t].version = promised[t].version
  BY <1>1 DEF CleanExitSaves
<1>3. CASE ~m_shutting_down
  BY <1>2, <1>3 DEF LoadedInv, Loaded
<1>4. CASE m_shutting_down
  <2>1. /\ Cardinality(Asked) \in Nat /\ Answered(alerts) \in Nat /\ Answered(batch) \in Nat
        /\ IsFiniteSet(Asked) /\ 0 = (Cardinality(Asked) + Answered(batch)) + Answered(alerts)
    BY <1>1, <1>2, CountRead DEF Running, NotCounted, Outstanding, CountInv
  <2>2. Cardinality(Asked) = 0 /\ Cardinality(Answers(alerts)) = 0
    BY <2>1 DEF Answered
  <2>3. Asked = {} /\ Answers(alerts) = {} /\ batch = <<>>
    BY <1>1, <2>1, <2>2, FS_EmptySet, AnswersCounted DEF ResumeInv, TypeInv, TypeOK
  <2>4. t \in Torrent /\ saving[t] \in Nat
    BY <1>2 DEF ResumeInv, TypeInv, TypeOK
  <2>5. ~(saving[t] > 0)
    <3>1. saving[t] > 0 => <<t, 1>> \in {t} \X (1 .. saving[t])
      BY <2>4
    <3>. QED
      BY <2>3, <2>4, <3>1 DEF Asked
  <2>6. t \in session \ modified /\ version[t] = promised[t].version
    BY <1>2, <1>4, <2>5 DEF PromiseInv
  <2>7. WillHave(t, version[t])
    BY <2>6 DEF LatestInv
  <2>8. NoSave(alerts, t) /\ NoSave(batch, t)
    <3>1. DOMAIN <<>> = {}
      OBVIOUS
    <3>. QED
      BY <2>3, <3>1 DEF NoSave, Saves, Answers
  <2>. QED
    BY <2>6, <2>7, <2>8 DEF WillHave
<1>. QED
  BY <1>3, <1>4

\* A process that exits on its own and has counted every save, whatever was removed,
\* has stored what every torrent had when save_all() asked (the loop's
\* condition, !quit || !resume.ok_to_quit()).
THEOREM ExitSavesAll == Spec => []CleanExitSaves
<1>1. Init => CleanExitSaves
  BY DEF Init, CleanExitSaves
<1>2. ASSUME ResumeInv, CountInv, LatestInv, PromiseInv, LoadedInv, CleanExitSaves, [Next]_vars
      PROVE  CleanExitSaves'
  <2>1. CASE pc' # "exited"
    BY <2>1 DEF CleanExitSaves
  <2>2. CASE UNCHANGED <<pc, db, promised, uncounted>>
    BY <1>2, <2>2 DEF CleanExitSaves
  <2>3. CASE ForceQuit
    BY <2>3 DEF ForceQuit, Nothing, CleanExitSaves
  <2>4. CASE While /\ pc' = "exited"
    BY <1>2, <2>4, ExitStored
  <2>5. UNCHANGED vars => UNCHANGED <<pc, db, promised, uncounted>>
    BY DEF vars, loopVars, sessionVars, ghostVars
  <2>. QED
    BY <1>2, <2>1, <2>2, <2>3, <2>4, <2>5, Exits
<1>. QED
  BY <1>1, <1>2, ResumeInvariant, CountInvariant, LatestInvariant, PromiseInvariant, LoadedInvariant,
     PTL DEF Spec
=============================================================================
