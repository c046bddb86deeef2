--------------------------- MODULE ServicesProofs ---------------------------
(***************************************************************************)
(* Theorems about the services around the session, for any number of       *)
(* connections, torrents, settings, files, pieces and counters, and any    *)
(* bounds.                                                                 *)
(***************************************************************************)
EXTENDS Services, SequenceTheorems, FiniteSetTheorems, WellFoundedInduction, TLAPS

-----------------------------------------------------------------------------
(* Sets of numbers, and parts of sequences.                                *)

\* A set of numbers has a least one.
LEMMA LeastNat ==
  ASSUME NEW T \in SUBSET Nat, T # {}
  PROVE  \E n \in T : \A m \in T : n <= m
<1>1. IsWellFoundedOn(OpToRel(<, Nat), Nat)
  BY NatLessThanWellFounded
<1>2. PICK R : R = OpToRel(<, Nat)
  OBVIOUS
<1>3. PICK n \in T : \A m \in T : ~(<<m, n>> \in R)
  BY <1>1, <1>2, WFMin
<1>4. ASSUME NEW x \in Nat, NEW y \in Nat, x < y PROVE <<x, y>> \in R
  BY <1>2, <1>4 DEF OpToRel
<1>5. \A m \in T : ~(m < n)
  BY <1>3, <1>4
<1>. QED
  BY <1>5

Ascends(s) == \A i, j \in DOMAIN s : i < j => s[i] < s[j]

\* A finite set of numbers can be put in order: the least one goes before the others.
LEMMA Sortable ==
  \A n \in Nat : \A S \in SUBSET Nat :
    IsFiniteSet(S) /\ Cardinality(S) = n => \E s \in [1 .. n -> S] : Ascends(s)
<1>1. DEFINE Fails(n) == \E S \in SUBSET Nat :
               IsFiniteSet(S) /\ Cardinality(S) = n /\ \A s \in [1 .. n -> S] : ~Ascends(s)
<1>2. SUFFICES ASSUME NEW n \in Nat, Fails(n), \A m \in Nat : Fails(m) => n <= m PROVE FALSE
  <2>1. CASE {n \in Nat : Fails(n)} = {}
    BY <2>1
  <2>2. CASE {n \in Nat : Fails(n)} # {}
    BY <2>2, LeastNat
  <2>. QED
    BY <2>1, <2>2
<1>3. PICK S \in SUBSET Nat : IsFiniteSet(S) /\ Cardinality(S) = n /\ \A s \in [1 .. n -> S] : ~Ascends(s)
  BY <1>2
<1>4. CASE n = 0
  <2>1. <<>> \in [1 .. 0 -> S] /\ Ascends(<<>>)
    BY DEF Ascends
  <2>. QED
    BY <1>3, <1>4, <2>1
<1>5. CASE n # 0
  <2>1. S # {}
    BY <1>3, <1>5, FS_EmptySet
  <2>2. PICK m \in S : \A x \in S : m <= x
    BY <2>1, LeastNat
  <2>3. IsFiniteSet(S \ {m}) /\ Cardinality(S \ {m}) = n - 1
    BY <1>3, FS_RemoveElement
  <2>4. ~Fails(n - 1)
    BY <1>2, <1>5
  <2>5. PICK s \in [1 .. n - 1 -> S \ {m}] : Ascends(s)
    BY <2>3, <2>4
  <2>6. PICK t : t = [i \in 1 .. n |-> IF i = 1 THEN m ELSE s[i - 1]]
    OBVIOUS
  <2>7. t \in [1 .. n -> S]
    BY <2>6
  <2>8. Ascends(t)
    <3>. SUFFICES ASSUME NEW i \in 1 .. n, NEW j \in 1 .. n, i < j PROVE t[i] < t[j]
      BY <2>7 DEF Ascends
    <3>1. j # 1 /\ j - 1 \in 1 .. n - 1 /\ t[j] = s[j - 1] /\ t[j] \in S \ {m}
      BY <2>5, <2>6
    <3>2. CASE i = 1
      <4>1. t[i] = m
        BY <2>6, <3>2
      <4>2. m <= t[j] /\ m # t[j] /\ t[j] \in Nat /\ m \in Nat
        BY <2>2, <3>1
      <4>. QED
        BY <4>1, <4>2
    <3>3. CASE i # 1
      <4>1. i - 1 \in 1 .. n - 1 /\ t[i] = s[i - 1] /\ i - 1 < j - 1
        BY <2>6, <3>3
      <4>2. s[i - 1] < s[j - 1]
        BY <2>5, <3>1, <4>1 DEF Ascends
      <4>. QED
        BY <3>1, <4>1, <4>2
    <3>. QED
      BY <3>2, <3>3
  <2>. QED
    BY <1>3, <2>7, <2>8
<1>. QED
  BY <1>4, <1>5

\* Ascending() lists the set, each number once.
LEMMA AscendingLists ==
  ASSUME NEW S \in SUBSET Nat, IsFiniteSet(S)
  PROVE  /\ Cardinality(S) \in Nat
         /\ Ascending(S) \in [1 .. Cardinality(S) -> S]
         /\ Ascends(Ascending(S))
         /\ \A x \in S : \E i \in 1 .. Cardinality(S) : Ascending(S)[i] = x
<1>1. PICK n \in Nat : n = Cardinality(S)
  BY FS_CardinalityType
<1>2. PICK a : a = Ascending(S)
  OBVIOUS
<1>3. a \in [1 .. n -> S] /\ Ascends(a)
  <2>1. \E s \in [1 .. n -> S] : Ascends(s)
    BY <1>1, Sortable
  <2>2. a = CHOOSE s \in [1 .. n -> S] : Ascends(s)
    BY <1>1, <1>2 DEF Ascending, Ascends
  <2>. QED
    BY <2>1, <2>2
<1>4. a \in Injection(1 .. n, S)
  <2>1. ASSUME NEW i \in 1 .. n, NEW j \in 1 .. n, a[i] = a[j] PROVE i = j
    <3>1. a[i] \in Nat /\ a[j] \in Nat
      BY <1>3
    <3>2. ~(i < j) /\ ~(j < i)
      BY <1>3, <2>1, <3>1 DEF Ascends
    <3>. QED
      BY <3>2
  <2>. QED
    BY <1>3, <2>1 DEF Injection, IsInjective
<1>5. Cardinality(1 .. n) = n
  BY FS_Interval
<1>6. a \in Surjection(1 .. n, S)
  BY <1>1, <1>4, <1>5, FS_Injection
<1>. QED
  BY <1>1, <1>2, <1>3, <1>6 DEF Surjection

\* What is picked of a sequence is in it, in its order.
LEMMA PickedElements ==
  ASSUME NEW S, NEW seq \in Seq(S), NEW places \in SUBSET DOMAIN seq
  PROVE  /\ Picked(seq, places) \in Seq(S)
         /\ \A i \in DOMAIN Picked(seq, places) : \E p \in places : Picked(seq, places)[i] = seq[p]
         /\ \A p \in places : \E i \in DOMAIN Picked(seq, places) : Picked(seq, places)[i] = seq[p]
         /\ \A i, j \in DOMAIN Picked(seq, places) : i < j =>
              \E p, q \in places : p < q /\ Picked(seq, places)[i] = seq[p] /\ Picked(seq, places)[j] = seq[q]
<1>. DEFINE Good(r) == /\ r \in Seq(S)
                       /\ \A i \in DOMAIN r : \E p \in places : r[i] = seq[p]
                       /\ \A p \in places : \E i \in DOMAIN r : r[i] = seq[p]
                       /\ \A i, j \in DOMAIN r : i < j =>
                            \E p, q \in places : p < q /\ r[i] = seq[p] /\ r[j] = seq[q]
<1>1. places \in SUBSET Nat /\ IsFiniteSet(places)
  BY FS_Interval, FS_Subset
<1>2. PICK a : a = Ascending(places)
  OBVIOUS
<1>3. PICK n \in Nat : n = Cardinality(places)
  BY <1>1, AscendingLists
<1>4. a \in [1 .. n -> places] /\ Ascends(a) /\ \A x \in places : \E i \in 1 .. n : a[i] = x
  BY <1>1, <1>2, <1>3, AscendingLists
<1>5. PICK r : r = Picked(seq, places)
  OBVIOUS
<1>6. r = [i \in 1 .. n |-> seq[a[i]]]
  BY <1>2, <1>4, <1>5 DEF Picked
<1>7. r \in [1 .. n -> S] /\ \A i \in 1 .. n : a[i] \in places /\ r[i] = seq[a[i]]
  BY <1>4, <1>6
<1>8. r \in Seq(S) /\ DOMAIN r = 1 .. n
  BY <1>7
<1>9. \A i, j \in 1 .. n : i < j => a[i] < a[j]
  BY <1>4 DEF Ascends
<1>10. \A p \in places : \E i \in 1 .. n : r[i] = seq[p]
  BY <1>4, <1>7
<1>11. \A i, j \in 1 .. n : i < j => \E p, q \in places : p < q /\ r[i] = seq[p] /\ r[j] = seq[q]
  BY <1>7, <1>9
<1>12. \A i \in DOMAIN r : \E p \in places : r[i] = seq[p]
  BY <1>7, <1>8
<1>13. \A p \in places : \E i \in DOMAIN r : r[i] = seq[p]
  BY <1>8, <1>10
<1>14. \A i, j \in DOMAIN r : i < j => \E p, q \in places : p < q /\ r[i] = seq[p] /\ r[j] = seq[q]
  BY <1>8, <1>11
<1>. HIDE DEF Good
<1>15. Good(r)
  BY <1>8, <1>12, <1>13, <1>14 DEF Good
<1>16. Good(Picked(seq, places))
  BY <1>5, <1>15
<1>. QED
  BY <1>16 DEF Good

-----------------------------------------------------------------------------
(* TorrentCalls                                                            *)

\* A record of a call; what it is going to do is left open.
IsCall(r) ==
  r = [id |-> r.id, name |-> r.name, todo |-> r.todo, list |-> r.list, before |-> r.before,
       alone |-> r.alone, fresh |-> r.fresh]

CallTypes ==
  /\ call = [c \in Client |-> call[c]]
  /\ \A c \in Client : IsCall(call[c]) /\ call[c].id \in Nat

AlertTypes ==
  /\ \E S : alerts \in Seq(S)
  /\ \A i \in DOMAIN alerts :
       alerts[i].type = "added" => alerts[i].data.client \in Client /\ alerts[i].data.id \in Nat

AnswerTypes ==
  /\ calls \in [Client -> Nat]
  /\ awaited \in [Client -> SUBSET Nat]
  /\ \A a \in adding : a.client \in Client /\ a.id \in Nat

\* Where the answer to call n of connection c may have to come from.
Carries(x, c, n) == x.type = "added" /\ x.data.client = c /\ x.data.id = n
InAdding(c, n) == \E a \in adding : a.client = c /\ a.id = n
InAlert(c, n) == \E i \in DOMAIN alerts : Carries(alerts[i], c, n)

\* It comes from one place, and from one record there.
OnePlace ==
  /\ \A c \in Client : call[c].id # 0 => ~InAdding(c, call[c].id) /\ ~InAlert(c, call[c].id)
  /\ \A a \in adding : a.id # 0 => ~InAlert(a.client, a.id)
  /\ \A i, j \in DOMAIN alerts : \A c \in Client : \A n \in Nat \ {0} :
       Carries(alerts[i], c, n) /\ Carries(alerts[j], c, n) => i = j

OneRecord ==
  \A a, b \in adding : a.client = b.client /\ a.id = b.id /\ a.id # 0 => a = b

Owed ==
  \A c \in Client : \A n \in Nat :
    n \in awaited[c] <=> n # 0 /\ (call[c].id = n \/ InAdding(c, n) \/ InAlert(c, n))

AnswerInv ==
  /\ CallTypes /\ AlertTypes /\ AnswerTypes
  /\ told => alerts # <<>>
  /\ \A c \in Client : call[c].id = 0 => call[c] = Idle
  /\ \A c \in Client : \A n \in awaited[c] : n <= calls[c]
  /\ Owed /\ OnePlace /\ OneRecord

\* Appending to a sequence, whatever it is of.
LEMMA AppendedAny ==
  ASSUME NEW S, NEW s \in Seq(S), NEW x
  PROVE  /\ \E T : Append(s, x) \in Seq(T)
         /\ DOMAIN Append(s, x) = DOMAIN s \cup {Len(s) + 1}
         /\ \A i \in DOMAIN s : Append(s, x)[i] = s[i]
         /\ Append(s, x)[Len(s) + 1] = x
         /\ Len(s) + 1 \notin DOMAIN s
         /\ Append(s, x) # <<>>
<1>1. s \in Seq(S \cup {x})
  OBVIOUS
<1>2. Append(s, x) \in Seq(S \cup {x}) /\ Len(Append(s, x)) = Len(s) + 1
  BY <1>1, AppendProperties
<1>3. \A i \in 1..Len(s) : Append(s, x)[i] = s[i]
  BY <1>1, AppendProperties
<1>4. Append(s, x)[Len(s) + 1] = x
  BY <1>1, AppendProperties
<1>5. DOMAIN s = 1..Len(s) /\ Len(s) \in Nat
  OBVIOUS
<1>6. DOMAIN Append(s, x) = 1..(Len(s) + 1)
  BY <1>2, <1>5
<1>7. DOMAIN Append(s, x) = DOMAIN s \cup {Len(s) + 1} /\ Len(s) + 1 \notin DOMAIN s
  BY <1>5, <1>6
<1>8. Append(s, x) # <<>>
  BY <1>1, AppendProperties
<1>. QED
  BY <1>2, <1>3, <1>4, <1>5, <1>7, <1>8

\* Dropping the head of one.
LEMMA TailAny ==
  ASSUME NEW S, NEW s \in Seq(S), s # <<>>
  PROVE  /\ \E T : Tail(s) \in Seq(T)
         /\ Head(s) = s[1] /\ 1 \in DOMAIN s
         /\ \A i \in DOMAIN Tail(s) : i + 1 \in DOMAIN s /\ i \in Nat /\ i + 1 # 1 /\ Tail(s)[i] = s[i + 1]
         /\ \A i \in DOMAIN s : i # 1 => i - 1 \in DOMAIN Tail(s) /\ Tail(s)[i - 1] = s[i]
<1>1. Tail(s) \in Seq(S) /\ Len(Tail(s)) = Len(s) - 1 /\ \A i \in 1..Len(Tail(s)) : Tail(s)[i] = s[i + 1]
  BY HeadTailProperties
<1>2. Len(s) \in Nat /\ Len(s) > 0 /\ DOMAIN s = 1..Len(s) /\ DOMAIN Tail(s) = 1..(Len(s) - 1)
  BY <1>1, EmptySeq
<1>3. Head(s) = s[1]
  OBVIOUS
<1>4. ASSUME NEW i \in DOMAIN s, i # 1 PROVE i - 1 \in DOMAIN Tail(s) /\ Tail(s)[i - 1] = s[i]
  <2>1. i \in Int /\ i - 1 \in 1..(Len(s) - 1) /\ (i - 1) + 1 = i
    BY <1>2, <1>4
  <2>2. PICK k : k = i - 1
    OBVIOUS
  <2>. QED
    BY <1>1, <1>2, <2>1, <2>2
<1>5. ASSUME NEW i \in DOMAIN Tail(s)
      PROVE  i + 1 \in DOMAIN s /\ i \in Nat /\ i + 1 # 1 /\ Tail(s)[i] = s[i + 1]
  BY <1>1, <1>2
<1>. QED
  BY <1>1, <1>2, <1>3, <1>4, <1>5

\* What is not about calls keeps it, as does an alert the history was told of.
LEMMA AnswerSame ==
  ASSUME AnswerInv, UNCHANGED <<call, adding, alerts, calls, awaited>>, told' => told \/ alerts # <<>>
  PROVE  AnswerInv'
<1>1. CallTypes' /\ AlertTypes' /\ AnswerTypes'
  BY DEF AnswerInv, CallTypes, AlertTypes, AnswerTypes
<1>2. Owed' /\ OnePlace' /\ OneRecord'
  BY DEF AnswerInv, Owed, OnePlace, OneRecord, InAdding, InAlert
<1>. QED
  BY <1>1, <1>2 DEF AnswerInv

\* A number that was not given out yet is awaited nowhere.
LEMMA FreshCall ==
  ASSUME AnswerInv, NEW c \in Client
  PROVE  /\ calls[c] + 1 \in Nat /\ calls[c] + 1 # 0 /\ calls[c] + 1 \notin awaited[c]
         /\ call[c].id # calls[c] + 1 /\ ~InAdding(c, calls[c] + 1) /\ ~InAlert(c, calls[c] + 1)
<1>1. calls[c] \in Nat /\ awaited[c] \subseteq Nat
  BY DEF AnswerInv, AnswerTypes
<1>2. calls[c] + 1 \in Nat /\ calls[c] + 1 # 0 /\ calls[c] + 1 \notin awaited[c]
  BY <1>1 DEF AnswerInv
<1>. QED
  BY <1>2 DEF AnswerInv, Owed

\* A call is begun; what is added without an answer does not matter.
LEMMA BeginStep ==
  ASSUME AnswerInv, NEW c \in Client, NEW name, NEW list, NEW todo,
         Begin(c, name, list, todo), call[c] = Idle,
         \A a \in adding' : a \in adding \/ (a.id = 0 /\ a.client \in Client),
         adding \subseteq adding', UNCHANGED <<alerts, told>>
  PROVE  AnswerInv'
<1> DEFINE k == calls[c] + 1
<1>1. CallTypes /\ AlertTypes /\ AnswerTypes
  BY DEF AnswerInv
<1>2. /\ k \in Nat /\ k # 0 /\ k \notin awaited[c] /\ call[c].id # k
      /\ ~InAdding(c, k) /\ ~InAlert(c, k)
  BY FreshCall
<1>3. call[c].id = 0
  <2>1. Idle.id = 0
    BY DEF Idle
  <2>. QED
    BY <2>1
<1>4. /\ \A d \in Client : IsCall(call'[d]) /\ call'[d].id \in Nat
      /\ \A d \in Client : d # c => call'[d] = call[d]
      /\ call'[c].id = k
      /\ CallTypes'
  BY <1>1, <1>2 DEF Begin, CallTypes, IsCall
<1>5. /\ calls' = [calls EXCEPT ![c] = k] /\ awaited' = [awaited EXCEPT ![c] = @ \cup {k}]
      /\ calls[c] \in Nat /\ awaited[c] \subseteq Nat
  BY <1>1 DEF Begin, AnswerTypes
<1>6. AlertTypes' /\ AnswerTypes'
  BY <1>1, <1>2, <1>5 DEF AlertTypes, AnswerTypes
<1>7. \A d \in Client : \A n \in Nat \ {0} : InAdding(d, n)' <=> InAdding(d, n)
  BY <1>1 DEF InAdding, AnswerTypes
<1>8. \A d \in Client : \A n : InAlert(d, n)' <=> InAlert(d, n)
  BY DEF InAlert
<1>9. \A d \in Client : call'[d].id = 0 => call'[d] = Idle
  BY <1>2, <1>4 DEF AnswerInv
<1>10. \A d \in Client : \A n \in awaited'[d] : n <= calls'[d]
  BY <1>1, <1>5 DEF AnswerInv, AnswerTypes
<1>11. Owed'
  <2> SUFFICES ASSUME NEW d \in Client, NEW n \in Nat
               PROVE  n \in awaited'[d] <=> n # 0 /\ (call'[d].id = n \/ InAdding(d, n)' \/ InAlert(d, n)')
    BY DEF Owed
  <2>1. n \in awaited[d] <=> n # 0 /\ (call[d].id = n \/ InAdding(d, n) \/ InAlert(d, n))
    BY DEF AnswerInv, Owed
  <2>2. n \in awaited'[d] <=> n \in awaited[d] \/ (d = c /\ n = k)
    BY <1>1, <1>5 DEF AnswerTypes
  <2>. QED
    BY <1>2, <1>3, <1>4, <1>7, <1>8, <2>1, <2>2
<1>12. OnePlace'
  <2>1. ASSUME NEW d \in Client, call'[d].id # 0
        PROVE  ~InAdding(d, call[d].id)' /\ ~InAlert(d, call[d].id)'
    <3>1. CASE d = c
      BY <1>2, <1>4, <1>7, <1>8, <3>1
    <3>2. CASE d # c
      <4>1. call'[d].id = call[d].id /\ call[d].id \in Nat \ {0}
        BY <1>1, <1>4, <2>1, <3>2 DEF CallTypes
      <4>2. ~InAdding(d, call[d].id) /\ ~InAlert(d, call[d].id)
        BY <4>1 DEF AnswerInv, OnePlace
      <4>. QED
        BY <1>7, <1>8, <4>1, <4>2
    <3>. QED
      BY <3>1, <3>2
  <2>2. ASSUME NEW a \in adding', a.id # 0 PROVE ~InAlert(a.client, a.id)'
    <3>1. a \in adding /\ a.client \in Client
      BY <1>1, <2>2 DEF AnswerTypes
    <3>2. ~InAlert(a.client, a.id)
      BY <2>2, <3>1 DEF AnswerInv, OnePlace
    <3>. QED
      BY <1>8, <3>1, <3>2
  <2>3. \A i, j \in DOMAIN alerts' : \A d \in Client : \A n \in Nat \ {0} :
          Carries(alerts'[i], d, n) /\ Carries(alerts'[j], d, n) => i = j
    BY DEF AnswerInv, OnePlace
  <2>. QED
    BY <2>1, <2>2, <2>3 DEF OnePlace
<1>13. OneRecord'
  BY DEF AnswerInv, OneRecord
<1>. QED
  BY <1>4, <1>6, <1>9, <1>10, <1>11, <1>12, <1>13 DEF AnswerInv

\* libtorrent posts an alert.
LEMMA AlertPosted ==
  ASSUME AlertTypes, NEW x, alerts' = Append(alerts, x),
         x.type = "added" => x.data.client \in Client /\ x.data.id \in Nat
  PROVE  /\ AlertTypes' /\ alerts' # <<>>
         /\ \A c, n : InAlert(c, n)' <=> InAlert(c, n) \/ Carries(x, c, n)
         /\ \E k : /\ k \notin DOMAIN alerts /\ DOMAIN alerts' = DOMAIN alerts \cup {k} /\ alerts'[k] = x
                   /\ \A i \in DOMAIN alerts : alerts'[i] = alerts[i]
<1>1. PICK S : alerts \in Seq(S)
  BY DEF AlertTypes
<1>2. PICK k : k = Len(alerts) + 1
  OBVIOUS
<1>3. /\ \E T : alerts' \in Seq(T)
      /\ DOMAIN alerts' = DOMAIN alerts \cup {k}
      /\ \A i \in DOMAIN alerts : alerts'[i] = alerts[i]
      /\ alerts'[k] = x /\ k \notin DOMAIN alerts /\ alerts' # <<>>
  <2>1. PICK s \in Seq(S) : s = alerts
    BY <1>1
  <2>2. /\ \E T : Append(s, x) \in Seq(T)
        /\ DOMAIN Append(s, x) = DOMAIN s \cup {Len(s) + 1}
        /\ \A i \in DOMAIN s : Append(s, x)[i] = s[i]
        /\ Append(s, x)[Len(s) + 1] = x /\ Len(s) + 1 \notin DOMAIN s /\ Append(s, x) # <<>>
    BY AppendedAny, Zenon
  <2>3. alerts' = Append(s, x) /\ k = Len(s) + 1
    BY <1>2, <2>1
  <2>. QED
    BY <2>1, <2>2, <2>3, Zenon
<1>4. AlertTypes'
  BY <1>3 DEF AlertTypes
<1>5. \A c, n : InAlert(c, n)' <=> InAlert(c, n) \/ Carries(x, c, n)
  BY <1>3 DEF InAlert
<1>. QED
  BY <1>3, <1>4, <1>5

\* A connection that is in no call is still in none when another one changes something.
LEMMA IdleFields == Idle.todo = <<>> /\ [Idle EXCEPT !.alone = FALSE] = Idle
<1>1. PICK e : e = <<>>
  OBVIOUS
<1>2. PICK r : r = Idle
  OBVIOUS
<1>3. /\ r \in [id : {0}, name : {""}, todo : {e}, list : {e}, before : {e}, alone : BOOLEAN, fresh : BOOLEAN]
      /\ r.alone = FALSE /\ r.todo = <<>>
  <2>1. r = [id |-> 0, name |-> "", todo |-> e, list |-> e, before |-> e, alone |-> FALSE, fresh |-> FALSE]
    BY <1>1, <1>2 DEF Idle
  <2>2. r.alone = FALSE /\ r.todo = e
    BY <2>1
  <2>3. r \in [id : {0}, name : {""}, todo : {e}, list : {e}, before : {e}, alone : BOOLEAN, fresh : BOOLEAN]
    BY <2>1
  <2>. QED
    BY <1>1, <2>2, <2>3
<1>4. [r EXCEPT !.alone = FALSE] = r
  BY <1>3
<1>. QED
  BY <1>2, <1>3, <1>4

\* One change, to a torrent that is still there or not.
LEMMA ApplyStep ==
  ASSUME AnswerInv, NEW c \in Client, Apply(c)
  PROVE  AnswerInv'
<1>1. CallTypes /\ AlertTypes /\ AnswerTypes
  BY DEF AnswerInv
<1>2. PICK t, todo :
        /\ \/ alerts' = alerts
           \/ alerts' = Append(alerts, [type |-> "removed", torrent |-> t])
        /\ call' = [d \in Client |-> IF d = c THEN [call[d] EXCEPT !.todo = todo]
                                     ELSE [call[d] EXCEPT !.alone = FALSE]]
        /\ call[c].todo # <<>>
        /\ UNCHANGED <<adding, told, calls, awaited>>
  <2>1. PICK t, todo : t = Head(call[c].todo).torrent /\ todo = Tail(call[c].todo)
    OBVIOUS
  <2>2. \/ alerts' = alerts
        \/ alerts' = Append(alerts, [type |-> "removed", torrent |-> t])
    BY <2>1 DEF Apply
  <2>3. call' = [d \in Client |-> IF d = c THEN [call[d] EXCEPT !.todo = todo]
                                 ELSE [call[d] EXCEPT !.alone = FALSE]]
    BY <2>1, Zenon DEF Apply
  <2>4. call[c].todo # <<>> /\ UNCHANGED <<adding, told, calls, awaited>>
    BY DEF Apply
  <2>. QED
    BY <2>2, <2>3, <2>4
<1>3. /\ \A d \in Client : IsCall(call'[d]) /\ call'[d].id = call[d].id
      /\ CallTypes'
  <2>1. \A d \in Client : call'[d].id = call[d].id
    BY <1>1, <1>2 DEF CallTypes, IsCall
  <2>2. \A d \in Client : IsCall(call'[d])
    BY <1>1, <1>2 DEF CallTypes, IsCall
  <2>3. call' = [d \in Client |-> call'[d]]
    BY <1>2
  <2>. QED
    BY <1>1, <2>1, <2>2, <2>3 DEF CallTypes
<1>4. AlertTypes' /\ (\A d, n : InAlert(d, n)' <=> InAlert(d, n)) /\ (alerts # <<>> => alerts' # <<>>)
  <2>1. CASE alerts' = alerts
    BY <1>1, <2>1 DEF AlertTypes, InAlert
  <2>2. ASSUME NEW x, x = [type |-> "removed", torrent |-> t], alerts' = Append(alerts, x)
        PROVE  AlertTypes' /\ (\A d, n : InAlert(d, n)' <=> InAlert(d, n)) /\ alerts' # <<>>
    <3>1. x.type # "added"
      BY <2>2
    <3>. QED
      BY <1>1, <2>2, <3>1, AlertPosted DEF Carries
  <2>. QED
    BY <1>2, <2>1, <2>2
<1>5. \A i, j \in DOMAIN alerts' : \A d \in Client : \A n \in Nat \ {0} :
        Carries(alerts'[i], d, n) /\ Carries(alerts'[j], d, n) => i = j
  <2>1. CASE alerts' = alerts
    BY <2>1 DEF AnswerInv, OnePlace
  <2>2. ASSUME NEW x, x = [type |-> "removed", torrent |-> t], alerts' = Append(alerts, x)
        PROVE  \A i, j \in DOMAIN alerts' : \A d \in Client : \A n \in Nat \ {0} :
                 Carries(alerts'[i], d, n) /\ Carries(alerts'[j], d, n) => i = j
    <3>1. x.type # "added"
      BY <2>2
    <3>2. \A i \in DOMAIN alerts' : alerts'[i].type = "added" => i \in DOMAIN alerts /\ alerts'[i] = alerts[i]
      BY <1>1, <2>2, <3>1, AlertPosted
    <3>. QED
      BY <3>2 DEF Carries, AnswerInv, OnePlace
  <2>. QED
    BY <1>2, <2>1, <2>2
<1>6. ASSUME NEW d \in Client, call'[d].id = 0 PROVE call'[d] = Idle
  <2>1. call[d] = Idle
    BY <1>3, <1>6 DEF AnswerInv
  <2>2. Idle.todo = <<>> /\ [Idle EXCEPT !.alone = FALSE] = Idle
    BY IdleFields
  <2>3. d # c
    BY <1>2, <2>1, <2>2
  <2>. QED
    BY <1>2, <2>1, <2>2, <2>3
<1>7. AnswerTypes' /\ OneRecord' /\ (told' => alerts' # <<>>) /\ \A d \in Client : \A n \in awaited'[d] : n <= calls'[d]
  BY <1>2, <1>4 DEF AnswerInv, AnswerTypes, OneRecord
<1>8. \A d, n : InAdding(d, n)' <=> InAdding(d, n)
  BY <1>2 DEF InAdding
<1>9. Owed'
  BY <1>2, <1>3, <1>4, <1>8 DEF AnswerInv, Owed
<1>10. OnePlace'
  <2>1. \A d \in Client : call'[d].id # 0 => ~InAdding(d, call[d].id)' /\ ~InAlert(d, call[d].id)'
    BY <1>3, <1>4, <1>8 DEF AnswerInv, OnePlace
  <2>2. \A a \in adding' : a.id # 0 => ~InAlert(a.client, a.id)'
    BY <1>2, <1>4 DEF AnswerInv, OnePlace
  <2>. QED
    BY <1>5, <2>1, <2>2 DEF OnePlace
<1>. QED
  BY <1>3, <1>4, <1>6, <1>7, <1>9, <1>10 DEF AnswerInv

\* A call is answered.
LEMMA RespondStep ==
  ASSUME AnswerInv, NEW c \in Client, Respond(c)
  PROVE  AnswerInv'
<1>1. CallTypes /\ AlertTypes /\ AnswerTypes
  BY DEF AnswerInv
<1>2. PICK k : k = call[c].id
  OBVIOUS
<1>3. k \in Nat /\ k # 0 /\ ~InAdding(c, k) /\ ~InAlert(c, k)
  BY <1>1, <1>2 DEF AnswerInv, Respond, CallTypes, OnePlace
<1>4. /\ call' = [call EXCEPT ![c] = Idle] /\ awaited' = [awaited EXCEPT ![c] = @ \ {k}]
      /\ UNCHANGED <<adding, alerts, told, calls>>
  BY <1>2 DEF Respond
<1>5. Idle.id = 0 /\ IsCall(Idle)
  BY DEF Idle, IsCall
<1>6. /\ CallTypes' /\ call'[c] = Idle
      /\ \A d \in Client : d # c => call'[d] = call[d]
  BY <1>1, <1>4, <1>5 DEF CallTypes
<1>7. AlertTypes' /\ AnswerTypes' /\ (told' => alerts' # <<>>)
  BY <1>1, <1>4 DEF AlertTypes, AnswerTypes, AnswerInv
<1>8. \A d, n : (InAdding(d, n)' <=> InAdding(d, n)) /\ (InAlert(d, n)' <=> InAlert(d, n))
  BY <1>4 DEF InAdding, InAlert
<1>9. \A d \in Client : call'[d].id = 0 => call'[d] = Idle
  BY <1>6 DEF AnswerInv
<1>10. \A d \in Client : \A n \in awaited'[d] : n <= calls'[d]
  BY <1>1, <1>4 DEF AnswerInv, AnswerTypes
<1>11. Owed'
  <2> SUFFICES ASSUME NEW d \in Client, NEW n \in Nat
               PROVE  n \in awaited'[d] <=> n # 0 /\ (call'[d].id = n \/ InAdding(d, n)' \/ InAlert(d, n)')
    BY DEF Owed
  <2>1. n \in awaited[d] <=> n # 0 /\ (call[d].id = n \/ InAdding(d, n) \/ InAlert(d, n))
    BY DEF AnswerInv, Owed
  <2>2. n \in awaited'[d] <=> n \in awaited[d] /\ ~(d = c /\ n = k)
    BY <1>1, <1>4 DEF AnswerTypes
  <2>. QED
    BY <1>2, <1>3, <1>5, <1>6, <1>8, <2>1, <2>2
<1>12. OnePlace'
  <2>1. \A d \in Client : call'[d].id # 0 => ~InAdding(d, call[d].id)' /\ ~InAlert(d, call[d].id)'
    <3> SUFFICES ASSUME NEW d \in Client, call'[d].id # 0
                 PROVE  ~InAdding(d, call[d].id)' /\ ~InAlert(d, call[d].id)'
      OBVIOUS
    <3>1. d # c /\ call'[d].id = call[d].id
      BY <1>5, <1>6
    <3>2. ~InAdding(d, call[d].id) /\ ~InAlert(d, call[d].id)
      BY <3>1 DEF AnswerInv, OnePlace
    <3>. QED
      BY <1>8, <3>1, <3>2
  <2>2. \A a \in adding' : a.id # 0 => ~InAlert(a.client, a.id)'
    BY <1>4, <1>8 DEF AnswerInv, OnePlace
  <2>3. \A i, j \in DOMAIN alerts' : \A d \in Client : \A n \in Nat \ {0} :
          Carries(alerts'[i], d, n) /\ Carries(alerts'[j], d, n) => i = j
    BY <1>4 DEF AnswerInv, OnePlace
  <2>. QED
    BY <2>1, <2>2, <2>3 DEF OnePlace
<1>13. OneRecord'
  BY <1>4 DEF AnswerInv, OneRecord
<1>. QED
  BY <1>6, <1>7, <1>9, <1>10, <1>11, <1>12, <1>13 DEF AnswerInv

\* libtorrent adds a torrent, or not: what it was asked with goes into the alert.
LEMMA AddsStep ==
  ASSUME AnswerInv, NEW a \in adding, Adds(a)
  PROVE  AnswerInv'
<1>1. CallTypes /\ AlertTypes /\ AnswerTypes
  BY DEF AnswerInv
<1>2. PICK e : e = (a.torrent \in Torrents(queue) /\ a.id # 0)
  OBVIOUS
<1>3. PICK x : x = [type |-> "added", torrent |-> a.torrent, error |-> e, data |-> a]
  OBVIOUS
<1>4. /\ adding' = adding \ {a} /\ alerts' = Append(alerts, x)
      /\ call' = [c \in Client |-> [call[c] EXCEPT !.alone = FALSE]]
      /\ UNCHANGED <<told, calls, awaited>>
  <2>1. (~(a.torrent \notin Torrents(queue)) /\ a.id # 0) = e
    BY <1>2
  <2>. QED
    BY <1>3, <2>1 DEF Adds
<1>5. /\ \A c, n : Carries(x, c, n) <=> a.client = c /\ a.id = n
      /\ a.client \in Client /\ a.id \in Nat
      /\ x.type = "added" => x.data.client \in Client /\ x.data.id \in Nat
  BY <1>1, <1>3 DEF AnswerTypes, Carries
<1>6. /\ AlertTypes' /\ alerts' # <<>>
      /\ \A c, n : InAlert(c, n)' <=> InAlert(c, n) \/ Carries(x, c, n)
  BY <1>1, <1>4, <1>5, AlertPosted
<1>7. PICK k : /\ k \notin DOMAIN alerts /\ DOMAIN alerts' = DOMAIN alerts \cup {k} /\ alerts'[k] = x
               /\ \A i \in DOMAIN alerts : alerts'[i] = alerts[i]
  BY <1>1, <1>4, <1>5, AlertPosted
<1>8. /\ \A d \in Client : IsCall(call'[d]) /\ call'[d].id = call[d].id
      /\ CallTypes'
  <2>1. \A d \in Client : call'[d].id = call[d].id
    BY <1>1, <1>4 DEF CallTypes, IsCall
  <2>2. \A d \in Client : IsCall(call'[d])
    BY <1>1, <1>4 DEF CallTypes, IsCall
  <2>3. call' = [d \in Client |-> call'[d]]
    BY <1>4
  <2>. QED
    BY <1>1, <2>1, <2>2, <2>3 DEF CallTypes
<1>9. ASSUME NEW d \in Client, call'[d].id = 0 PROVE call'[d] = Idle
  <2>1. call[d] = Idle
    BY <1>8, <1>9 DEF AnswerInv
  <2>. QED
    BY <1>4, <2>1, IdleFields
<1>10. /\ AnswerTypes' /\ OneRecord'
       /\ \A d \in Client : \A n \in awaited'[d] : n <= calls'[d]
  BY <1>4 DEF AnswerInv, AnswerTypes, OneRecord
<1>11. \A d \in Client : \A n \in Nat \ {0} :
         InAdding(d, n) <=> InAdding(d, n)' \/ (a.client = d /\ a.id = n)
  BY <1>4 DEF InAdding
<1>12. ~InAdding(a.client, a.id)' \/ a.id = 0
  BY <1>4 DEF AnswerInv, OneRecord, InAdding
<1>13. a.id # 0 => ~InAlert(a.client, a.id)
  BY DEF AnswerInv, OnePlace
<1>14. Owed'
  <2> SUFFICES ASSUME NEW d \in Client, NEW n \in Nat
               PROVE  n \in awaited'[d] <=> n # 0 /\ (call'[d].id = n \/ InAdding(d, n)' \/ InAlert(d, n)')
    BY DEF Owed
  <2>1. n \in awaited[d] <=> n # 0 /\ (call[d].id = n \/ InAdding(d, n) \/ InAlert(d, n))
    BY DEF AnswerInv, Owed
  <2>. QED
    BY <1>4, <1>5, <1>6, <1>8, <1>11, <2>1
<1>15. OnePlace'
  <2>1. \A d \in Client : call'[d].id # 0 => ~InAdding(d, call[d].id)' /\ ~InAlert(d, call[d].id)'
    <3> SUFFICES ASSUME NEW d \in Client, call'[d].id # 0
                 PROVE  ~InAdding(d, call[d].id)' /\ ~InAlert(d, call[d].id)'
      OBVIOUS
    <3>1. PICK n : n = call[d].id
      OBVIOUS
    <3>2. n \in Nat \ {0} /\ ~InAdding(d, n) /\ ~InAlert(d, n) /\ call'[d].id = n
      BY <1>1, <1>8, <3>1 DEF AnswerInv, OnePlace, CallTypes
    <3>3. ~Carries(x, d, n)
      BY <1>5, <3>2 DEF InAdding
    <3>4. ~InAdding(d, n)' /\ ~InAlert(d, n)'
      BY <1>6, <1>11, <3>2, <3>3
    <3>. QED
      BY <3>2, <3>4
  <2>2. \A b \in adding' : b.id # 0 => ~InAlert(b.client, b.id)'
    <3> SUFFICES ASSUME NEW b \in adding', b.id # 0 PROVE ~InAlert(b.client, b.id)'
      OBVIOUS
    <3>1. b \in adding /\ b # a /\ ~(a.client = b.client /\ a.id = b.id)
      BY <1>4 DEF AnswerInv, OneRecord
    <3>2. ~InAlert(b.client, b.id)
      BY <3>1 DEF AnswerInv, OnePlace
    <3>. QED
      BY <1>5, <1>6, <3>1, <3>2
  <2>3. ASSUME NEW i \in DOMAIN alerts', NEW j \in DOMAIN alerts', NEW d \in Client, NEW n \in Nat \ {0},
               Carries(alerts'[i], d, n), Carries(alerts'[j], d, n)
        PROVE  i = j
    <3>1. CASE i = k /\ j # k
      <4>1. a.client = d /\ a.id = n /\ Carries(alerts[j], d, n) /\ j \in DOMAIN alerts
        BY <1>5, <1>7, <2>3, <3>1
      <4>. QED
        BY <1>13, <4>1 DEF InAlert
    <3>2. CASE i # k /\ j = k
      <4>1. a.client = d /\ a.id = n /\ Carries(alerts[i], d, n) /\ i \in DOMAIN alerts
        BY <1>5, <1>7, <2>3, <3>2
      <4>. QED
        BY <1>13, <4>1 DEF InAlert
    <3>3. CASE i # k /\ j # k
      <4>1. i \in DOMAIN alerts /\ j \in DOMAIN alerts /\ Carries(alerts[i], d, n) /\ Carries(alerts[j], d, n)
        BY <1>7, <2>3, <3>3
      <4>. QED
        BY <4>1 DEF AnswerInv, OnePlace
    <3>. QED
      BY <3>1, <3>2, <3>3
  <2>. QED
    BY <2>1, <2>2, <2>3 DEF OnePlace
<1>. QED
  BY <1>4, <1>6, <1>8, <1>9, <1>10, <1>14, <1>15 DEF AnswerInv

\* libtorrent is asked to add a torrent, with the number of the call to answer.
LEMMA CallAddTorrentStep ==
  ASSUME AnswerInv, NEW c \in Client, NEW t, NEW tag, CallAddTorrent(c, t, tag)
  PROVE  AnswerInv'
<1>1. CASE "add" \notin Allowed(RoleOf[c])
  <2>1. /\ Begin(c, "add-torrent", <<>>, <<>>) /\ call[c] = Idle
        /\ UNCHANGED adding /\ UNCHANGED <<alerts, told>>
    BY <1>1 DEF CallAddTorrent, Ready
  <2>. QED
    BY <2>1, BeginStep
<1>2. CASE "add" \in Allowed(RoleOf[c])
  <2> DEFINE k == calls[c] + 1
  <2>1. CallTypes /\ AlertTypes /\ AnswerTypes
    BY DEF AnswerInv
  <2>2. /\ k \in Nat /\ k # 0 /\ k \notin awaited[c] /\ call[c].id # k
        /\ ~InAdding(c, k) /\ ~InAlert(c, k)
    BY FreshCall
  <2>3. PICK a : a = [torrent |-> t, client |-> c, id |-> k, tag |-> tag]
    OBVIOUS
  <2>4. /\ adding' = adding \cup {a}
        /\ calls' = [calls EXCEPT ![c] = k] /\ awaited' = [awaited EXCEPT ![c] = @ \cup {k}]
        /\ UNCHANGED <<call, alerts, told>>
    BY <1>2, <2>3 DEF CallAddTorrent
  <2>5. a.client = c /\ a.id = k
    BY <2>3
  <2>6. CallTypes' /\ AlertTypes' /\ (told' => alerts' # <<>>) /\ \A d \in Client : call'[d].id = 0 => call'[d] = Idle
    BY <2>1, <2>4 DEF AnswerInv, CallTypes, AlertTypes
  <2>7. calls[c] \in Nat /\ awaited[c] \subseteq Nat
    BY <2>1 DEF AnswerTypes
  <2>8. AnswerTypes'
    BY <2>1, <2>2, <2>4, <2>5, <2>7 DEF AnswerTypes
  <2>9. \A d \in Client : \A n \in awaited'[d] : n <= calls'[d]
    BY <2>1, <2>4, <2>7 DEF AnswerInv, AnswerTypes
  <2>10. \A d, n : /\ InAdding(d, n)' <=> InAdding(d, n) \/ (d = c /\ n = k)
                   /\ InAlert(d, n)' <=> InAlert(d, n)
    BY <2>4, <2>5 DEF InAdding, InAlert
  <2>11. Owed'
    <3> SUFFICES ASSUME NEW d \in Client, NEW n \in Nat
                 PROVE  n \in awaited'[d] <=> n # 0 /\ (call'[d].id = n \/ InAdding(d, n)' \/ InAlert(d, n)')
      BY DEF Owed
    <3>1. n \in awaited[d] <=> n # 0 /\ (call[d].id = n \/ InAdding(d, n) \/ InAlert(d, n))
      BY DEF AnswerInv, Owed
    <3>2. n \in awaited'[d] <=> n \in awaited[d] \/ (d = c /\ n = k)
      BY <2>1, <2>4 DEF AnswerTypes
    <3>. QED
      BY <2>2, <2>4, <2>10, <3>1, <3>2
  <2>12. OnePlace'
    <3>1. \A d \in Client : call'[d].id # 0 => ~InAdding(d, call[d].id)' /\ ~InAlert(d, call[d].id)'
      BY <2>2, <2>4, <2>10 DEF AnswerInv, OnePlace
    <3>2. \A b \in adding' : b.id # 0 => ~InAlert(b.client, b.id)'
      BY <2>2, <2>4, <2>5, <2>10 DEF AnswerInv, OnePlace
    <3>3. \A i, j \in DOMAIN alerts' : \A d \in Client : \A n \in Nat \ {0} :
            Carries(alerts'[i], d, n) /\ Carries(alerts'[j], d, n) => i = j
      BY <2>4 DEF AnswerInv, OnePlace
    <3>. QED
      BY <3>1, <3>2, <3>3 DEF OnePlace
  <2>13. OneRecord'
    BY <2>2, <2>4, <2>5 DEF AnswerInv, OneRecord, InAdding
  <2>. QED
    BY <2>6, <2>8, <2>9, <2>11, <2>12, <2>13 DEF AnswerInv
<1>. QED
  BY <1>1, <1>2

\* The alert at the head is handled, and the call answered that it carries.
LEMMA WebuiToldStep ==
  ASSUME AnswerInv, WebuiTold
  PROVE  AnswerInv'
<1>1. CallTypes /\ AlertTypes /\ AnswerTypes /\ alerts # <<>>
  BY DEF AnswerInv, WebuiTold
<1>2. PICK S : alerts \in Seq(S)
  BY <1>1 DEF AlertTypes
<1>3. PICK a : a = Head(alerts)
  OBVIOUS
<1>4. /\ told' = FALSE /\ alerts' = Tail(alerts)
      /\ awaited' = IF Answers(a) THEN [awaited EXCEPT ![a.data.client] = @ \ {a.data.id}] ELSE awaited
      /\ UNCHANGED <<call, adding, calls>>
  BY <1>3 DEF WebuiTold
<1>5. /\ \E T : alerts' \in Seq(T)
      /\ a = alerts[1] /\ 1 \in DOMAIN alerts
      /\ \A i \in DOMAIN alerts' : i + 1 \in DOMAIN alerts /\ i \in Nat /\ i + 1 # 1 /\ alerts'[i] = alerts[i + 1]
      /\ \A i \in DOMAIN alerts : i # 1 => i - 1 \in DOMAIN alerts' /\ alerts'[i - 1] = alerts[i]
  <2>1. PICK s : s = Tail(alerts)
    OBVIOUS
  <2>2. /\ \E T : s \in Seq(T)
        /\ a = alerts[1] /\ 1 \in DOMAIN alerts
        /\ \A i \in DOMAIN s : i + 1 \in DOMAIN alerts /\ i \in Nat /\ i + 1 # 1 /\ s[i] = alerts[i + 1]
        /\ \A i \in DOMAIN alerts : i # 1 => i - 1 \in DOMAIN s /\ s[i - 1] = alerts[i]
    BY <1>1, <1>2, <1>3, <2>1, TailAny
  <2>. QED
    BY <1>4, <2>1, <2>2
<1>6. /\ Answers(a) => a.data.client \in Client /\ a.data.id \in Nat
      /\ \A c \in Client : \A n \in Nat \ {0} :
           Carries(a, c, n) <=> Answers(a) /\ a.data.client = c /\ a.data.id = n
  BY <1>1, <1>5 DEF AlertTypes, Answers, Carries
<1>7. AlertTypes' /\ CallTypes' /\ AnswerTypes'
  BY <1>1, <1>4, <1>5, <1>6 DEF AlertTypes, CallTypes, AnswerTypes
<1>8. \A c \in Client : \A n \in Nat : n \in awaited'[c] <=> n \in awaited[c] /\ ~(n # 0 /\ Carries(a, c, n))
  <2> SUFFICES ASSUME NEW c \in Client, NEW n \in Nat
               PROVE  n \in awaited'[c] <=> n \in awaited[c] /\ ~(n # 0 /\ Carries(a, c, n))
    OBVIOUS
  <2>1. n \in awaited[c] => n # 0
    BY DEF AnswerInv, Owed
  <2>2. n # 0 => (Carries(a, c, n) <=> Answers(a) /\ a.data.client = c /\ a.data.id = n)
    BY <1>6
  <2>3. n \in awaited'[c] <=> n \in awaited[c] /\ ~(Answers(a) /\ a.data.client = c /\ a.data.id = n)
    BY <1>1, <1>4, <1>6 DEF AnswerTypes
  <2>. QED
    BY <2>1, <2>2, <2>3
<1>9. \A c, n : InAlert(c, n) <=> InAlert(c, n)' \/ Carries(a, c, n)
  <2>1. ASSUME NEW c, NEW n, InAlert(c, n)' PROVE InAlert(c, n)
    BY <1>5, <2>1 DEF InAlert
  <2>2. ASSUME NEW c, NEW n, InAlert(c, n) PROVE InAlert(c, n)' \/ Carries(a, c, n)
    <3>1. PICK i \in DOMAIN alerts : Carries(alerts[i], c, n)
      BY <2>2 DEF InAlert
    <3>. QED
      BY <1>5, <3>1 DEF InAlert
  <2>3. ASSUME NEW c, NEW n, Carries(a, c, n) PROVE InAlert(c, n)
    BY <1>5, <2>3 DEF InAlert
  <2>. QED
    BY <2>1, <2>2, <2>3
<1>10. \A c \in Client : \A n \in Nat \ {0} : Carries(a, c, n) => ~InAlert(c, n)'
  <2> SUFFICES ASSUME NEW c \in Client, NEW n \in Nat \ {0}, Carries(a, c, n), NEW i \in DOMAIN alerts',
                      Carries(alerts'[i], c, n)
               PROVE  FALSE
    BY DEF InAlert
  <2>1. PICK j : j = i + 1
    OBVIOUS
  <2>2. j \in DOMAIN alerts /\ j # 1 /\ Carries(alerts[j], c, n) /\ Carries(alerts[1], c, n) /\ 1 \in DOMAIN alerts
    BY <1>5, <2>1
  <2>. QED
    BY <2>2 DEF AnswerInv, OnePlace
<1>11. \A c, n : InAdding(c, n)' <=> InAdding(c, n)
  BY <1>4 DEF InAdding
<1>12. \A c \in Client : \A n \in Nat \ {0} : Carries(a, c, n) => ~InAdding(c, n) /\ call[c].id # n
  <2> SUFFICES ASSUME NEW c \in Client, NEW n \in Nat \ {0}, Carries(a, c, n)
               PROVE  ~InAdding(c, n) /\ call[c].id # n
    OBVIOUS
  <2>1. InAlert(c, n)
    BY <1>9
  <2>. QED
    BY <2>1 DEF AnswerInv, OnePlace, InAdding
<1>13. Owed'
  <2> SUFFICES ASSUME NEW d \in Client, NEW n \in Nat
               PROVE  n \in awaited'[d] <=> n # 0 /\ (call'[d].id = n \/ InAdding(d, n)' \/ InAlert(d, n)')
    BY DEF Owed
  <2>1. n \in awaited[d] <=> n # 0 /\ (call[d].id = n \/ InAdding(d, n) \/ InAlert(d, n))
    BY DEF AnswerInv, Owed
  <2>. QED
    BY <1>4, <1>8, <1>9, <1>10, <1>11, <1>12, <2>1
<1>14. OnePlace'
  <2>1. \A d \in Client : call'[d].id # 0 => ~InAdding(d, call[d].id)' /\ ~InAlert(d, call[d].id)'
    BY <1>4, <1>9, <1>11 DEF AnswerInv, OnePlace
  <2>2. \A b \in adding' : b.id # 0 => ~InAlert(b.client, b.id)'
    BY <1>4, <1>9 DEF AnswerInv, OnePlace
  <2>3. ASSUME NEW i \in DOMAIN alerts', NEW j \in DOMAIN alerts', NEW d \in Client, NEW n \in Nat \ {0},
               Carries(alerts'[i], d, n), Carries(alerts'[j], d, n)
        PROVE  i = j
    <3>1. PICK k, l : k = i + 1 /\ l = j + 1
      OBVIOUS
    <3>2. k \in DOMAIN alerts /\ l \in DOMAIN alerts /\ Carries(alerts[k], d, n) /\ Carries(alerts[l], d, n)
          /\ i \in Nat /\ j \in Nat
      BY <1>5, <2>3, <3>1
    <3>3. k = l
      BY <3>2 DEF AnswerInv, OnePlace
    <3>. QED
      BY <3>1, <3>2, <3>3
  <2>. QED
    BY <2>1, <2>2, <2>3 DEF OnePlace
<1>15. /\ OneRecord' /\ \A d \in Client : call'[d].id = 0 => call'[d] = Idle
       /\ \A d \in Client : \A n \in awaited'[d] : n <= calls'[d]
  BY <1>1, <1>4, <1>7, <1>8 DEF AnswerInv, OneRecord, AnswerTypes
<1>. QED
  BY <1>4, <1>7, <1>13, <1>14, <1>15 DEF AnswerInv

\* Every step of a call.
LEMMA CallStep ==
  ASSUME AnswerInv, NEW c \in Client,
         \/ \E name \in Function, list \in List : CallList(c, name, list)
         \/ \E t \in Torrent, prio \in {0, 1} : CallSetFilePriority(c, t, prio)
         \/ \E action \in Action, list \in List : CallGui(c, action, list)
         \/ \E list \in List, prio \in {0, 1} : CallGuiSetPriority(c, list, prio)
         \/ \E t \in Torrent : CallGuiAddUrl(c, t)
         \/ \E t \in Torrent, tag \in {"none", "tag"} : CallAddTorrent(c, t, tag)
         \/ Apply(c) \/ Respond(c)
  PROVE  AnswerInv'
<1>1. ASSUME NEW name, NEW list, CallList(c, name, list) PROVE AnswerInv'
  <2>1. PICK todo : Begin(c, name, list, todo)
    BY <1>1 DEF CallList
  <2>2. call[c] = Idle /\ UNCHANGED adding /\ UNCHANGED <<alerts, told>>
    BY <1>1 DEF CallList, Ready
  <2>. QED
    BY <2>1, <2>2, BeginStep
<1>2. ASSUME NEW t, NEW prio, CallSetFilePriority(c, t, prio) PROVE AnswerInv'
  <2>1. PICK todo : Begin(c, "set-file-priority", <<>>, todo)
    BY <1>2 DEF CallSetFilePriority
  <2>2. call[c] = Idle /\ UNCHANGED adding /\ UNCHANGED <<alerts, told>>
    BY <1>2 DEF CallSetFilePriority, Ready
  <2>. QED
    BY <2>1, <2>2, BeginStep
<1>3. ASSUME NEW action, NEW list, CallGui(c, action, list) PROVE AnswerInv'
  <2>1. PICK todo : Begin(c, "gui", list, todo)
    BY <1>3 DEF CallGui
  <2>2. call[c] = Idle /\ UNCHANGED adding /\ UNCHANGED <<alerts, told>>
    BY <1>3 DEF CallGui, Ready
  <2>. QED
    BY <2>1, <2>2, BeginStep
<1>4. ASSUME NEW list, NEW prio, CallGuiSetPriority(c, list, prio) PROVE AnswerInv'
  <2>1. PICK todo : Begin(c, "gui", list, todo)
    BY <1>4 DEF CallGuiSetPriority
  <2>2. call[c] = Idle /\ UNCHANGED adding /\ UNCHANGED <<alerts, told>>
    BY <1>4 DEF CallGuiSetPriority, Ready
  <2>. QED
    BY <2>1, <2>2, BeginStep
<1>5. ASSUME NEW t, CallGuiAddUrl(c, t) PROVE AnswerInv'
  <2>1. PICK a : a = NoAnswer(t, c)
    OBVIOUS
  <2>2. a.client = c /\ a.id = 0
    BY <2>1 DEF NoAnswer
  <2>3. /\ Begin(c, "gui", <<>>, <<>>) /\ call[c] = Idle
        /\ adding' = adding \/ adding' = adding \cup {a}
        /\ UNCHANGED <<alerts, told>>
    BY <1>5, <2>1 DEF CallGuiAddUrl, Ready
  <2>. QED
    BY <2>2, <2>3, BeginStep
<1>6. ASSUME NEW t, NEW tag, CallAddTorrent(c, t, tag) PROVE AnswerInv'
  BY <1>6, CallAddTorrentStep
<1>. QED
  BY <1>1, <1>2, <1>3, <1>4, <1>5, <1>6, ApplyStep, RespondStep

\* The records of the calls, the torrents asked for and the alerts account for every
\* call that is not answered yet.
THEOREM AnswersOwed == Spec => []AnswerInv
<1>1. Init => AnswerInv
  <2> SUFFICES ASSUME TorrentCallsInit PROVE AnswerInv
    BY DEF Init
  <2>1. /\ call = [c \in Client |-> Idle] /\ adding = {} /\ alerts = <<>> /\ told = FALSE
        /\ calls = [c \in Client |-> 0] /\ awaited = [c \in Client |-> {}]
    BY DEF TorrentCallsInit
  <2>2. Idle.id = 0 /\ IsCall(Idle)
    BY DEF Idle, IsCall
  <2>3. CallTypes /\ \A c \in Client : call[c] = Idle
    BY <2>1, <2>2 DEF CallTypes
  <2>4. alerts \in Seq({}) /\ DOMAIN alerts = {}
    BY <2>1
  <2>5. AlertTypes /\ AnswerTypes
    BY <2>1, <2>4 DEF AlertTypes, AnswerTypes
  <2>6. Owed /\ OnePlace /\ OneRecord
    BY <2>1, <2>2, <2>3, <2>4 DEF Owed, OnePlace, OneRecord, InAdding, InAlert
  <2>. QED
    BY <2>1, <2>3, <2>5, <2>6 DEF AnswerInv
<1>2. AnswerInv /\ [Next]_servicesVars => AnswerInv'
  <2> SUFFICES ASSUME AnswerInv, [Next]_servicesVars PROVE AnswerInv'
    OBVIOUS
  <2>1. CASE UNCHANGED torrentCallVars
    BY <2>1, AnswerSame DEF torrentCallVars
  <2>2. CASE TorrentCallsNext
    <3>1. ASSUME NEW t, Happens(t) PROVE AnswerInv'
      BY <3>1, AnswerSame DEF Happens
    <3>2. CASE StateUpdate
      BY <3>2, AnswerSame DEF StateUpdate
    <3>3. CASE HistoryTold
      <4>1. UNCHANGED <<call, adding, alerts, calls, awaited>> /\ alerts # <<>>
        BY <3>3 DEF HistoryTold
      <4>. QED
        BY <4>1, AnswerSame
    <3>. QED
      BY <2>2, <3>1, <3>2, <3>3, CallStep, AddsStep, WebuiToldStep DEF TorrentCallsNext
  <2>. QED
    BY <2>1, <2>2 DEF Next, servicesVars, OfAutoLoad, OfFileRequests
<1>. QED
  BY <1>1, <1>2, PTL DEF Spec, Safety

\* Each call has one response: what a connection waits for is the call it is in, the
\* torrents libtorrent was asked to add for it, and the alerts that have to be handled.
THEOREM EveryCallAnswered == Spec => []Answered
<1>1. AnswerInv => Answered
  <2> SUFFICES ASSUME AnswerInv, NEW c \in Client
               PROVE  /\ awaited[c] = ({call[c].id} \ {0}) \cup {a.id : a \in {x \in adding : x.client = c /\ x.id # 0}}
                        \cup {alerts[i].data.id : i \in {i \in DOMAIN alerts :
                               alerts[i].type = "added" /\ alerts[i].data.id # 0 /\ alerts[i].data.client = c}}
                      /\ \A i \in {i \in DOMAIN alerts :
                               alerts[i].type = "added" /\ alerts[i].data.id # 0 /\ alerts[i].data.client = c} :
                           alerts[i].data.id # call[c].id
    BY DEF Answered
  <2> DEFINE alerted == {i \in DOMAIN alerts :
                           alerts[i].type = "added" /\ alerts[i].data.id # 0 /\ alerts[i].data.client = c}
             toAdd == {a.id : a \in {x \in adding : x.client = c /\ x.id # 0}}
  <2>1. CallTypes /\ AlertTypes /\ AnswerTypes
    BY DEF AnswerInv
  <2>2. awaited[c] \subseteq Nat /\ call[c].id \in Nat /\ toAdd \subseteq Nat /\ \A i \in alerted : alerts[i].data.id \in Nat
    BY <2>1 DEF CallTypes, AlertTypes, AnswerTypes
  <2>3. \A n \in Nat : n \in toAdd <=> n # 0 /\ InAdding(c, n)
    BY DEF InAdding
  <2>4. \A n \in Nat : n \in {alerts[i].data.id : i \in alerted} <=> n # 0 /\ InAlert(c, n)
    BY DEF InAlert, Carries
  <2>5. \A n \in Nat : n \in awaited[c] <=> n # 0 /\ (call[c].id = n \/ InAdding(c, n) \/ InAlert(c, n))
    BY DEF AnswerInv, Owed
  <2>6. awaited[c] = ({call[c].id} \ {0}) \cup toAdd \cup {alerts[i].data.id : i \in alerted}
    <3>1. ASSUME NEW n \in awaited[c]
          PROVE  n \in ({call[c].id} \ {0}) \cup toAdd \cup {alerts[i].data.id : i \in alerted}
      BY <2>2, <2>3, <2>4, <2>5
    <3>2. ASSUME NEW n \in ({call[c].id} \ {0}) \cup toAdd \cup {alerts[i].data.id : i \in alerted}
          PROVE  n \in awaited[c]
      <4>1. n \in Nat
        BY <2>2
      <4>. QED
        BY <2>3, <2>4, <2>5, <4>1
    <3>. QED
      BY <3>1, <3>2
  <2>7. ASSUME NEW i \in alerted PROVE alerts[i].data.id # call[c].id
    <3>1. Carries(alerts[i], c, alerts[i].data.id) /\ alerts[i].data.id # 0
      BY DEF Carries
    <3>. QED
      BY <3>1 DEF AnswerInv, OnePlace, InAlert
  <2>. QED
    BY <2>6, <2>7
<1>. QED
  BY <1>1, AnswersOwed, PTL

-----------------------------------------------------------------------------
(* Queues                                                                  *)

\* A queue has each torrent once.
Queue(q) == q \in Seq(Torrent) /\ IsInjective(q)

\* The place of a torrent is the one it is at.
LEMMA Places ==
  ASSUME NEW q, Queue(q), NEW t \in Torrents(q)
  PROVE  /\ Place(q, t) \in 1 .. Len(q) /\ q[Place(q, t)] = t
         /\ \A i \in 1 .. Len(q) : q[i] = t => i = Place(q, t)
<1>1. DOMAIN q = 1 .. Len(q) /\ \A i, j \in 1 .. Len(q) : q[i] = q[j] => i = j
  BY DEF Queue, IsInjective
<1>2. \E i \in 1 .. Len(q) : q[i] = t
  BY <1>1 DEF Torrents
<1>3. Place(q, t) \in 1 .. Len(q) /\ q[Place(q, t)] = t
  BY <1>1, <1>2 DEF Place
<1>. QED
  BY <1>1, <1>3

\* The i-th torrent of a queue is at place i.
LEMMA PlaceOfNth ==
  ASSUME NEW q, Queue(q), NEW i \in 1 .. Len(q)
  PROVE  q[i] \in Torrents(q) /\ q[i] \in Torrent /\ Place(q, q[i]) = i
<1>1. DOMAIN q = 1 .. Len(q) /\ q \in Seq(Torrent)
  BY DEF Queue
<1>2. q[i] \in Torrents(q) /\ q[i] \in Torrent
  BY <1>1 DEF Torrents
<1>. QED
  BY <1>2, Places

\* Where Moved() puts the torrents.
LEMMA MovedPlaces ==
  ASSUME NEW q, Queue(q), NEW i \in 1 .. Len(q), NEW j \in 1 .. Len(q)
  PROVE  /\ Queue(Moved(q, i, j)) /\ Len(Moved(q, i, j)) = Len(q)
         /\ Torrents(Moved(q, i, j)) = Torrents(q)
         /\ Place(Moved(q, i, j), q[i]) = j
         /\ \A k \in 1 .. Len(q) : k # i =>
              Place(Moved(q, i, j), q[k]) =
                IF i < k /\ k <= j THEN k - 1 ELSE IF j <= k /\ k < i THEN k + 1 ELSE k
<1>. DEFINE n == Len(q)
            To(k) == IF k = i THEN j ELSE IF i < k /\ k <= j THEN k - 1 ELSE IF j <= k /\ k < i THEN k + 1 ELSE k
            From(k) == IF k = j THEN i ELSE IF i <= k /\ k < j THEN k + 1 ELSE IF j < k /\ k <= i THEN k - 1 ELSE k
<1>1. /\ q \in Seq(Torrent) /\ n \in Nat /\ DOMAIN q = 1 .. n
      /\ \A k, l \in 1 .. n : q[k] = q[l] => k = l
  BY DEF Queue, IsInjective
<1>2. PICK r : r = Moved(q, i, j)
  OBVIOUS
<1>3. \A k \in 1 .. n : From(k) \in 1 .. n /\ To(k) \in 1 .. n /\ From(To(k)) = k /\ To(From(k)) = k
  BY <1>1
<1>4. r = [k \in 1 .. n |-> q[From(k)]]
  <2>1. \A k \in 1 .. n : r[k] = q[From(k)]
    BY <1>1, <1>2 DEF Moved
  <2>2. r = [k \in 1 .. n |-> r[k]]
    BY <1>1, <1>2 DEF Moved
  <2>. QED
    BY <2>1, <2>2
<1>. HIDE DEF From, To
<1>5. r \in Seq(Torrent) /\ DOMAIN r = 1 .. n /\ Len(r) = n
  BY <1>1, <1>3, <1>4
<1>6. \A k, l \in 1 .. n : r[k] = r[l] => k = l
  BY <1>1, <1>3, <1>4
<1>7. Queue(r)
  BY <1>5, <1>6 DEF Queue, IsInjective
<1>8. Torrents(r) = Torrents(q)
  <2>1. \A k \in 1 .. n : r[k] = q[From(k)] /\ q[k] = r[To(k)]
    BY <1>3, <1>4
  <2>2. \A t \in Torrents(r) : t \in Torrents(q)
    BY <1>1, <1>3, <1>5, <2>1 DEF Torrents
  <2>3. \A t \in Torrents(q) : t \in Torrents(r)
    BY <1>1, <1>3, <1>5, <2>1 DEF Torrents
  <2>. QED
    BY <2>2, <2>3
<1>9. \A k \in 1 .. n : Place(r, q[k]) = To(k)
  <2>. SUFFICES ASSUME NEW k \in 1 .. n PROVE Place(r, q[k]) = To(k)
    OBVIOUS
  <2>1. q[k] \in Torrents(r) /\ r[To(k)] = q[k]
    BY <1>1, <1>3, <1>4, <1>8 DEF Torrents
  <2>. QED
    BY <1>3, <1>5, <1>7, <2>1, Places
<1>. QED
  BY <1>2, <1>5, <1>7, <1>8, <1>9 DEF To

\* Who comes first in the queue when one torrent moves.
LEMMA MovedPrecedes ==
  ASSUME NEW q, Queue(q), NEW h \in Torrents(q), NEW j \in 1 .. Len(q)
  PROVE  /\ \A s, t \in Torrents(q) \ {h} : Precedes(Moved(q, Place(q, h), j), s, t) <=> Precedes(q, s, t)
         /\ \A t \in Torrents(q) \ {h} :
              /\ Precedes(Moved(q, Place(q, h), j), h, t) <=>
                   (IF Place(q, t) < Place(q, h) THEN j <= Place(q, t) ELSE j < Place(q, t))
              /\ Precedes(Moved(q, Place(q, h), j), t, h) <=> ~Precedes(Moved(q, Place(q, h), j), h, t)
<1>1. PICK i : i = Place(q, h)
  OBVIOUS
<1>2. i \in 1 .. Len(q) /\ q[i] = h /\ Len(q) \in Nat
  BY <1>1, Places DEF Queue
<1>3. PICK r : r = Moved(q, i, j)
  OBVIOUS
<1>4. /\ Place(r, h) = j
      /\ \A k \in 1 .. Len(q) : k # i =>
           Place(r, q[k]) = IF i < k /\ k <= j THEN k - 1 ELSE IF j <= k /\ k < i THEN k + 1 ELSE k
  BY <1>2, <1>3, MovedPlaces
<1>5. ASSUME NEW t \in Torrents(q) \ {h}
      PROVE  /\ Place(q, t) \in 1 .. Len(q) /\ Place(q, t) # i
             /\ Place(r, t) = IF i < Place(q, t) /\ Place(q, t) <= j THEN Place(q, t) - 1
                              ELSE IF j <= Place(q, t) /\ Place(q, t) < i THEN Place(q, t) + 1 ELSE Place(q, t)
  <2>1. Place(q, t) \in 1 .. Len(q) /\ q[Place(q, t)] = t
    BY Places
  <2>2. Place(q, t) # i
    BY <1>2, <2>1
  <2>. QED
    BY <1>4, <2>1, <2>2
<1>6. ASSUME NEW s \in Torrents(q) \ {h}, NEW t \in Torrents(q) \ {h} PROVE Place(r, s) < Place(r, t) <=> Place(q, s) < Place(q, t)
  <2>1. CASE s = t
    BY <1>2, <1>5, <2>1
  <2>2. CASE s # t
    <3>1. Place(q, s) # Place(q, t)
      BY <2>2, Places
    <3>. QED
      BY <1>2, <1>5, <3>1
  <2>. QED
    BY <2>1, <2>2
<1>7. ASSUME NEW t \in Torrents(q) \ {h}
      PROVE  /\ Place(r, h) < Place(r, t) <=> (IF Place(q, t) < i THEN j <= Place(q, t) ELSE j < Place(q, t))
             /\ Place(r, t) < Place(r, h) <=> ~(Place(r, h) < Place(r, t))
  BY <1>2, <1>4, <1>5
<1>. QED
  BY <1>1, <1>3, <1>6, <1>7 DEF Precedes

-----------------------------------------------------------------------------
(* One step of a list that is moved.                                       *)

\* The torrents of a set come first, and otherwise they are in order.
Ranked(q, before, first) ==
  \A s, t \in Torrents(before) :
    Precedes(q, s, t) <=>
      \/ s \in first /\ t \notin first
      \/ (s \in first <=> t \in first) /\ Precedes(before, s, t)

\* A torrent sent to the top joins those in front, before which it was.
LEMMA TopStep ==
  ASSUME NEW q, NEW b, Queue(q), Queue(b), Torrents(q) = Torrents(b), NEW h \in Torrents(q), NEW first,
         Ranked(q, b, first), h \notin first, \A d \in first : Precedes(b, h, d)
  PROVE  Ranked(Queued(q, "queue-top", h), b, first \cup {h})
<1>1. PICK r : r = Moved(q, Place(q, h), 1)
  OBVIOUS
<1>2. Place(q, h) \in 1 .. Len(q) /\ Len(q) \in Nat /\ \A t \in Torrents(q) : Place(q, t) \in 1 .. Len(q)
  BY Places DEF Queue
<1>3. 1 \in 1 .. Len(q)
  BY <1>2
<1>4. /\ \A s, t \in Torrents(q) \ {h} : Precedes(r, s, t) <=> Precedes(q, s, t)
      /\ \A t \in Torrents(q) \ {h} : Precedes(r, h, t) /\ ~Precedes(r, t, h)
  <2>1. \A t \in Torrents(q) \ {h} : Place(q, t) # Place(q, h)
    BY Places
  <2>2. /\ \A s, t \in Torrents(q) \ {h} : Precedes(r, s, t) <=> Precedes(q, s, t)
        /\ \A t \in Torrents(q) \ {h} :
             /\ Precedes(r, h, t) <=> (IF Place(q, t) < Place(q, h) THEN 1 <= Place(q, t) ELSE 1 < Place(q, t))
             /\ Precedes(r, t, h) <=> ~Precedes(r, h, t)
    BY <1>1, <1>3, MovedPrecedes
  <2>. QED
    BY <1>2, <2>1, <2>2
<1>5. ~Precedes(r, h, h) /\ ~Precedes(b, h, h) /\ \A d \in first : d \in Torrents(b) => ~Precedes(b, d, h)
  <2>1. Place(r, h) \in Nat
    <3>1. Queue(r) /\ Torrents(r) = Torrents(q) /\ Len(r) \in Nat
      BY <1>1, <1>2, <1>3, MovedPlaces DEF Queue
    <3>. QED
      BY <3>1, Places
  <2>2. \A t \in Torrents(b) : Place(b, t) \in Nat
    BY Places DEF Queue
  <2>. QED
    BY <2>1, <2>2 DEF Precedes
<1>6. ASSUME NEW s \in Torrents(b), NEW t \in Torrents(b)
      PROVE  Precedes(r, s, t) <=>
               \/ s \in first \cup {h} /\ t \notin first \cup {h}
               \/ (s \in first \cup {h} <=> t \in first \cup {h}) /\ Precedes(b, s, t)
  <2>1. CASE s # h /\ t # h
    BY <1>4, <2>1 DEF Ranked
  <2>2. CASE s = h /\ t # h
    BY <1>4, <2>2
  <2>3. CASE s # h /\ t = h
    BY <1>4, <1>5, <2>3
  <2>4. CASE s = h /\ t = h
    BY <1>5, <2>4
  <2>. QED
    BY <2>1, <2>2, <2>3, <2>4
<1>7. Queued(q, "queue-top", h) = r
  BY <1>1 DEF Queued
<1>. QED
  BY <1>6, <1>7 DEF Ranked

\* A torrent sent to the bottom joins those behind, after which it was.
LEMMA BottomStep ==
  ASSUME NEW q, NEW b, Queue(q), Queue(b), Torrents(q) = Torrents(b), NEW h \in Torrents(q), NEW first,
         Ranked(q, b, first), h \in first, \A d \in Torrents(b) \ first : Precedes(b, d, h)
  PROVE  Ranked(Queued(q, "queue-bottom", h), b, first \ {h})
<1>1. PICK r : r = Moved(q, Place(q, h), Len(q))
  OBVIOUS
<1>2. Place(q, h) \in 1 .. Len(q) /\ Len(q) \in Nat /\ \A t \in Torrents(q) : Place(q, t) \in 1 .. Len(q)
  BY Places DEF Queue
<1>3. Len(q) \in 1 .. Len(q)
  BY <1>2
<1>4. /\ \A s, t \in Torrents(q) \ {h} : Precedes(r, s, t) <=> Precedes(q, s, t)
      /\ \A t \in Torrents(q) \ {h} : ~Precedes(r, h, t) /\ Precedes(r, t, h)
  <2>2. /\ \A s, t \in Torrents(q) \ {h} : Precedes(r, s, t) <=> Precedes(q, s, t)
        /\ \A t \in Torrents(q) \ {h} :
             /\ Precedes(r, h, t) <=> (IF Place(q, t) < Place(q, h) THEN Len(q) <= Place(q, t) ELSE Len(q) < Place(q, t))
             /\ Precedes(r, t, h) <=> ~Precedes(r, h, t)
    BY <1>1, <1>3, MovedPrecedes
  <2>. QED
    BY <1>2, <2>2
<1>5. ~Precedes(r, h, h) /\ ~Precedes(b, h, h) /\ \A d \in Torrents(b) \ first : ~Precedes(b, h, d)
  <2>1. Place(r, h) \in Nat
    <3>1. Queue(r) /\ Torrents(r) = Torrents(q) /\ Len(r) \in Nat
      BY <1>1, <1>2, <1>3, MovedPlaces DEF Queue
    <3>. QED
      BY <3>1, Places
  <2>2. \A t \in Torrents(b) : Place(b, t) \in Nat
    BY Places DEF Queue
  <2>. QED
    BY <2>1, <2>2 DEF Precedes
<1>6. ASSUME NEW s \in Torrents(b), NEW t \in Torrents(b)
      PROVE  Precedes(r, s, t) <=>
               \/ s \in first \ {h} /\ t \notin first \ {h}
               \/ (s \in first \ {h} <=> t \in first \ {h}) /\ Precedes(b, s, t)
  <2>1. CASE s # h /\ t # h
    BY <1>4, <2>1 DEF Ranked
  <2>2. CASE s = h /\ t # h
    BY <1>4, <1>5, <2>2
  <2>3. CASE s # h /\ t = h
    BY <1>4, <2>3
  <2>4. CASE s = h /\ t = h
    BY <1>5, <2>4
  <2>. QED
    BY <2>1, <2>2, <2>3, <2>4
<1>7. Queued(q, "queue-bottom", h) = r
  BY <1>1 DEF Queued
<1>. QED
  BY <1>6, <1>7 DEF Ranked

\* A torrent takes the place of its neighbour: nobody else notices.
LEMMA UpStep ==
  ASSUME NEW q, NEW b, Queue(q), Torrents(q) = Torrents(b), NEW list, InOrderAs(q, b, list),
         NEW i \in 1 .. Len(q), i # 1, q[i] \in list, q[i - 1] \notin list
  PROVE  /\ InOrderAs(Queued(q, "queue-up", q[i]), b, list)
         /\ Queued(q, "queue-up", q[i]) = [k \in DOMAIN q |-> IF k = i - 1 THEN q[i] ELSE IF k = i THEN q[i - 1] ELSE q[k]]
<1>1. PICK h : h = q[i]
  OBVIOUS
<1>2. PICK r : r = Moved(q, i, i - 1)
  OBVIOUS
<1>3. /\ h \in Torrents(q) /\ Place(q, h) = i /\ Len(q) \in Nat /\ i - 1 \in 1 .. Len(q) /\ DOMAIN q = 1 .. Len(q)
      /\ q[i - 1] \in Torrents(q) /\ Place(q, q[i - 1]) = i - 1
  BY <1>1, PlaceOfNth DEF Queue
<1>4. Queued(q, "queue-up", h) = r
  BY <1>2, <1>3 DEF Queued
<1>5. \A t \in Torrents(q) : Place(q, t) \in 1 .. Len(q)
  BY Places
<1>6. /\ \A s, t \in Torrents(q) \ {h} : Precedes(r, s, t) <=> Precedes(q, s, t)
      /\ \A t \in Torrents(q) \ {h} :
           /\ Precedes(r, h, t) <=> (IF Place(q, t) < i THEN i - 1 <= Place(q, t) ELSE i - 1 < Place(q, t))
           /\ Precedes(r, t, h) <=> ~Precedes(r, h, t)
  BY <1>2, <1>3, MovedPrecedes
<1>7. ASSUME NEW t \in Torrents(q) \ {h}, t # q[i - 1]
      PROVE  (Precedes(r, h, t) <=> Precedes(q, h, t)) /\ (Precedes(r, t, h) <=> Precedes(q, t, h))
  <2>1. Place(q, t) # i /\ Place(q, t) # i - 1
    BY <1>1, <1>7, Places
  <2>. QED
    BY <1>3, <1>5, <1>6, <2>1 DEF Precedes
<1>8. ~Precedes(r, h, h) /\ ~Precedes(q, h, h)
  <2>1. Queue(r) /\ Torrents(r) = Torrents(q) /\ Len(r) \in Nat
    BY <1>2, <1>3, MovedPlaces DEF Queue
  <2>2. Place(r, h) \in Nat /\ Place(q, h) \in Nat
    BY <1>3, <2>1, Places
  <2>. QED
    BY <2>2 DEF Precedes
<1>9. ASSUME NEW s \in Torrents(b), NEW t \in Torrents(b), s \in list <=> t \in list
      PROVE  Precedes(r, s, t) <=> Precedes(b, s, t)
  <2>1. Precedes(q, s, t) <=> Precedes(b, s, t)
    BY <1>9 DEF InOrderAs
  <2>2. Precedes(r, s, t) <=> Precedes(q, s, t)
    <3>1. CASE s # h /\ t # h
      BY <1>6, <3>1
    <3>2. CASE s = h /\ t # h
      BY <1>1, <1>7, <1>9, <3>2
    <3>3. CASE s # h /\ t = h
      BY <1>1, <1>7, <1>9, <3>3
    <3>4. CASE s = h /\ t = h
      BY <1>8, <3>4
    <3>. QED
      BY <3>1, <3>2, <3>3, <3>4
  <2>. QED
    BY <2>1, <2>2
<1>10. r = [k \in DOMAIN q |-> IF k = i - 1 THEN q[i] ELSE IF k = i THEN q[i - 1] ELSE q[k]]
  <2>1. \A k \in DOMAIN q : r[k] = IF k = i - 1 THEN q[i] ELSE IF k = i THEN q[i - 1] ELSE q[k]
    BY <1>2, <1>3 DEF Moved
  <2>2. r = [k \in DOMAIN q |-> r[k]]
    BY <1>2 DEF Moved
  <2>. QED
    BY <2>1, <2>2
<1>. QED
  BY <1>1, <1>4, <1>9, <1>10 DEF InOrderAs

\* A torrent of the list that has one outside the list behind it changes places with it.
LEMMA DownStep ==
  ASSUME NEW q, NEW b, Queue(q), Torrents(q) = Torrents(b), NEW list, InOrderAs(q, b, list),
         NEW i \in 1 .. Len(q), i < Len(q), q[i] \in list, q[i + 1] \notin list
  PROVE  /\ InOrderAs(Queued(q, "queue-down", q[i]), b, list)
         /\ Queued(q, "queue-down", q[i]) = [k \in DOMAIN q |-> IF k = i + 1 THEN q[i] ELSE IF k = i THEN q[i + 1] ELSE q[k]]
<1>1. PICK h : h = q[i]
  OBVIOUS
<1>2. PICK r : r = Moved(q, i, i + 1)
  OBVIOUS
<1>3. /\ h \in Torrents(q) /\ Place(q, h) = i /\ Len(q) \in Nat /\ i + 1 \in 1 .. Len(q) /\ DOMAIN q = 1 .. Len(q)
      /\ q[i + 1] \in Torrents(q) /\ Place(q, q[i + 1]) = i + 1
  <2>1. Len(q) \in Nat /\ DOMAIN q = 1 .. Len(q)
    BY DEF Queue
  <2>2. i + 1 \in 1 .. Len(q)
    BY <2>1
  <2>. QED
    BY <1>1, <2>1, <2>2, PlaceOfNth
<1>4. Queued(q, "queue-down", h) = r
  BY <1>2, <1>3 DEF Queued
<1>5. \A t \in Torrents(q) : Place(q, t) \in 1 .. Len(q)
  BY Places
<1>6. /\ \A s, t \in Torrents(q) \ {h} : Precedes(r, s, t) <=> Precedes(q, s, t)
      /\ \A t \in Torrents(q) \ {h} :
           /\ Precedes(r, h, t) <=> (IF Place(q, t) < i THEN i + 1 <= Place(q, t) ELSE i + 1 < Place(q, t))
           /\ Precedes(r, t, h) <=> ~Precedes(r, h, t)
  BY <1>2, <1>3, MovedPrecedes
<1>7. ASSUME NEW t \in Torrents(q) \ {h}, t # q[i + 1]
      PROVE  (Precedes(r, h, t) <=> Precedes(q, h, t)) /\ (Precedes(r, t, h) <=> Precedes(q, t, h))
  <2>1. Place(q, t) # i /\ Place(q, t) # i + 1
    BY <1>1, <1>7, Places
  <2>2. PICK k \in Int : k = Place(q, t)
    BY <1>5
  <2>3. Precedes(q, h, t) <=> i < k
    BY <1>3, <2>2 DEF Precedes
  <2>4. Precedes(q, t, h) <=> k < i
    BY <1>3, <2>2 DEF Precedes
  <2>5. Precedes(r, h, t) <=> (IF k < i THEN i + 1 <= k ELSE i + 1 < k)
    BY <1>6, <2>2
  <2>6. i \in Int /\ k # i /\ k # i + 1
    BY <2>1, <2>2
  <2>7. (Precedes(r, h, t) <=> i < k) /\ (Precedes(r, t, h) <=> ~(i < k))
    BY <1>6, <2>2, <2>5, <2>6
  <2>8. ~(i < k) <=> k < i
    BY <2>2, <2>6
  <2>. QED
    BY <2>3, <2>4, <2>7, <2>8
<1>8. ~Precedes(r, h, h) /\ ~Precedes(q, h, h)
  <2>1. Queue(r) /\ Torrents(r) = Torrents(q)
    BY <1>2, <1>3, MovedPlaces
  <2>2. Place(r, h) \in Int /\ Place(q, h) \in Int
    BY <1>3, <2>1, Places
  <2>. QED
    BY <2>2 DEF Precedes
<1>9. ASSUME NEW s \in Torrents(b), NEW t \in Torrents(b), s \in list <=> t \in list
      PROVE  Precedes(r, s, t) <=> Precedes(b, s, t)
  <2>1. Precedes(q, s, t) <=> Precedes(b, s, t)
    BY <1>9 DEF InOrderAs
  <2>2. Precedes(r, s, t) <=> Precedes(q, s, t)
    <3>1. CASE s # h /\ t # h
      BY <1>6, <3>1
    <3>2. CASE s = h /\ t # h
      BY <1>1, <1>7, <1>9, <3>2
    <3>3. CASE s # h /\ t = h
      BY <1>1, <1>7, <1>9, <3>3
    <3>4. CASE s = h /\ t = h
      BY <1>8, <3>4
    <3>. QED
      BY <3>1, <3>2, <3>3, <3>4
  <2>. QED
    BY <2>1, <2>2
<1>10. r = [k \in DOMAIN q |-> IF k = i + 1 THEN q[i] ELSE IF k = i THEN q[i + 1] ELSE q[k]]
  <2>1. \A k \in DOMAIN q : r[k] = IF k = i + 1 THEN q[i] ELSE IF k = i THEN q[i + 1] ELSE q[k]
    <3>. SUFFICES ASSUME NEW k \in DOMAIN q PROVE r[k] = IF k = i + 1 THEN q[i] ELSE IF k = i THEN q[i + 1] ELSE q[k]
      OBVIOUS
    <3>1. r[k] = IF k = i + 1 THEN q[i]
                 ELSE IF i <= k /\ k < i + 1 THEN q[k + 1]
                 ELSE IF i + 1 < k /\ k <= i THEN q[k - 1] ELSE q[k]
      BY <1>2 DEF Moved
    <3>2. k \in Int /\ i \in Int
      BY <1>3
    <3>3. (i <= k /\ k < i + 1 <=> k = i) /\ ~(i + 1 < k /\ k <= i)
      BY <3>2
    <3>. QED
      BY <3>1, <3>3
  <2>2. r = [k \in DOMAIN q |-> r[k]]
    BY <1>2 DEF Moved
  <2>. QED
    BY <2>1, <2>2
<1>. QED
  BY <1>1, <1>4, <1>9, <1>10 DEF InOrderAs

-----------------------------------------------------------------------------
(* The list in order.                                                      *)

\* Rising() sorts torrents whose positions differ, and loses none.
LEMMA RisingSorts ==
  ASSUME NEW s \in Seq(Torrent), \A i \in DOMAIN s : position[s[i]] \in Nat,
         \A i, j \in DOMAIN s : position[s[i]] = position[s[j]] => i = j
  PROVE  /\ Rising(s) \in Seq(Torrent) /\ Len(Rising(s)) = Len(s)
         /\ Torrents(Rising(s)) = Torrents(s)
         /\ \A i, j \in 1 .. Len(s) : i < j => position[Rising(s)[i]] < position[Rising(s)[j]]
<1>. DEFINE n == Len(s)
            P == {position[s[i]] : i \in 1 .. n}
            Sorts(o) == \A i, j \in 1 .. n : i < j => position[s[o[i]]] <= position[s[o[j]]]
<1>1. n \in Nat /\ DOMAIN s = 1 .. n /\ s \in [1 .. n -> Torrent]
  OBVIOUS
<1>2. PICK f : f = [i \in 1 .. n |-> position[s[i]]]
  OBVIOUS
<1>3. f \in [1 .. n -> P] /\ \A i \in 1 .. n : f[i] = position[s[i]]
  BY <1>2
<1>4. IsFiniteSet(P) /\ Cardinality(P) = n /\ P \in SUBSET Nat
  <2>1. P \in SUBSET Nat
    BY <1>1
  <2>2. IsFiniteSet(1 .. n) /\ Cardinality(1 .. n) = n
    <3>. HIDE DEF n
    <3>1. 1 \in Int /\ n \in Int /\ n - 1 + 1 = n /\ (1 > n <=> n = 0)
      BY <1>1
    <3>. QED
      BY <3>1, FS_Interval
  <2>3. f \in Bijection(1 .. n, P)
    <3>1. f \in Injection(1 .. n, P)
      BY <1>1, <1>3 DEF Injection, IsInjective
    <3>2. f \in Surjection(1 .. n, P)
      BY <1>3 DEF Surjection
    <3>. QED
      BY <3>1, <3>2 DEF Bijection
  <2>4. IsFiniteSet(P) /\ Cardinality(P) = n
    BY <2>2, <2>3, FS_Bijection DEF ExistsBijection
  <2>. QED
    BY <2>1, <2>4
<1>5. PICK a : a = Ascending(P)
  OBVIOUS
<1>6. a \in [1 .. n -> P] /\ Ascends(a) /\ \A x \in P : \E i \in 1 .. n : a[i] = x
  <2>. HIDE DEF P, n
  <2>1. /\ Ascending(P) \in [1 .. Cardinality(P) -> P] /\ Ascends(Ascending(P))
        /\ \A x \in P : \E i \in 1 .. Cardinality(P) : Ascending(P)[i] = x
    BY <1>4, AscendingLists
  <2>. QED
    BY <1>4, <1>5, <2>1
<1>7. PICK w : w = [k \in 1 .. n |-> CHOOSE i \in 1 .. n : position[s[i]] = a[k]]
  OBVIOUS
<1>8. \A k \in 1 .. n : w[k] \in 1 .. n /\ position[s[w[k]]] = a[k]
  <2>. SUFFICES ASSUME NEW k \in 1 .. n PROVE w[k] \in 1 .. n /\ position[s[w[k]]] = a[k]
    OBVIOUS
  <2>1. \E i \in 1 .. n : position[s[i]] = a[k]
    BY <1>6
  <2>2. w[k] = CHOOSE i \in 1 .. n : position[s[i]] = a[k]
    BY <1>7
  <2>. QED
    BY <2>1, <2>2
<1>9. w \in Bijection(1 .. n, 1 .. n) /\ Sorts(w)
  <2>1. w \in [1 .. n -> 1 .. n]
    BY <1>7, <1>8
  <2>2. \A k, l \in 1 .. n : k < l => a[k] < a[l] /\ a[k] \in Nat /\ a[l] \in Nat
    BY <1>4, <1>6 DEF Ascends
  <2>3. ASSUME NEW k \in 1 .. n, NEW l \in 1 .. n, w[k] = w[l] PROVE k = l
    <3>1. a[k] = a[l]
      BY <1>8, <2>3
    <3>2. ~(k < l) /\ ~(l < k)
      BY <2>2, <3>1
    <3>. QED
      BY <3>2
  <2>4. ASSUME NEW i \in 1 .. n PROVE \E k \in 1 .. n : w[k] = i
    <3>1. PICK k \in 1 .. n : a[k] = position[s[i]]
      BY <1>6
    <3>2. position[s[w[k]]] = position[s[i]] /\ w[k] \in 1 .. n
      BY <1>8, <3>1
    <3>. QED
      BY <1>1, <3>2
  <2>5. w \in Injection(1 .. n, 1 .. n)
    BY <2>1, <2>3 DEF Injection, IsInjective
  <2>6. w \in Surjection(1 .. n, 1 .. n)
    BY <2>1, <2>4 DEF Surjection
  <2>7. Sorts(w)
    BY <1>8, <2>2
  <2>. QED
    BY <2>5, <2>6, <2>7 DEF Bijection
<1>10. PICK o : o = CHOOSE x \in Bijection(1 .. n, 1 .. n) : Sorts(x)
  OBVIOUS
<1>11. o \in Bijection(1 .. n, 1 .. n) /\ Sorts(o)
  BY <1>9, <1>10
<1>12. /\ \A i \in 1 .. n : o[i] \in 1 .. n
       /\ \A i, j \in 1 .. n : o[i] = o[j] => i = j
       /\ \A i \in 1 .. n : \E k \in 1 .. n : o[k] = i
  BY <1>11 DEF Bijection, Injection, Surjection, IsInjective
<1>13. PICK r : r = Rising(s)
  OBVIOUS
<1>14. r = [i \in 1 .. n |-> s[o[i]]]
  BY <1>1, <1>10, <1>13 DEF Rising
<1>15. r \in [1 .. n -> Torrent] /\ \A i \in 1 .. n : r[i] = s[o[i]]
  BY <1>1, <1>12, <1>14
<1>16. r \in Seq(Torrent) /\ Len(r) = n /\ DOMAIN r = 1 .. n
  BY <1>1, <1>15
<1>17. Torrents(r) = Torrents(s)
  <2>1. \A t \in Torrents(r) : t \in Torrents(s)
    BY <1>1, <1>12, <1>15, <1>16 DEF Torrents
  <2>2. ASSUME NEW t \in Torrents(s) PROVE t \in Torrents(r)
    <3>1. PICK i \in 1 .. n : t = s[i]
      BY <1>1 DEF Torrents
    <3>2. PICK k \in 1 .. n : o[k] = i
      BY <1>12
    <3>3. r[k] = t
      BY <1>15, <3>1, <3>2
    <3>. QED
      BY <1>16, <3>3 DEF Torrents
  <2>. QED
    BY <2>1, <2>2
<1>18. ASSUME NEW i \in 1 .. n, NEW j \in 1 .. n, i < j PROVE position[r[i]] < position[r[j]]
  <2>1. position[s[o[i]]] <= position[s[o[j]]]
    BY <1>11, <1>18
  <2>2. o[i] \in DOMAIN s /\ o[j] \in DOMAIN s /\ o[i] # o[j]
    BY <1>1, <1>12, <1>18
  <2>3. position[s[o[i]]] \in Nat /\ position[s[o[j]]] \in Nat /\ position[s[o[i]]] # position[s[o[j]]]
    BY <2>2
  <2>. QED
    BY <1>15, <2>1, <2>3
<1>. QED
  BY <1>13, <1>16, <1>17, <1>18

-----------------------------------------------------------------------------
(* A call that moves a list.                                               *)

\* The calls that move a list.
Moves == {"queue-up", "queue-down", "queue-top", "queue-bottom"}

\* The torrents it moves, those it did not get to yet, and those it did.
Moving(m) == Torrents(m.list) \cap Torrents(m.before)
Waiting(m) == {m.todo[k].torrent : k \in DOMAIN m.todo}
Over(m) == Moving(m) \ Waiting(m)

\* What is to be done is in order.
Sooner(m, s, t) ==
  IF m.name \in {"queue-up", "queue-bottom"} THEN Precedes(m.before, s, t) ELSE Precedes(m.before, t, s)

\* Those not gotten to yet follow each other, and the others are done.
TodoInOrder(m) ==
  /\ \E S : m.todo \in Seq(S)
  /\ \A k \in DOMAIN m.todo : m.todo[k].step = m.name /\ m.todo[k].torrent \in Moving(m)
  /\ \A j, k \in DOMAIN m.todo : j < k => Sooner(m, m.todo[j].torrent, m.todo[k].torrent)
  /\ \A s \in Over(m), t \in Waiting(m) : Sooner(m, s, t)

\* Those that wait are where they were, and what they will pass was not moved.
UpOne(q, m) ==
  /\ InOrderAs(q, m.before, Torrents(m.list))
  /\ \A t \in Waiting(m) :
       /\ Place(m.before, t) # 1 /\ q[Place(m.before, t)] = t
       /\ q[Place(m.before, t) - 1] \notin Over(m)

\* The same towards the end of the queue.
DownOne(q, m) ==
  /\ InOrderAs(q, m.before, Torrents(m.list))
  /\ \A t \in Waiting(m) :
       /\ Place(m.before, t) < Len(q) /\ q[Place(m.before, t)] = t
       /\ q[Place(m.before, t) + 1] \notin Over(m)

\* Moved one by one, the torrents so far are where the move puts them, and the rest of the
\* queue is in the order it was in.
Steady(q, m) ==
  /\ Queue(q) /\ Queue(m.before) /\ Torrents(q) = Torrents(m.before) /\ Len(q) = Len(m.before)
  /\ TodoInOrder(m)
  /\ m.name = "queue-top" => Ranked(q, m.before, Over(m))
  /\ m.name = "queue-bottom" => Ranked(q, m.before, Torrents(m.before) \ Over(m))
  /\ m.name = "queue-up" /\ m.before[1] \notin Torrents(m.list) => UpOne(q, m)
  /\ m.name = "queue-down" /\ m.before[Len(m.before)] \notin Torrents(m.list) => DownOne(q, m)

\* Nothing precedes itself, and of two torrents one precedes the other.
LEMMA PrecedesOrder ==
  ASSUME NEW q, Queue(q), NEW s \in Torrents(q), NEW t \in Torrents(q)
  PROVE  ~Precedes(q, s, s) /\ (s # t => (Precedes(q, s, t) <=> ~Precedes(q, t, s)))
<1>1. Place(q, s) \in 1 .. Len(q) /\ Place(q, t) \in 1 .. Len(q)
  BY Places
<1>2. s # t => Place(q, s) # Place(q, t)
  BY Places
<1>. QED
  BY <1>1, <1>2 DEF Precedes

\* The first torrent of those that wait goes over.
LEMMA HeadGoesOver ==
  ASSUME NEW m, NEW l, Queue(m.before), TodoInOrder(m), m.todo # <<>>,
         l.name = m.name, l.list = m.list, l.before = m.before, l.todo = Tail(m.todo)
  PROVE  /\ Head(m.todo).torrent \in Moving(m) /\ Head(m.todo).torrent \in Waiting(m)
         /\ Head(m.todo).step = m.name
         /\ Waiting(l) = Waiting(m) \ {Head(m.todo).torrent}
         /\ Over(l) = Over(m) \cup {Head(m.todo).torrent}
         /\ TodoInOrder(l)
<1>1. PICK h : h = Head(m.todo).torrent
  OBVIOUS
<1>2. PICK S : m.todo \in Seq(S)
  BY DEF TodoInOrder
<1>3. /\ Tail(m.todo) \in Seq(S)
      /\ Head(m.todo) = m.todo[1] /\ 1 \in DOMAIN m.todo
      /\ \A i \in DOMAIN Tail(m.todo) : i + 1 \in DOMAIN m.todo /\ i \in Nat /\ i + 1 # 1 /\ Tail(m.todo)[i] = m.todo[i + 1]
      /\ \A i \in DOMAIN m.todo : i # 1 => i - 1 \in DOMAIN Tail(m.todo) /\ Tail(m.todo)[i - 1] = m.todo[i]
  BY <1>2, TailAny
<1>4. h = m.todo[1].torrent /\ h \in Moving(m) /\ h \in Waiting(m) /\ Head(m.todo).step = m.name
  BY <1>1, <1>3 DEF TodoInOrder, Waiting
<1>5. \A i \in DOMAIN Tail(m.todo) :
        /\ Tail(m.todo)[i].step = m.name /\ Tail(m.todo)[i].torrent \in Moving(m)
        /\ Sooner(m, h, Tail(m.todo)[i].torrent)
  <2>. SUFFICES ASSUME NEW i \in DOMAIN Tail(m.todo)
                PROVE  /\ Tail(m.todo)[i].step = m.name /\ Tail(m.todo)[i].torrent \in Moving(m)
                       /\ Sooner(m, h, Tail(m.todo)[i].torrent)
    OBVIOUS
  <2>1. i + 1 \in DOMAIN m.todo /\ 1 < i + 1 /\ Tail(m.todo)[i] = m.todo[i + 1]
    BY <1>3
  <2>. QED
    BY <1>3, <1>4, <2>1 DEF TodoInOrder
<1>6. \A s, t : Sooner(l, s, t) <=> Sooner(m, s, t)
  BY DEF Sooner
<1>7. Moving(l) = Moving(m) /\ Moving(m) \subseteq Torrents(m.before)
  BY DEF Moving
<1>8. \A t \in Moving(m) : ~Sooner(m, t, t)
  BY <1>7, PrecedesOrder DEF Sooner
<1>9. Waiting(l) = Waiting(m) \ {h}
  <2>1. ASSUME NEW t \in Waiting(l) PROVE t \in Waiting(m) /\ t # h
    <3>1. PICK i \in DOMAIN Tail(m.todo) : t = Tail(m.todo)[i].torrent
      BY DEF Waiting
    <3>2. t # h
      BY <1>4, <1>5, <1>8, <3>1
    <3>. QED
      BY <1>3, <3>1, <3>2 DEF Waiting
  <2>2. ASSUME NEW t \in Waiting(m) \ {h} PROVE t \in Waiting(l)
    <3>1. PICK i \in DOMAIN m.todo : t = m.todo[i].torrent
      BY DEF Waiting
    <3>2. i # 1
      BY <1>4, <3>1
    <3>3. PICK j : j = i - 1
      OBVIOUS
    <3>4. j \in DOMAIN l.todo /\ l.todo[j].torrent = t
      BY <1>3, <3>1, <3>2, <3>3
    <3>. QED
      BY <3>4 DEF Waiting
  <2>. QED
    BY <2>1, <2>2
<1>10. Over(l) = Over(m) \cup {h}
  BY <1>4, <1>7, <1>9 DEF Over
<1>11. TodoInOrder(l)
  <2>1. ASSUME NEW i \in DOMAIN l.todo, NEW j \in DOMAIN l.todo, i < j PROVE Sooner(l, l.todo[i].torrent, l.todo[j].torrent)
    <3>1. i + 1 \in DOMAIN m.todo /\ j + 1 \in DOMAIN m.todo /\ i + 1 < j + 1
      BY <1>3, <2>1
    <3>2. Sooner(m, m.todo[i + 1].torrent, m.todo[j + 1].torrent)
      BY <3>1 DEF TodoInOrder
    <3>. QED
      BY <1>3, <1>6, <3>2
  <2>2. ASSUME NEW s \in Over(l), NEW t \in Waiting(l) PROVE Sooner(l, s, t)
    <3>1. CASE s = h
      <4>1. PICK i \in DOMAIN Tail(m.todo) : t = Tail(m.todo)[i].torrent
        BY DEF Waiting
      <4>. QED
        BY <1>5, <1>6, <3>1, <4>1
    <3>2. CASE s # h
      <4>1. s \in Over(m) /\ t \in Waiting(m)
        BY <1>9, <1>10, <3>2
      <4>. QED
        BY <1>6, <4>1 DEF TodoInOrder
    <3>. QED
      BY <3>1, <3>2
  <2>. QED
    BY <1>3, <1>5, <1>7, <2>1, <2>2 DEF TodoInOrder
<1>. QED
  BY <1>1, <1>4, <1>9, <1>10, <1>11

\* A step of the call.
LEMMA SteadyStep ==
  ASSUME NEW q, NEW m, NEW l, Steady(q, m), m.todo # <<>>, m.name \in Moves,
         l.name = m.name, l.list = m.list, l.before = m.before, l.todo = Tail(m.todo)
  PROVE  /\ Head(m.todo).torrent \in Torrents(q)
         /\ Steady(Queued(q, Head(m.todo).step, Head(m.todo).torrent), l)
<1>1. PICK h : h = Head(m.todo).torrent
  OBVIOUS
<1>2. Queue(q) /\ Queue(m.before) /\ Torrents(q) = Torrents(m.before) /\ Len(q) = Len(m.before) /\ TodoInOrder(m)
  BY DEF Steady
<1>3. /\ h \in Moving(m) /\ h \in Waiting(m) /\ Head(m.todo).step = m.name
      /\ Waiting(l) = Waiting(m) \ {h} /\ Over(l) = Over(m) \cup {h} /\ TodoInOrder(l)
  BY <1>1, <1>2, HeadGoesOver
<1>4. /\ h \in Torrents(q) /\ h \in Torrents(m.list) /\ h \notin Over(m)
      /\ Over(m) \subseteq Torrents(m.before) /\ Over(m) \subseteq Torrents(m.list)
      /\ Waiting(m) \subseteq Moving(m) /\ Moving(m) \subseteq Torrents(m.before)
  BY <1>2, <1>3 DEF Moving, Over, Waiting, TodoInOrder
<1>5. /\ Place(q, h) \in 1 .. Len(q) /\ q[Place(q, h)] = h /\ Len(q) \in Nat /\ DOMAIN q = 1 .. Len(q)
  BY <1>2, <1>4, Places DEF Queue
<1>6. PICK r : r = Queued(q, m.name, h)
  OBVIOUS
<1>7. PICK j \in 1 .. Len(q) : r = Moved(q, Place(q, h), j)
  <2>. DEFINE i == Place(q, h)
  <2>1. (IF i = 1 THEN 1 ELSE i - 1) \in 1 .. Len(q) /\ 1 \in 1 .. Len(q) /\ Len(q) \in 1 .. Len(q)
    BY <1>5
  <2>2. (IF i = Len(q) THEN i ELSE i + 1) \in 1 .. Len(q)
    <3>1. CASE i = Len(q)
      BY <1>5, <3>1
    <3>2. CASE i < Len(q)
      BY <1>5, <3>2
    <3>. QED
      BY <1>5, <3>1, <3>2
  <2>. QED
    BY <1>6, <2>1, <2>2 DEF Queued, Moves
<1>8. Queue(r) /\ Len(r) = Len(q) /\ Torrents(r) = Torrents(q)
  BY <1>2, <1>5, <1>7, MovedPlaces
<1>9. ASSUME m.name = "queue-top" PROVE Ranked(r, m.before, Over(l))
  <2>1. Ranked(q, m.before, Over(m))
    BY <1>9 DEF Steady
  <2>2. \A d \in Over(m) : Precedes(m.before, h, d)
    BY <1>2, <1>3, <1>9 DEF TodoInOrder, Sooner
  <2>. QED
    BY <1>2, <1>3, <1>4, <1>6, <1>9, <2>1, <2>2, TopStep
<1>10. ASSUME m.name = "queue-bottom" PROVE Ranked(r, m.before, Torrents(m.before) \ Over(l))
  <2>. DEFINE first == Torrents(m.before) \ Over(m)
  <2>1. Ranked(q, m.before, first)
    BY <1>10 DEF Steady
  <2>2. \A d \in Torrents(m.before) \ first : Precedes(m.before, d, h)
    BY <1>2, <1>3, <1>10 DEF TodoInOrder, Sooner
  <2>3. h \in first /\ first \ {h} = Torrents(m.before) \ Over(l)
    BY <1>2, <1>3, <1>4
  <2>. HIDE DEF first
  <2>4. Ranked(Queued(q, "queue-bottom", h), m.before, first \ {h})
    BY <1>2, <1>4, <2>1, <2>2, <2>3, BottomStep
  <2>. QED
    BY <1>6, <1>10, <2>3, <2>4
<1>11. ASSUME NEW t \in Waiting(m)
       PROVE  /\ Place(m.before, t) \in 1 .. Len(q) /\ m.before[Place(m.before, t)] = t
              /\ t \in Torrents(m.list) /\ t \notin Over(m)
  BY <1>2, <1>4, Places DEF Moving, Over
<1>12. PICK p \in 1 .. Len(q) : p = Place(m.before, h)
  BY <1>3, <1>11
<1>13. ASSUME m.name = "queue-up", m.before[1] \notin Torrents(m.list) PROVE UpOne(r, l)
  <2>1. UpOne(q, m)
    BY <1>13 DEF Steady
  <2>2. p # 1 /\ q[p] = h /\ q[p - 1] \notin Over(m) /\ p - 1 \in 1 .. Len(q)
    BY <1>3, <1>5, <1>12, <2>1 DEF UpOne
  <2>3. q[p - 1] \notin Torrents(m.list)
    <3>1. SUFFICES ASSUME q[p - 1] \in Torrents(m.list) PROVE FALSE
      OBVIOUS
    <3>2. q[p - 1] \in Torrents(q)
      BY <1>2, <2>2, PlaceOfNth
    <3>3. q[p - 1] \in Waiting(m)
      BY <1>2, <2>2, <3>1, <3>2 DEF Over, Moving
    <3>4. PICK t \in Waiting(m) : t = q[p - 1]
      BY <3>3
    <3>5. q[Place(m.before, t)] = t
      BY <2>1 DEF UpOne
    <3>6. Place(m.before, t) = p - 1
      BY <1>2, <1>11, <2>2, <3>4, <3>5, PlaceOfNth
    <3>7. t \in Waiting(l)
      <4>1. t # h
        BY <1>12, <3>6
      <4>. QED
        BY <1>3, <4>1
    <3>8. Precedes(m.before, h, t)
      BY <1>3, <1>13, <3>7 DEF TodoInOrder, Sooner
    <3>. QED
      BY <1>12, <3>6, <3>8 DEF Precedes
  <2>4. /\ InOrderAs(r, m.before, Torrents(m.list))
        /\ r = [k \in DOMAIN q |-> IF k = p - 1 THEN q[p] ELSE IF k = p THEN q[p - 1] ELSE q[k]]
    <3>1. InOrderAs(q, m.before, Torrents(m.list)) /\ q[p] \in Torrents(m.list)
      BY <1>4, <2>1, <2>2 DEF UpOne
    <3>2. r = Queued(q, "queue-up", q[p])
      BY <1>6, <1>13, <2>2
    <3>3. Queue(q) /\ Torrents(q) = Torrents(m.before) /\ p \in 1 .. Len(q) /\ p # 1
      BY <1>2, <2>2
    <3>4. /\ InOrderAs(Queued(q, "queue-up", q[p]), m.before, Torrents(m.list))
          /\ Queued(q, "queue-up", q[p]) =
               [k \in DOMAIN q |-> IF k = p - 1 THEN q[p] ELSE IF k = p THEN q[p - 1] ELSE q[k]]
      BY <2>3, <3>1, <3>3, UpStep
    <3>. QED
      BY <3>2, <3>4
  <2>5. ASSUME NEW t \in Waiting(l)
        PROVE  /\ Place(m.before, t) # 1 /\ r[Place(m.before, t)] = t
               /\ r[Place(m.before, t) - 1] \notin Over(l)
    <3>1. t \in Waiting(m) /\ t # h
      BY <1>3
    <3>2. PICK k \in 1 .. Len(q) : k = Place(m.before, t)
      BY <1>11, <3>1
    <3>3. k # 1 /\ q[k] = t /\ q[k - 1] \notin Over(m)
      BY <2>1, <3>1, <3>2 DEF UpOne
    <3>4. p < k
      <4>1. Precedes(m.before, h, t)
        BY <1>3, <1>13 DEF TodoInOrder, Sooner
      <4>. QED
        BY <1>12, <3>2, <4>1 DEF Precedes
    <3>5. r[k] = t /\ k - 1 \in 1 .. Len(q)
      BY <1>5, <2>4, <3>3, <3>4
    <3>6. r[k - 1] \notin Over(l)
      <4>1. CASE k - 1 = p
        BY <1>3, <1>4, <1>5, <2>2, <2>3, <2>4, <4>1
      <4>2. CASE k - 1 # p
        <5>1. r[k - 1] = q[k - 1]
          BY <1>5, <2>4, <3>4, <3>5, <4>2
        <5>2. q[k - 1] # h
          BY <1>2, <2>2, <3>5, <4>2 DEF Queue, IsInjective
        <5>. QED
          BY <1>3, <3>3, <5>1, <5>2
      <4>. QED
        BY <4>1, <4>2
    <3>. QED
      BY <3>2, <3>3, <3>5, <3>6
  <2>. QED
    BY <2>4, <2>5 DEF UpOne
<1>14. ASSUME m.name = "queue-down", m.before[Len(m.before)] \notin Torrents(m.list) PROVE DownOne(r, l)
  <2>1. DownOne(q, m)
    BY <1>14 DEF Steady
  <2>2. p < Len(q) /\ q[p] = h /\ q[p + 1] \notin Over(m) /\ p + 1 \in 1 .. Len(q)
    BY <1>3, <1>5, <1>12, <2>1 DEF DownOne
  <2>3. q[p + 1] \notin Torrents(m.list)
    <3>1. SUFFICES ASSUME q[p + 1] \in Torrents(m.list) PROVE FALSE
      OBVIOUS
    <3>2. q[p + 1] \in Torrents(q)
      BY <1>2, <2>2, PlaceOfNth
    <3>3. q[p + 1] \in Waiting(m)
      BY <1>2, <2>2, <3>1, <3>2 DEF Over, Moving
    <3>4. PICK t \in Waiting(m) : t = q[p + 1]
      BY <3>3
    <3>5. q[Place(m.before, t)] = t
      BY <2>1 DEF DownOne
    <3>6. Place(m.before, t) = p + 1
      BY <1>2, <1>11, <2>2, <3>4, <3>5, PlaceOfNth
    <3>7. t \in Waiting(l)
      <4>1. t # h
        BY <1>12, <3>6
      <4>. QED
        BY <1>3, <4>1
    <3>8. Precedes(m.before, t, h)
      BY <1>3, <1>14, <3>7 DEF TodoInOrder, Sooner
    <3>. QED
      BY <1>12, <3>6, <3>8 DEF Precedes
  <2>4. /\ InOrderAs(r, m.before, Torrents(m.list))
        /\ r = [k \in DOMAIN q |-> IF k = p + 1 THEN q[p] ELSE IF k = p THEN q[p + 1] ELSE q[k]]
    <3>1. InOrderAs(q, m.before, Torrents(m.list)) /\ q[p] \in Torrents(m.list)
      BY <1>4, <2>1, <2>2 DEF DownOne
    <3>2. r = Queued(q, "queue-down", q[p])
      BY <1>6, <1>14, <2>2
    <3>3. Queue(q) /\ Torrents(q) = Torrents(m.before) /\ p \in 1 .. Len(q) /\ p < Len(q)
      BY <1>2, <2>2
    <3>4. /\ InOrderAs(Queued(q, "queue-down", q[p]), m.before, Torrents(m.list))
          /\ Queued(q, "queue-down", q[p]) =
               [k \in DOMAIN q |-> IF k = p + 1 THEN q[p] ELSE IF k = p THEN q[p + 1] ELSE q[k]]
      BY <2>3, <3>1, <3>3, DownStep
    <3>. QED
      BY <3>2, <3>4
  <2>5. ASSUME NEW t \in Waiting(l)
        PROVE  /\ Place(m.before, t) < Len(r) /\ r[Place(m.before, t)] = t
               /\ r[Place(m.before, t) + 1] \notin Over(l)
    <3>1. t \in Waiting(m) /\ t # h
      BY <1>3
    <3>2. PICK k \in 1 .. Len(q) : k = Place(m.before, t)
      BY <1>11, <3>1
    <3>3. k < Len(q) /\ q[k] = t /\ q[k + 1] \notin Over(m)
      BY <2>1, <3>1, <3>2 DEF DownOne
    <3>4. k < p
      <4>1. Precedes(m.before, t, h)
        BY <1>3, <1>14 DEF TodoInOrder, Sooner
      <4>. QED
        BY <1>12, <3>2, <4>1 DEF Precedes
    <3>5. r[k] = t /\ k + 1 \in 1 .. Len(q)
      BY <1>5, <2>4, <3>3, <3>4
    <3>6. r[k + 1] \notin Over(l)
      <4>1. CASE k + 1 = p
        BY <1>3, <1>4, <1>5, <2>2, <2>3, <2>4, <4>1
      <4>2. CASE k + 1 # p
        <5>1. r[k + 1] = q[k + 1]
          BY <1>5, <2>4, <3>4, <3>5, <4>2
        <5>2. q[k + 1] # h
          BY <1>2, <2>2, <3>5, <4>2 DEF Queue, IsInjective
        <5>. QED
          BY <1>3, <3>3, <5>1, <5>2
      <4>. QED
        BY <4>1, <4>2
    <3>. QED
      BY <1>8, <3>2, <3>3, <3>5, <3>6
  <2>. QED
    BY <2>4, <2>5 DEF DownOne
<1>15. Steady(r, l)
  BY <1>2, <1>3, <1>8, <1>9, <1>10, <1>13, <1>14 DEF Steady
<1>. QED
  BY <1>1, <1>3, <1>4, <1>6, <1>15

\* One step for each torrent.
LEMMA TodoOfOne ==
  ASSUME NEW step, NEW s, NEW n \in Nat, Len(s) = n
  PROVE  /\ Todo(<<step>>, s) = [k \in 1 .. n |-> [step |-> step, torrent |-> s[k], file |-> 0, prio |-> 0]]
         /\ \E S : Todo(<<step>>, s) \in Seq(S)
<1>1. PICK one : one = <<step>>
  OBVIOUS
<1>2. Len(one) = 1 /\ one[1] = step
  BY <1>1
<1>3. \A k \in 1 .. n : 1 + ((k - 1) % 1) = 1 /\ 1 + ((k - 1) \div 1) = k
  <2>. SUFFICES ASSUME NEW k \in 1 .. n PROVE 1 + ((k - 1) % 1) = 1 /\ 1 + ((k - 1) \div 1) = k
    OBVIOUS
  <2>1. \A j \in Int : j % 1 = 0 /\ j \div 1 = j
    OBVIOUS
  <2>. QED
    BY <2>1
<1>4. 1 * n = n
  OBVIOUS
<1>5. PICK r : r = Todo(one, s)
  OBVIOUS
<1>6. r = [k \in 1 .. n |-> [step |-> step, torrent |-> s[k], file |-> 0, prio |-> 0]]
  <2>1. r = [k \in 1 .. n |-> [step |-> one[1 + ((k - 1) % 1)], torrent |-> s[1 + ((k - 1) \div 1)], file |-> 0, prio |-> 0]]
    BY <1>2, <1>4, <1>5 DEF Todo
  <2>. QED
    BY <1>2, <1>3, <2>1
<1>7. r \in Seq({r[k] : k \in 1 .. n})
  BY <1>6
<1>. QED
  BY <1>1, <1>5, <1>6, <1>7

\* A function of the numbers up to n is a sequence of n things.
LEMMA ListedIsSeq ==
  ASSUME NEW n \in Nat, NEW S, NEW f \in [1 .. n -> S]
  PROVE  f \in Seq(S) /\ Len(f) = n /\ DOMAIN f = 1 .. n
OBVIOUS

\* What is left of a list.
LEMMA ResolvedElements ==
  ASSUME NEW list \in Seq(Torrent)
  PROVE  /\ Resolved(list) \in Seq(Torrent)
         /\ Torrents(Resolved(list)) = Torrents(list) \cap known \cap Torrents(queue)
         /\ IsInjective(list) => IsInjective(Resolved(list))
<1>1. PICK places : places = {i \in DOMAIN list : list[i] \in known \cap Torrents(queue)}
  OBVIOUS
<1>2. PICK s : s = Resolved(list)
  OBVIOUS
<1>3. places \in SUBSET DOMAIN list /\ s = Picked(list, places)
  BY <1>1, <1>2 DEF Resolved
<1>4. /\ s \in Seq(Torrent)
      /\ \A i \in DOMAIN s : \E p \in places : s[i] = list[p]
      /\ \A p \in places : \E i \in DOMAIN s : s[i] = list[p]
      /\ \A i, j \in DOMAIN s : i < j => \E p, q \in places : p < q /\ s[i] = list[p] /\ s[j] = list[q]
  BY <1>3, PickedElements
<1>5. Torrents(s) = Torrents(list) \cap known \cap Torrents(queue)
  <2>1. ASSUME NEW t \in Torrents(s) PROVE t \in Torrents(list) /\ t \in known \cap Torrents(queue)
    <3>1. PICK i \in DOMAIN s : t = s[i]
      BY DEF Torrents
    <3>2. PICK k \in places : s[i] = list[k]
      BY <1>4, <3>1
    <3>3. k \in DOMAIN list /\ list[k] = t /\ list[k] \in known \cap Torrents(queue)
      BY <1>1, <3>1, <3>2
    <3>4. t \in Torrents(list)
      BY <3>3 DEF Torrents
    <3>. QED
      BY <3>3, <3>4
  <2>2. ASSUME NEW t \in Torrents(list), t \in known \cap Torrents(queue) PROVE t \in Torrents(s)
    <3>1. PICK k \in DOMAIN list : t = list[k]
      BY DEF Torrents
    <3>2. k \in places
      BY <1>1, <2>2, <3>1
    <3>3. PICK i \in DOMAIN s : s[i] = list[k]
      BY <1>4, <3>2
    <3>. QED
      BY <3>1, <3>3 DEF Torrents
  <2>. QED
    BY <2>1, <2>2
<1>6. ASSUME IsInjective(list) PROVE IsInjective(s)
  <2>1. ASSUME NEW i \in DOMAIN s, NEW j \in DOMAIN s, i < j PROVE s[i] # s[j]
    <3>1. PICK p \in places, q \in places : p < q /\ s[i] = list[p] /\ s[j] = list[q]
      BY <1>4, <2>1
    <3>2. p \in DOMAIN list /\ q \in DOMAIN list /\ p # q
      BY <1>1, <3>1
    <3>. QED
      BY <1>6, <3>1, <3>2 DEF IsInjective
  <2>2. \A i, j \in DOMAIN s : i # j => i < j \/ j < i
    BY <1>4
  <2>. QED
    BY <2>1, <2>2 DEF IsInjective
<1>. QED
  BY <1>2, <1>4, <1>5, <1>6

\* With a history that is up to date, the list is put in the order of the queue.
LEMMA OrderedAsQueue ==
  ASSUME Queue(queue), Current, NEW list \in Seq(Torrent), IsInjective(list), NEW name \in Moves
  PROVE  \E r \in Seq(Torrent) :
           /\ r = Ordered(name, Resolved(list))
           /\ Torrents(r) = Torrents(list) \cap Torrents(queue)
           /\ \A i, j \in DOMAIN r : i < j =>
                IF name \in {"queue-up", "queue-bottom"} THEN Precedes(queue, r[i], r[j]) ELSE Precedes(queue, r[j], r[i])
<1>1. PICK s : s = Resolved(list)
  OBVIOUS
<1>2. s \in Seq(Torrent) /\ IsInjective(s) /\ Torrents(s) = Torrents(list) \cap Torrents(queue)
  <2>1. Torrents(queue) \subseteq known
    BY DEF Current
  <2>. QED
    BY <1>1, <2>1, ResolvedElements
<1>3. PICK n \in Nat : n = Len(s)
  BY <1>2
<1>4. DOMAIN s = 1 .. n
  BY <1>2, <1>3
<1>5. \A t \in Torrents(queue) : position[t] = Place(queue, t) /\ position[t] \in Nat
  <2>. SUFFICES ASSUME NEW t \in Torrents(queue) PROVE position[t] = Place(queue, t) /\ position[t] \in Nat
    OBVIOUS
  <2>1. t \in Torrent
    BY DEF Queue, Torrents
  <2>2. position[t] = Place(queue, t)
    BY <2>1 DEF Current, Positions
  <2>. QED
    BY <2>2, Places
<1>6. \A i \in 1 .. n : s[i] \in Torrents(queue)
  BY <1>2, <1>4 DEF Torrents
<1>7. \A i \in DOMAIN s : position[s[i]] \in Nat
  BY <1>4, <1>5, <1>6
<1>8. \A i, j \in DOMAIN s : position[s[i]] = position[s[j]] => i = j
  <2>. SUFFICES ASSUME NEW i \in DOMAIN s, NEW j \in DOMAIN s, position[s[i]] = position[s[j]] PROVE i = j
    OBVIOUS
  <2>1. Place(queue, s[i]) = Place(queue, s[j])
    BY <1>4, <1>5, <1>6
  <2>2. s[i] = s[j]
    BY <1>4, <1>6, <2>1, Places
  <2>. QED
    BY <1>2, <2>2 DEF IsInjective
<1>9. PICK up : up = Rising(s)
  OBVIOUS
<1>10. /\ up \in Seq(Torrent) /\ Len(up) = n /\ DOMAIN up = 1 .. n /\ Torrents(up) = Torrents(s)
       /\ \A i, j \in 1 .. n : i < j => position[up[i]] < position[up[j]]
  <2>1. /\ up \in Seq(Torrent) /\ Len(up) = Len(s) /\ Torrents(up) = Torrents(s)
        /\ \A i, j \in 1 .. Len(s) : i < j => position[up[i]] < position[up[j]]
    BY <1>2, <1>7, <1>8, <1>9, RisingSorts
  <2>2. DOMAIN up = 1 .. Len(up)
    BY <2>1
  <2>. QED
    BY <1>3, <2>1, <2>2
<1>11. \A i \in 1 .. n : up[i] \in Torrents(queue)
  BY <1>2, <1>10 DEF Torrents
<1>12. \A i, j \in 1 .. n : i < j => Precedes(queue, up[i], up[j])
  BY <1>5, <1>10, <1>11 DEF Precedes
<1>13. CASE name \in {"queue-up", "queue-bottom"}
  <2>1. up = Ordered(name, s)
    BY <1>9, <1>13 DEF Ordered
  <2>. QED
    BY <1>1, <1>2, <1>10, <1>12, <1>13, <2>1
<1>14. CASE name \in {"queue-down", "queue-top"}
  <2>1. PICK down : down = Falling(s)
    OBVIOUS
  <2>2. down = [i \in 1 .. n |-> up[n - i + 1]]
    BY <1>9, <1>10, <2>1 DEF Falling, Reverse
  <2>3. \A i \in 1 .. n : n - i + 1 \in 1 .. n /\ down[i] = up[n - i + 1] /\ up[i] = down[n - i + 1]
    BY <2>2
  <2>4. down \in Seq(Torrent) /\ DOMAIN down = 1 .. n
    BY <1>10, <2>2, <2>3
  <2>5. Torrents(down) = Torrents(up)
    <3>3. DOMAIN up = 1 .. n /\ DOMAIN down = 1 .. n
      BY <1>10, <2>4
    <3>1. \A t \in Torrents(down) : t \in Torrents(up)
      BY <2>3, <3>3 DEF Torrents
    <3>2. \A t \in Torrents(up) : t \in Torrents(down)
      BY <2>3, <3>3 DEF Torrents
    <3>. QED
      BY <3>1, <3>2
  <2>6. ASSUME NEW i \in 1 .. n, NEW j \in 1 .. n, i < j PROVE Precedes(queue, down[j], down[i])
    <3>1. n - j + 1 \in 1 .. n /\ n - i + 1 \in 1 .. n /\ n - j + 1 < n - i + 1
      BY <2>6
    <3>. QED
      BY <1>12, <2>3, <3>1
  <2>7. down = Ordered(name, s)
    BY <1>14, <2>1 DEF Ordered
  <2>8. name \notin {"queue-up", "queue-bottom"}
    BY <1>14
  <2>. QED
    BY <1>1, <1>2, <1>10, <2>4, <2>5, <2>6, <2>7, <2>8
<1>. QED
  BY <1>13, <1>14 DEF Moves

\* A call that begins.
LEMMA BegunSteady ==
  ASSUME Queue(queue), Current, NEW list \in Seq(Torrent), IsInjective(list), NEW m, m.name \in Moves,
         m.list = list, m.before = queue, m.todo = Todo(Steps(m.name), Ordered(m.name, Resolved(list)))
  PROVE  Steady(queue, m)
<1>1. PICK r \in Seq(Torrent) :
        /\ r = Ordered(m.name, Resolved(list))
        /\ Torrents(r) = Torrents(list) \cap Torrents(queue)
        /\ \A i, j \in DOMAIN r : i < j =>
             IF m.name \in {"queue-up", "queue-bottom"} THEN Precedes(queue, r[i], r[j]) ELSE Precedes(queue, r[j], r[i])
  BY OrderedAsQueue
<1>2. PICK n \in Nat : n = Len(r) /\ DOMAIN r = 1 .. n
  OBVIOUS
<1>3. Steps(m.name) = <<m.name>>
  BY DEF Steps, Moves
<1>4. /\ m.todo = [k \in 1 .. n |-> [step |-> m.name, torrent |-> r[k], file |-> 0, prio |-> 0]]
      /\ \E S : m.todo \in Seq(S)
  <2>1. PICK name : name = m.name
    OBVIOUS
  <2>2. m.todo = Todo(<<name>>, r)
    BY <1>1, <1>3, <2>1
  <2>3. /\ Todo(<<name>>, r) = [k \in 1 .. n |-> [step |-> name, torrent |-> r[k], file |-> 0, prio |-> 0]]
        /\ \E S : Todo(<<name>>, r) \in Seq(S)
    BY <1>2, TodoOfOne
  <2>. QED
    BY <2>1, <2>2, <2>3, Zenon
<1>5. DOMAIN m.todo = 1 .. n /\ \A k \in 1 .. n : m.todo[k].step = m.name /\ m.todo[k].torrent = r[k]
  BY <1>4
<1>6. Waiting(m) = Torrents(r) /\ Waiting(m) = Moving(m) /\ Over(m) = {}
  <2>1. Waiting(m) = Torrents(r)
    BY <1>2, <1>5 DEF Waiting, Torrents
  <2>2. Moving(m) = Torrents(r)
    BY <1>1 DEF Moving
  <2>. QED
    BY <2>1, <2>2 DEF Over
<1>7. TodoInOrder(m)
  <2>1. \A k \in 1 .. n : m.todo[k].torrent \in Moving(m)
    BY <1>2, <1>5, <1>6 DEF Torrents
  <2>2. \A j, k \in 1 .. n : j < k => Sooner(m, m.todo[j].torrent, m.todo[k].torrent)
    BY <1>1, <1>2, <1>5 DEF Sooner
  <2>. QED
    BY <1>4, <1>5, <1>6, <2>1, <2>2 DEF TodoInOrder
<1>8. Ranked(queue, m.before, Over(m)) /\ Ranked(queue, m.before, Torrents(m.before) \ Over(m))
  BY <1>6 DEF Ranked
<1>9. InOrderAs(queue, m.before, Torrents(m.list))
  BY DEF InOrderAs
<1>10. \A t \in Waiting(m) : Place(queue, t) \in 1 .. Len(queue) /\ queue[Place(queue, t)] = t /\ t \in Torrents(list)
  BY <1>1, <1>6, Places
<1>11. m.before[1] \notin Torrents(m.list) => UpOne(queue, m)
  BY <1>6, <1>9, <1>10 DEF UpOne
<1>12. ASSUME m.before[Len(m.before)] \notin Torrents(m.list) PROVE DownOne(queue, m)
  <2>1. \A t \in Waiting(m) : Place(queue, t) < Len(queue)
    <3>. SUFFICES ASSUME NEW t \in Waiting(m) PROVE Place(queue, t) < Len(queue)
      OBVIOUS
    <3>1. PICK k, l : k = Place(queue, t) /\ l = Len(queue)
      OBVIOUS
    <3>2. l \in Nat /\ k \in 1 .. l
      BY <1>10, <3>1 DEF Queue
    <3>3. k # l
      BY <1>10, <1>12, <3>1
    <3>. QED
      BY <3>1, <3>2, <3>3
  <2>. QED
    BY <1>6, <1>9, <1>10, <2>1 DEF DownOne
<1>. QED
  BY <1>7, <1>8, <1>11, <1>12 DEF Steady

-----------------------------------------------------------------------------
(* What the torrents are.                                                  *)

TagTypes == {NotSet, "none", "tag"}

\* A sequence of steps.
TodoTypes(todo) == (\E S : todo \in Seq(S)) /\ \A i \in DOMAIN todo : todo[i].prio \in {0, 1}

\* The queue has each torrent once, and the history of them keeps what it is made for.
TorrentTypes ==
  /\ Queue(queue)
  /\ flags \in [Torrent -> SUBSET Flag]
  /\ priority \in [Torrent -> [File -> {0, 1}]]
  /\ known \subseteq Torrent /\ position \in [Torrent -> 0..Cardinality(Torrent)]
  /\ tags \in [Torrent -> TagTypes]
  /\ \A c \in Client : TodoTypes(call[c].todo)
  /\ \A a \in adding : a.torrent \in Torrent /\ a.tag \in TagTypes
  /\ \A i \in DOMAIN alerts :
       alerts[i].torrent \in Torrent /\ (alerts[i].type = "added" => alerts[i].data.tag \in TagTypes)
  /\ calls \in [Client -> 0..MaxCalls]

\* A queue is no longer than there are torrents.
LEMMA QueueLength ==
  ASSUME NEW q, Queue(q)
  PROVE  /\ Cardinality(Torrent) \in Nat /\ Len(q) \in 0 .. Cardinality(Torrent)
         /\ Positions(q) \in [Torrent -> 0..Cardinality(Torrent)]
<1>1. IsFiniteSet(Torrent)
  BY TorrentCallsAssumption
<1>2. PICK n \in Nat : n = Len(q)
  BY DEF Queue
<1>3. q \in Injection(1 .. n, Torrent)
  BY <1>2 DEF Queue, Injection
<1>4. Cardinality(Torrent) \in Nat
  BY <1>1, FS_CardinalityType
<1>5. n <= Cardinality(Torrent)
  <2>1. 1 \in Int /\ n \in Int /\ n - 1 + 1 = n /\ (1 > n <=> n = 0)
    OBVIOUS
  <2>2. IsFiniteSet(1 .. n) /\ Cardinality(1 .. n) = n
    BY <2>1, FS_Interval
  <2>. QED
    BY <1>1, <1>3, <2>2, FS_Injection
<1>6. ASSUME NEW t \in Torrents(q) PROVE Place(q, t) \in 0 .. Cardinality(Torrent)
  BY <1>2, <1>4, <1>5, Places
<1>. QED
  BY <1>2, <1>4, <1>5, <1>6 DEF Positions

\* A queue without one of its torrents.
LEMMA RemovedPlaces ==
  ASSUME NEW q, Queue(q), NEW i \in 1 .. Len(q)
  PROVE  Queue(RemoveAt(q, i))
<1>1. PICK n \in Nat : n = Len(q) /\ DOMAIN q = 1 .. n
  BY DEF Queue
<1>2. PICK u, v : u = SubSeq(q, 1, i - 1) /\ v = SubSeq(q, i + 1, n)
  OBVIOUS
<1>3. \A k \in 1 .. n : q[k] \in Torrent
  BY <1>1 DEF Queue
<1>4. u \in Seq(Torrent) /\ Len(u) = i - 1 /\ \A k \in 1 .. i - 1 : u[k] = q[k]
  <2>1. 1 \in Int /\ i - 1 \in Int /\ \A k \in 1 .. i - 1 : q[k] \in Torrent
    BY <1>1, <1>3
  <2>2. /\ u \in Seq(Torrent) /\ Len(u) = IF 1 <= i - 1 THEN i - 1 - 1 + 1 ELSE 0
        /\ \A k \in 1 .. (i - 1 - 1 + 1) : u[k] = q[1 + k - 1]
    BY <1>2, <2>1, SubSeqProperties
  <2>3. \A k \in 1 .. i - 1 : 1 + k - 1 = k
    BY <1>1
  <2>. QED
    BY <1>1, <2>2, <2>3
<1>5. v \in Seq(Torrent) /\ Len(v) = n - i /\ \A k \in 1 .. n - i : v[k] = q[i + k]
  <2>1. PICK j \in Int : j = i + 1
    BY <1>1
  <2>2. n \in Int /\ \A k \in j .. n : q[k] \in Torrent
    BY <1>1, <1>3, <2>1
  <2>3. v = SubSeq(q, j, n)
    BY <1>2, <2>1
  <2>4. /\ v \in Seq(Torrent) /\ Len(v) = IF j <= n THEN n - j + 1 ELSE 0
        /\ \A k \in 1 .. (n - j + 1) : v[k] = q[j + k - 1]
    BY <2>2, <2>3, SubSeqProperties
  <2>5. Len(v) = n - i
    BY <1>1, <2>1, <2>4
  <2>6. \A k \in 1 .. n - i : k \in 1 .. (n - j + 1) /\ j + k - 1 = i + k
    BY <1>1, <2>1
  <2>. QED
    BY <2>4, <2>5, <2>6
<1>6. PICK r : r = u \o v
  OBVIOUS
<1>7. /\ r \in Seq(Torrent) /\ Len(r) = n - 1 /\ DOMAIN r = 1 .. n - 1
      /\ \A k \in 1 .. n - 1 : r[k] = IF k <= i - 1 THEN q[k] ELSE q[k + 1]
  <2>1. /\ r \in Seq(Torrent) /\ Len(r) = Len(u) + Len(v)
        /\ \A k \in 1 .. Len(u) + Len(v) : r[k] = IF k <= Len(u) THEN u[k] ELSE v[k - Len(u)]
    BY <1>4, <1>5, <1>6, ConcatProperties
  <2>2. Len(u) + Len(v) = n - 1
    BY <1>1, <1>4, <1>5
  <2>3. ASSUME NEW k \in 1 .. n - 1 PROVE r[k] = IF k <= i - 1 THEN q[k] ELSE q[k + 1]
    <3>1. CASE k <= i - 1
      BY <1>1, <1>4, <2>1, <2>2, <3>1
    <3>2. CASE ~(k <= i - 1)
      <4>1. PICK l : l = k - (i - 1)
        OBVIOUS
      <4>2. r[k] = v[l] /\ l \in 1 .. n - i /\ i + l = k + 1
        BY <1>1, <1>4, <2>1, <2>2, <3>2, <4>1
      <4>. QED
        BY <1>5, <3>2, <4>2
    <3>. QED
      BY <3>1, <3>2
  <2>. QED
    BY <2>1, <2>2, <2>3
<1>8. \A k, l \in 1 .. n : q[k] = q[l] => k = l
  BY <1>1 DEF Queue, IsInjective
<1>9. ASSUME NEW k \in 1 .. n - 1, NEW l \in 1 .. n - 1, r[k] = r[l] PROVE k = l
  <2>1. k \in 1 .. n /\ l \in 1 .. n /\ k + 1 \in 1 .. n /\ l + 1 \in 1 .. n
    BY <1>1
  <2>2. CASE k <= i - 1 /\ l <= i - 1
    BY <1>7, <1>8, <1>9, <2>1, <2>2
  <2>3. CASE k <= i - 1 /\ ~(l <= i - 1)
    <3>1. q[k] = q[l + 1]
      BY <1>7, <1>9, <2>3
    <3>2. k = l + 1
      BY <1>8, <2>1, <3>1
    <3>. QED
      BY <1>1, <2>3, <3>2
  <2>4. CASE ~(k <= i - 1) /\ l <= i - 1
    <3>1. q[k + 1] = q[l]
      BY <1>7, <1>9, <2>4
    <3>2. k + 1 = l
      BY <1>8, <2>1, <3>1
    <3>. QED
      BY <1>1, <2>4, <3>2
  <2>5. CASE ~(k <= i - 1) /\ ~(l <= i - 1)
    <3>1. q[k + 1] = q[l + 1]
      BY <1>7, <1>9, <2>5
    <3>2. k + 1 = l + 1
      BY <1>8, <2>1, <3>1
    <3>. QED
      BY <1>1, <3>2
  <2>. QED
    BY <2>2, <2>3, <2>4, <2>5
<1>10. Queue(r)
  BY <1>7, <1>9 DEF Queue, IsInjective
<1>. QED
  BY <1>1, <1>2, <1>6, <1>10 DEF RemoveAt

\* Whatever is done to a torrent of a queue leaves a queue.
LEMMA QueuedQueue ==
  ASSUME NEW q, Queue(q), NEW t \in Torrents(q), NEW step
  PROVE  Queue(Queued(q, step, t))
<1>1. PICK i : i = Place(q, t)
  OBVIOUS
<1>2. PICK n : n = Len(q)
  OBVIOUS
<1>3. i \in 1 .. n /\ n \in Nat
  BY <1>1, <1>2, Places DEF Queue
<1>4. ASSUME NEW j \in 1 .. n PROVE Queue(Moved(q, i, j))
  BY <1>2, <1>3, MovedPlaces
<1>5. Queue(RemoveAt(q, i))
  BY <1>2, <1>3, RemovedPlaces
<1>6. (IF i = 1 THEN 1 ELSE i - 1) \in 1 .. n /\ 1 \in 1 .. n /\ n \in 1 .. n /\ (IF i = n THEN i ELSE i + 1) \in 1 .. n
  BY <1>3
<1>. QED
  BY <1>1, <1>2, <1>4, <1>5, <1>6 DEF Queued

\* A torrent that was not in a queue is put at its end.
LEMMA AppendedQueue ==
  ASSUME NEW q, Queue(q), NEW t \in Torrent, t \notin Torrents(q)
  PROVE  Queue(Append(q, t))
<1>1. PICK n \in Nat : n = Len(q) /\ DOMAIN q = 1 .. n
  BY DEF Queue
<1>2. PICK r : r = Append(q, t)
  OBVIOUS
<1>3. r \in Seq(Torrent) /\ DOMAIN r = 1 .. n + 1 /\ r[n + 1] = t /\ \A i \in 1 .. n : r[i] = q[i]
  BY <1>1, <1>2, AppendProperties DEF Queue
<1>4. \A i \in 1 .. n : q[i] # t
  BY <1>1 DEF Torrents
<1>5. \A i, j \in 1 .. n : q[i] = q[j] => i = j
  BY <1>1 DEF Queue, IsInjective
<1>6. ASSUME NEW i \in 1 .. n + 1, NEW j \in 1 .. n + 1, r[i] = r[j] PROVE i = j
  <2>1. \A k \in 1 .. n + 1 : k = n + 1 \/ k \in 1 .. n
    OBVIOUS
  <2>. QED
    BY <1>3, <1>4, <1>5, <1>6, <2>1
<1>. QED
  BY <1>2, <1>3, <1>6 DEF Queue, IsInjective

\* The list of what is to be done, of whatever torrents.
LEMMA TodoIsTyped ==
  ASSUME NEW steps, Len(steps) \in Nat, NEW s, Len(s) \in Nat, NEW prio \in {0, 1}
  PROVE  TodoTypes(Todo(steps, s)) /\ TodoTypes(TodoFiles(s, prio)) /\ TodoTypes(<<>>)
<1>1. PICK todo : todo = Todo(steps, s)
  OBVIOUS
<1>2. PICK n \in Nat : n = Len(steps) * Len(s)
  OBVIOUS
<1>3. todo = [k \in 1 .. n |-> todo[k]] /\ \A k \in 1 .. n : todo[k].prio = 0
  BY <1>1, <1>2 DEF Todo
<1>4. TodoTypes(todo)
  <2>1. todo \in Seq({todo[k] : k \in 1 .. n}) /\ DOMAIN todo = 1 .. n
    BY <1>3
  <2>. QED
    BY <1>3, <2>1 DEF TodoTypes
<1>5. PICK of : of = TodoFiles(s, prio)
  OBVIOUS
<1>6. PICK m \in Nat : m = Cardinality(File) * Len(s)
  <2>1. PICK k \in Nat : k = Cardinality(File)
    BY FS_CardinalityType, TorrentCallsAssumption
  <2>2. \A l \in Nat : k * l \in Nat
    OBVIOUS
  <2>. QED
    BY <2>1, <2>2
<1>7. of = [k \in 1 .. m |-> of[k]] /\ \A k \in 1 .. m : of[k].prio = prio
  BY <1>5, <1>6 DEF TodoFiles
<1>8. TodoTypes(of)
  <2>1. of \in Seq({of[k] : k \in 1 .. m}) /\ DOMAIN of = 1 .. m
    BY <1>7
  <2>. QED
    BY <1>7, <2>1 DEF TodoTypes
<1>9. TodoTypes(<<>>)
  <2>1. <<>> \in Seq({}) /\ DOMAIN <<>> = {}
    OBVIOUS
  <2>. QED
    BY <2>1 DEF TodoTypes
<1>. QED
  BY <1>1, <1>4, <1>5, <1>8, <1>9

\* A call does some number of steps on each torrent.
LEMMA StepsAreSome ==
  ASSUME NEW name
  PROVE  Len(Steps(name)) \in Nat /\ Len(GuiSteps(name)) \in Nat
<1>1. \A a, b, c, d : Len(<<a>>) \in Nat /\ Len(<<a, b>>) \in Nat /\ Len(<<a, b, c>>) \in Nat /\ Len(<<a, b, c, d>>) \in Nat
  OBVIOUS
<1>2. \A n : Len(Steps(n)) \in Nat
  BY <1>1 DEF Steps
<1>. QED
  BY <1>1, <1>2 DEF GuiSteps

\* A list in whatever order is a list.
LEMMA OrderedIsTyped ==
  ASSUME NEW name, NEW list \in Seq(Torrent)
  PROVE  Len(Resolved(list)) \in Nat /\ Len(Ordered(name, Resolved(list))) \in Nat
<1>1. PICK s \in Seq(Torrent) : s = Resolved(list)
  BY ResolvedElements
<1>2. PICK n \in Nat : n = Len(s) /\ DOMAIN s = 1 .. n
  OBVIOUS
<1>3. PICK up : up = Rising(s)
  OBVIOUS
<1>4. up \in [1 .. n -> {up[i] : i \in 1 .. n}]
  <2>. DEFINE o == CHOOSE order \in Bijection(DOMAIN s, DOMAIN s) :
                     \A i, j \in DOMAIN s : i < j => position[s[order[i]]] <= position[s[order[j]]]
  <2>1. up = [i \in DOMAIN s |-> s[o[i]]]
    BY <1>3 DEF Rising
  <2>. HIDE DEF o
  <2>2. up = [i \in 1 .. n |-> up[i]]
    BY <1>2, <2>1
  <2>. QED
    BY <2>2
<1>5. Len(up) = n
  BY <1>4, ListedIsSeq
<1>6. Len(Falling(s)) \in Nat
  <2>1. PICK down : down = Falling(s)
    OBVIOUS
  <2>2. down = [i \in 1 .. n |-> up[n - i + 1]]
    BY <1>3, <1>5, <2>1 DEF Falling, Reverse
  <2>3. down \in [1 .. n -> {up[n - i + 1] : i \in 1 .. n}]
    BY <2>2
  <2>4. Len(down) = n
    BY <2>3, ListedIsSeq
  <2>. QED
    BY <2>1, <2>4
<1>. QED
  BY <1>1, <1>2, <1>3, <1>5, <1>6 DEF Ordered

\* A call that begins, whoever is added without an answer.
LEMMA TypesBegin ==
  ASSUME AnswerInv, TorrentTypes, NEW c \in Client, NEW name, NEW list, NEW todo, Begin(c, name, list, todo), Ready(c),
         TodoTypes(todo), UNCHANGED <<libtorrent, history, alerts>>,
         \A a \in adding' : a \in adding \/ (a.torrent \in Torrent /\ a.tag \in TagTypes)
  PROVE  TorrentTypes'
<1>1. calls[c] + 1 \in 0 .. MaxCalls
  <2>1. calls[c] \in 0 .. MaxCalls /\ calls[c] < MaxCalls
    BY DEF Ready, TorrentTypes
  <2>2. MaxCalls \in Nat
    BY TorrentCallsAssumption
  <2>. QED
    BY <2>1, <2>2
<1>2. calls' \in [Client -> 0 .. MaxCalls]
  BY <1>1 DEF Begin, TorrentTypes
<1>3. ASSUME NEW d \in Client PROVE TodoTypes(call'[d].todo)
  <2>1. call = [e \in Client |-> call[e]]
    BY DEF AnswerInv, CallTypes
  <2>2. d # c => call'[d] = call[d]
    BY <2>1 DEF Begin
  <2>3. call'[c].todo = todo
    BY <2>1 DEF Begin
  <2>. QED
    BY <2>2, <2>3 DEF TorrentTypes
<1>. QED
  BY <1>2, <1>3 DEF TorrentTypes, libtorrent, history

\* A change that libtorrent is asked for.
LEMMA TypesApply ==
  ASSUME AnswerInv, TorrentTypes, NEW c \in Client, Apply(c)
  PROVE  TorrentTypes'
<1>. DEFINE now == Head(call[c].todo)
            t == now.torrent
            todo == call[c].todo
<1>1. todo # <<>> /\ TodoTypes(todo)
  BY DEF Apply, TorrentTypes
<1>2. PICK S : todo \in Seq(S)
  BY <1>1 DEF TodoTypes
<1>3. now.prio \in {0, 1} /\ TodoTypes(Tail(todo))
  <2>1. /\ Tail(todo) \in Seq(S) /\ now = todo[1] /\ 1 \in DOMAIN todo
        /\ \A i \in DOMAIN Tail(todo) : i + 1 \in DOMAIN todo /\ Tail(todo)[i] = todo[i + 1]
    BY <1>1, <1>2, TailAny
  <2>. QED
    BY <1>1, <2>1 DEF TodoTypes
<1>4. ASSUME t \in Torrents(queue)
      PROVE  /\ Queue(queue') /\ flags' \in [Torrent -> SUBSET Flag] /\ priority' \in [Torrent -> [File -> {0, 1}]]
             /\ \A i \in DOMAIN alerts' : alerts'[i].torrent \in Torrent /\ (alerts'[i].type = "added" => alerts'[i].data.tag \in TagTypes)
  <2>1. /\ queue' = Queued(queue, now.step, t)
        /\ flags' = [flags EXCEPT ![t] = Flagged(@, now.step)]
        /\ priority' = IF now.step = "priority" THEN [priority EXCEPT ![t][now.file] = now.prio] ELSE priority
        /\ alerts' = IF now.step = "remove" THEN Append(alerts, [type |-> "removed", torrent |-> t]) ELSE alerts
    BY <1>4 DEF Apply
  <2>2. Queue(queue) /\ t \in Torrent
    <3>1. Queue(queue) /\ queue \in Seq(Torrent)
      BY DEF TorrentTypes, Queue
    <3>2. PICK i \in DOMAIN queue : t = queue[i]
      BY <1>4 DEF Torrents
    <3>. HIDE DEF t
    <3>. QED
      BY <3>1, <3>2
  <2>3. Queue(queue')
    BY <1>4, <2>1, <2>2, QueuedQueue
  <2>4. \A f \in SUBSET Flag : \A step : Flagged(f, step) \in SUBSET Flag
    BY DEF Flagged, Flag
  <2>5. flags' \in [Torrent -> SUBSET Flag]
    BY <2>1, <2>2, <2>4 DEF TorrentTypes
  <2>6. priority' \in [Torrent -> [File -> {0, 1}]]
    <3>. DEFINE p == now.prio
    <3>. HIDE DEF now
    <3>1. [priority EXCEPT ![t][now.file] = p] \in [Torrent -> [File -> {0, 1}]]
      BY <1>3 DEF TorrentTypes
    <3>. QED
      BY <2>1, <3>1 DEF TorrentTypes
  <2>7. \A i \in DOMAIN alerts' : alerts'[i].torrent \in Torrent /\ (alerts'[i].type = "added" => alerts'[i].data.tag \in TagTypes)
    <3>1. CASE alerts' = alerts
      BY <3>1 DEF TorrentTypes
    <3>2. ASSUME NEW x, x = [type |-> "removed", torrent |-> t], alerts' = Append(alerts, x)
          PROVE  \A i \in DOMAIN alerts' : alerts'[i].torrent \in Torrent /\ (alerts'[i].type = "added" => alerts'[i].data.tag \in TagTypes)
      <4>1. x.type # "added" /\ x.torrent = t
        BY <3>2
      <4>2. /\ DOMAIN Append(alerts, x) = DOMAIN alerts \cup {Len(alerts) + 1}
            /\ \A i \in DOMAIN alerts : Append(alerts, x)[i] = alerts[i]
            /\ Append(alerts, x)[Len(alerts) + 1] = x
        BY AppendedAny DEF AnswerInv, AlertTypes
      <4>. QED
        BY <2>2, <3>2, <4>1, <4>2 DEF TorrentTypes
    <3>. QED
      BY <2>1, <3>1, <3>2
  <2>. QED
    BY <2>3, <2>5, <2>6, <2>7
<1>5. ASSUME t \notin Torrents(queue) PROVE UNCHANGED <<queue, flags, priority, alerts>>
  BY <1>5 DEF Apply, libtorrent
<1>6. UNCHANGED <<known, position, tags, adding, calls>>
  BY DEF Apply, history
<1>7. ASSUME NEW d \in Client PROVE TodoTypes(call'[d].todo)
  <2>1. call' = [e \in Client |-> IF e = c THEN [call[e] EXCEPT !.todo = Tail(todo)] ELSE [call[e] EXCEPT !.alone = FALSE]]
    BY Zenon DEF Apply
  <2>2. IsCall(call[d])
    BY DEF AnswerInv, CallTypes
  <2>3. IF d = c THEN call'[d].todo = Tail(todo) ELSE call'[d].todo = call[d].todo
    BY <2>1, <2>2 DEF IsCall
  <2>. QED
    BY <1>3, <2>3 DEF TorrentTypes
<1>. HIDE DEF t
<1>8. CASE t \in Torrents(queue)
  BY <1>4, <1>6, <1>7, <1>8 DEF TorrentTypes
<1>9. CASE t \notin Torrents(queue)
  BY <1>5, <1>6, <1>7, <1>9 DEF TorrentTypes
<1>. QED
  BY <1>8, <1>9

\* A torrent is added, or not.
LEMMA TypesAdds ==
  ASSUME AnswerInv, TorrentTypes, NEW a, Adds(a)
  PROVE  TorrentTypes'
<1>. DEFINE t == a.torrent
            x == [type |-> "added", torrent |-> t, error |-> t \in Torrents(queue) /\ a.id # 0, data |-> a]
<1>1. t \in Torrent /\ a.tag \in TagTypes /\ a \in adding /\ adding' \subseteq adding
  BY DEF Adds, TorrentTypes
<1>2. /\ queue' = IF t \notin Torrents(queue) THEN Append(queue, t) ELSE queue
      /\ flags' = IF t \notin Torrents(queue) THEN [flags EXCEPT ![t] = {}] ELSE flags
      /\ priority' = IF t \notin Torrents(queue) THEN [priority EXCEPT ![t] = [i \in File |-> 1]] ELSE priority
      /\ UNCHANGED <<known, position, tags, calls>>
  BY DEF Adds, history
<1>3. Queue(queue')
  BY <1>1, <1>2, AppendedQueue DEF TorrentTypes
<1>4. flags' \in [Torrent -> SUBSET Flag] /\ priority' \in [Torrent -> [File -> {0, 1}]]
  <2>1. [flags EXCEPT ![t] = {}] \in [Torrent -> SUBSET Flag]
    BY DEF TorrentTypes
  <2>2. [priority EXCEPT ![t] = [i \in File |-> 1]] \in [Torrent -> [File -> {0, 1}]]
    BY DEF TorrentTypes
  <2>. QED
    BY <1>2, <2>1, <2>2 DEF TorrentTypes
<1>5. \A i \in DOMAIN alerts' : alerts'[i].torrent \in Torrent /\ (alerts'[i].type = "added" => alerts'[i].data.tag \in TagTypes)
  <2>1. PICK y : /\ alerts' = Append(alerts, y)
                 /\ y.torrent = t /\ y.data = a
    BY DEF Adds
  <2>2. /\ DOMAIN Append(alerts, y) = DOMAIN alerts \cup {Len(alerts) + 1}
        /\ \A i \in DOMAIN alerts : Append(alerts, y)[i] = alerts[i]
        /\ Append(alerts, y)[Len(alerts) + 1] = y
    BY AppendedAny DEF AnswerInv, AlertTypes
  <2>. QED
    BY <1>1, <2>1, <2>2 DEF TorrentTypes
<1>6. \A d \in Client : TodoTypes(call'[d].todo)
  <2>. SUFFICES ASSUME NEW d \in Client PROVE TodoTypes(call'[d].todo)
    OBVIOUS
  <2>1. call' = [e \in Client |-> [call[e] EXCEPT !.alone = FALSE]]
    BY DEF Adds
  <2>2. IsCall(call[d])
    BY DEF AnswerInv, CallTypes
  <2>3. call'[d].todo = call[d].todo
    BY <2>1, <2>2 DEF IsCall
  <2>. QED
    BY <2>3 DEF TorrentTypes
<1>. HIDE DEF t
<1>. QED
  BY <1>1, <1>2, <1>3, <1>4, <1>5, <1>6 DEF TorrentTypes

\* The history and the webui are told of an alert.
LEMMA TypesTold ==
  ASSUME AnswerInv, TorrentTypes, HistoryTold \/ WebuiTold \/ StateUpdate
  PROVE  TorrentTypes'
<1>1. Positions(queue) \in [Torrent -> 0..Cardinality(Torrent)]
  BY QueueLength DEF TorrentTypes
<1>2. PICK S : alerts \in Seq(S)
  BY DEF AnswerInv, AlertTypes
<1>3. ASSUME alerts # <<>>
      PROVE  /\ Head(alerts).torrent \in Torrent
             /\ Head(alerts).type = "added" => Head(alerts).data.tag \in TagTypes
             /\ \A i \in DOMAIN Tail(alerts) : i + 1 \in DOMAIN alerts /\ Tail(alerts)[i] = alerts[i + 1]
  <2>1. /\ Head(alerts) = alerts[1] /\ 1 \in DOMAIN alerts
        /\ \A i \in DOMAIN Tail(alerts) : i + 1 \in DOMAIN alerts /\ Tail(alerts)[i] = alerts[i + 1]
    BY <1>2, <1>3, TailAny
  <2>. QED
    BY <2>1 DEF TorrentTypes
<1>4. NotSet \in TagTypes
  BY DEF TagTypes
<1>5. CASE HistoryTold
  <2>1. alerts # <<>> /\ UNCHANGED <<queue, flags, priority, call, adding, alerts, calls>>
    BY <1>5 DEF HistoryTold, libtorrent
  <2>2. PICK t \in Torrent : t = Head(alerts).torrent
    BY <1>3, <2>1
  <2>3. \/ known' = known \ {t} /\ tags' = [tags EXCEPT ![t] = NotSet] /\ UNCHANGED position
        \/ known' = known \cup {t} /\ position' = [position EXCEPT ![t] = Positions(queue)[t]] /\ UNCHANGED tags
        \/ UNCHANGED history
    BY <1>5, <2>2 DEF HistoryTold
  <2>4. known' \subseteq Torrent /\ position' \in [Torrent -> 0..Cardinality(Torrent)] /\ tags' \in [Torrent -> TagTypes]
    <3>1. CASE known' = known \ {t} /\ tags' = [tags EXCEPT ![t] = NotSet] /\ UNCHANGED position
      BY <1>4, <3>1 DEF TorrentTypes
    <3>2. CASE known' = known \cup {t} /\ position' = [position EXCEPT ![t] = Positions(queue)[t]] /\ UNCHANGED tags
      BY <1>1, <3>2 DEF TorrentTypes
    <3>3. CASE UNCHANGED history
      BY <3>3 DEF TorrentTypes, history
    <3>. QED
      BY <2>3, <3>1, <3>2, <3>3
  <2>. QED
    BY <2>1, <2>4 DEF TorrentTypes
<1>6. CASE WebuiTold
  <2>1. /\ told /\ alerts' = Tail(alerts)
        /\ UNCHANGED <<queue, flags, priority, known, position, call, adding, calls>>
    BY <1>6 DEF WebuiTold, libtorrent
  <2>2. alerts # <<>>
    BY <2>1 DEF AnswerInv
  <2>3. PICK h : h = Head(alerts)
    OBVIOUS
  <2>4. tags' = IF Answers(h) /\ ~h.error /\ h.torrent \in known THEN [tags EXCEPT ![h.torrent] = h.data.tag] ELSE tags
    BY <1>6, <2>3 DEF WebuiTold
  <2>5. tags' \in [Torrent -> TagTypes]
    <3>1. CASE Answers(h) /\ ~h.error /\ h.torrent \in known
      <4>1. h.data.tag \in TagTypes
        BY <1>3, <2>2, <2>3, <3>1 DEF Answers
      <4>2. tags' = [tags EXCEPT ![h.torrent] = h.data.tag]
        BY <2>4, <3>1
      <4>. QED
        BY <4>1, <4>2 DEF TorrentTypes
    <3>2. CASE ~(Answers(h) /\ ~h.error /\ h.torrent \in known)
      BY <2>4, <3>2 DEF TorrentTypes
    <3>. QED
      BY <3>1, <3>2
  <2>6. \A i \in DOMAIN alerts' : alerts'[i].torrent \in Torrent /\ (alerts'[i].type = "added" => alerts'[i].data.tag \in TagTypes)
    BY <1>3, <2>1, <2>2 DEF TorrentTypes
  <2>. QED
    BY <2>1, <2>5, <2>6 DEF TorrentTypes
<1>7. CASE StateUpdate
  <2>1. /\ position' = [t \in Torrent |-> IF t \in known THEN Positions(queue)[t] ELSE position[t]]
        /\ UNCHANGED <<queue, flags, priority, known, tags, call, adding, alerts, calls>>
    BY <1>7 DEF StateUpdate, libtorrent
  <2>2. position' \in [Torrent -> 0..Cardinality(Torrent)]
    BY <1>1, <2>1 DEF TorrentTypes
  <2>. QED
    BY <2>1, <2>2 DEF TorrentTypes
<1>. QED
  BY <1>5, <1>6, <1>7

\* Each call a connection may make, and its end.
LEMMA TypesCalls ==
  ASSUME AnswerInv, TorrentTypes, NEW c \in Client,
         \/ \E name \in Function, list \in List : CallList(c, name, list)
         \/ \E t \in Torrent, prio \in {0, 1} : CallSetFilePriority(c, t, prio)
         \/ \E action \in Action, list \in List : CallGui(c, action, list)
         \/ \E list \in List, prio \in {0, 1} : CallGuiSetPriority(c, list, prio)
         \/ \E t \in Torrent : CallGuiAddUrl(c, t)
         \/ \E t \in Torrent, tag \in {"none", "tag"} : CallAddTorrent(c, t, tag)
         \/ Respond(c)
  PROVE  TorrentTypes'
<1>1. List \subseteq Seq(Torrent)
  BY TorrentCallsAssumption
<1>2. TodoTypes(<<>>)
  BY TodoIsTyped
<1>3. ASSUME NEW name, NEW list \in List, CallList(c, name, list) PROVE TorrentTypes'
  <2>1. PICK todo : /\ todo = (IF Needs(name) \subseteq Allowed(RoleOf[c]) THEN Todo(Steps(name), Ordered(name, Resolved(list))) ELSE <<>>)
                    /\ Begin(c, name, list, todo)
    BY <1>3 DEF CallList
  <2>2. TodoTypes(todo)
    BY <1>1, <1>2, <2>1, StepsAreSome, OrderedIsTyped, TodoIsTyped
  <2>3. Ready(c) /\ UNCHANGED <<libtorrent, history, adding, alerts>>
    BY <1>3 DEF CallList
  <2>. QED
    BY <2>1, <2>2, <2>3, TypesBegin
<1>4. ASSUME NEW t \in Torrent, NEW prio \in {0, 1}, CallSetFilePriority(c, t, prio) PROVE TorrentTypes'
  <2>1. PICK todo : /\ todo = (IF "set file prio" \in Allowed(RoleOf[c]) THEN TodoFiles(Resolved(<<t>>), prio) ELSE <<>>)
                    /\ Begin(c, "set-file-priority", <<>>, todo)
    BY <1>4 DEF CallSetFilePriority
  <2>2. <<t>> \in Seq(Torrent)
    OBVIOUS
  <2>3. TodoTypes(todo)
    BY <1>2, <2>1, <2>2, OrderedIsTyped, TodoIsTyped, StepsAreSome
  <2>4. Ready(c) /\ UNCHANGED <<libtorrent, history, adding, alerts>>
    BY <1>4 DEF CallSetFilePriority
  <2>. QED
    BY <2>1, <2>3, <2>4, TypesBegin
<1>5. ASSUME NEW action, NEW list \in List, CallGui(c, action, list) PROVE TorrentTypes'
  <2>1. PICK todo : /\ todo = (IF Needs(As(action)) \subseteq Allowed(RoleOf[c]) THEN Todo(GuiSteps(action), Resolved(list)) ELSE <<>>)
                    /\ Begin(c, "gui", list, todo)
    BY <1>5 DEF CallGui
  <2>2. TodoTypes(todo)
    BY <1>1, <1>2, <2>1, StepsAreSome, OrderedIsTyped, TodoIsTyped
  <2>3. Ready(c) /\ UNCHANGED <<libtorrent, history, adding, alerts>>
    BY <1>5 DEF CallGui
  <2>. QED
    BY <2>1, <2>2, <2>3, TypesBegin
<1>6. ASSUME NEW list \in List, NEW prio \in {0, 1}, CallGuiSetPriority(c, list, prio) PROVE TorrentTypes'
  <2>1. PICK todo : /\ todo = (IF Needs(As("setprio")) \subseteq Allowed(RoleOf[c]) THEN TodoFiles(Resolved(list), prio) ELSE <<>>)
                    /\ Begin(c, "gui", list, todo)
    BY <1>6 DEF CallGuiSetPriority
  <2>2. TodoTypes(todo)
    BY <1>1, <1>2, <2>1, StepsAreSome, OrderedIsTyped, TodoIsTyped
  <2>3. Ready(c) /\ UNCHANGED <<libtorrent, history, adding, alerts>>
    BY <1>6 DEF CallGuiSetPriority
  <2>. QED
    BY <2>1, <2>2, <2>3, TypesBegin
<1>7. ASSUME NEW t \in Torrent, CallGuiAddUrl(c, t) PROVE TorrentTypes'
  <2>1. Ready(c) /\ Begin(c, "gui", <<>>, <<>>) /\ UNCHANGED <<libtorrent, history, alerts>>
    BY <1>7 DEF CallGuiAddUrl
  <2>2. NoAnswer(t, c).torrent \in Torrent /\ NoAnswer(t, c).tag \in TagTypes
    BY DEF NoAnswer, TagTypes
  <2>3. \A a \in adding' : a \in adding \/ a = NoAnswer(t, c)
    BY <1>7 DEF CallGuiAddUrl
  <2>. QED
    BY <1>2, <2>1, <2>2, <2>3, TypesBegin
<1>8. ASSUME NEW t \in Torrent, NEW tag \in {"none", "tag"}, CallAddTorrent(c, t, tag) PROVE TorrentTypes'
  <2>1. CASE "add" \in Allowed(RoleOf[c])
    <3>1. /\ adding' = adding \cup {[torrent |-> t, client |-> c, id |-> calls[c] + 1, tag |-> tag]}
          /\ calls' = [calls EXCEPT ![c] = @ + 1]
          /\ UNCHANGED <<call, queue, flags, priority, known, position, tags, alerts>> /\ Ready(c)
      BY <1>8, <2>1 DEF CallAddTorrent, libtorrent, history
    <3>2. calls[c] \in 0 .. MaxCalls /\ calls[c] < MaxCalls /\ MaxCalls \in Nat
      BY <3>1, TorrentCallsAssumption DEF Ready, TorrentTypes
    <3>3. calls[c] + 1 \in 0 .. MaxCalls
      BY <3>2
    <3>4. calls' \in [Client -> 0 .. MaxCalls]
      BY <3>1, <3>3 DEF TorrentTypes
    <3>5. \A a \in adding' : a.torrent \in Torrent /\ a.tag \in TagTypes
      BY <3>1 DEF TorrentTypes, TagTypes
    <3>. QED
      BY <3>1, <3>4, <3>5 DEF TorrentTypes
  <2>2. CASE "add" \notin Allowed(RoleOf[c])
    <3>1. Ready(c) /\ Begin(c, "add-torrent", <<>>, <<>>) /\ UNCHANGED <<libtorrent, history, adding, alerts>>
      BY <1>8, <2>2 DEF CallAddTorrent
    <3>. QED
      BY <1>2, <3>1, TypesBegin
  <2>. QED
    BY <2>1, <2>2
<1>9. ASSUME Respond(c) PROVE TorrentTypes'
  <2>1. /\ call' = [call EXCEPT ![c] = Idle]
        /\ UNCHANGED <<queue, flags, priority, known, position, tags, adding, alerts, calls>>
    BY <1>9 DEF Respond, libtorrent, history
  <2>2. ASSUME NEW d \in Client PROVE TodoTypes(call'[d].todo)
    <3>1. call = [e \in Client |-> call[e]]
      BY DEF AnswerInv, CallTypes
    <3>2. d # c => call'[d] = call[d]
      BY <2>1, <3>1
    <3>3. call'[c].todo = <<>>
      BY <2>1, <3>1 DEF Idle
    <3>. QED
      BY <1>2, <3>2, <3>3 DEF TorrentTypes
  <2>. QED
    BY <2>1, <2>2 DEF TorrentTypes
<1>. QED
  BY <1>3, <1>4, <1>5, <1>6, <1>7, <1>8, <1>9

\* A torrent runs into an error, or its check ends.
LEMMA TypesHappens ==
  ASSUME TorrentTypes, NEW t \in Torrent, Happens(t)
  PROVE  TorrentTypes'
<1>1. UNCHANGED <<queue, priority, known, position, tags, call, adding, alerts, calls>>
  BY DEF Happens, history
<1>2. flags' \in [Torrent -> SUBSET Flag]
  <2>1. \A f \in SUBSET Flag : f \cup {"error", "paused"} \in SUBSET Flag /\ f \ {"checking"} \in SUBSET Flag
    BY DEF Flag
  <2>2. flags' = [flags EXCEPT ![t] = @ \cup {"error", "paused"}] \/ flags' = [flags EXCEPT ![t] = @ \ {"checking"}]
    BY DEF Happens
  <2>. QED
    BY <2>1, <2>2 DEF TorrentTypes
<1>. QED
  BY <1>1, <1>2 DEF TorrentTypes

\* Torrents, the queue and what is kept of them have their types.
THEOREM TorrentsTyped == Spec => []TorrentTypes
<1>1. Init => TorrentTypes
  <2>. SUFFICES ASSUME TorrentCallsInit PROVE TorrentTypes
    BY DEF Init
  <2>1. Queue(queue) /\ queue = Initial
    BY TorrentCallsAssumption DEF TorrentCallsInit, Queue
  <2>2. position \in [Torrent -> 0..Cardinality(Torrent)]
    BY <2>1, QueueLength DEF TorrentCallsInit
  <2>3. flags \in [Torrent -> SUBSET Flag] /\ priority \in [Torrent -> [File -> {0, 1}]]
    BY DEF TorrentCallsInit, Flag
  <2>4. known \subseteq Torrent
    BY <2>1 DEF TorrentCallsInit, Torrents, Queue
  <2>5. tags \in [Torrent -> TagTypes]
    BY DEF TorrentCallsInit, TagTypes
  <2>6. \A c \in Client : TodoTypes(call[c].todo)
    <3>1. Idle.todo = <<>> /\ TodoTypes(<<>>)
      BY TodoIsTyped DEF Idle
    <3>. QED
      BY <3>1 DEF TorrentCallsInit
  <2>7. calls \in [Client -> 0..MaxCalls]
    <3>1. MaxCalls \in Nat
      BY TorrentCallsAssumption
    <3>2. calls = [c \in Client |-> 0]
      BY DEF TorrentCallsInit
    <3>. QED
      BY <3>1, <3>2
  <2>8. adding = {} /\ DOMAIN alerts = {}
    BY DEF TorrentCallsInit
  <2>. QED
    BY <2>1, <2>2, <2>3, <2>4, <2>5, <2>6, <2>7, <2>8 DEF TorrentTypes
<1>2. AnswerInv /\ TorrentTypes /\ [Next]_servicesVars => TorrentTypes'
  <2>. SUFFICES ASSUME AnswerInv, TorrentTypes, [Next]_servicesVars PROVE TorrentTypes'
    OBVIOUS
  <2>1. CASE UNCHANGED torrentCallVars
    BY <2>1 DEF torrentCallVars, TorrentTypes
  <2>2. CASE TorrentCallsNext
    BY <2>2, TypesCalls, TypesApply, TypesAdds, TypesTold, TypesHappens DEF TorrentCallsNext
  <2>. QED
    BY <2>1, <2>2 DEF Next, servicesVars, OfAutoLoad, OfFileRequests
<1>. QED
  BY <1>1, <1>2, AnswersOwed, PTL DEF Spec, Safety

-----------------------------------------------------------------------------
(* Lists are moved together.                                               *)

\* A call whose list is moved, of which MovedTogether says how.
Watched(m, c) ==
  /\ m # Idle /\ m.alone /\ m.fresh /\ IsInjective(m.list)
  /\ m.name \in Moves /\ "queue change" \in Allowed(RoleOf[c])

\* It is steady in the queue.
MoveInv == \A c \in Client : Watched(call[c], c) => Steady(queue, call[c])

\* A call of another name begins.
LEMMA MoveBegin ==
  ASSUME AnswerInv, MoveInv, NEW c \in Client, NEW name, NEW list, NEW todo, Begin(c, name, list, todo),
         UNCHANGED queue, Watched(call'[c], c) => Steady(queue, call'[c])
  PROVE  MoveInv'
<1>1. \A d \in Client : d # c => call'[d] = call[d]
  BY DEF Begin, AnswerInv, CallTypes
<1>. QED
  BY <1>1 DEF MoveInv

\* What a call that begins remembers.
LEMMA BegunFields ==
  ASSUME AnswerInv, NEW c \in Client, NEW name, NEW list, NEW todo, Begin(c, name, list, todo)
  PROVE  /\ call'[c].name = name /\ call'[c].list = list /\ call'[c].todo = todo /\ call'[c].before = queue
         /\ call'[c].fresh = Current
  BY DEF Begin, AnswerInv, CallTypes

\* A list of a call.
LEMMA MoveCallList ==
  ASSUME AnswerInv, TorrentTypes, MoveInv, NEW c \in Client, NEW name, NEW list \in List, CallList(c, name, list)
  PROVE  MoveInv'
<1>1. PICK todo : /\ todo = (IF Needs(name) \subseteq Allowed(RoleOf[c]) THEN Todo(Steps(name), Ordered(name, Resolved(list))) ELSE <<>>)
                  /\ Begin(c, name, list, todo)
  BY DEF CallList
<1>2. /\ call'[c].name = name /\ call'[c].list = list /\ call'[c].todo = todo /\ call'[c].before = queue
      /\ call'[c].fresh = Current
  BY <1>1, BegunFields
<1>3. ASSUME Watched(call'[c], c) PROVE Steady(queue, call'[c])
  <2>1. name \in Moves /\ IsInjective(list) /\ Current /\ "queue change" \in Allowed(RoleOf[c])
    BY <1>2, <1>3 DEF Watched
  <2>2. Needs(name) = {"queue change"}
    BY <2>1 DEF Needs, Moves
  <2>3. todo = Todo(Steps(name), Ordered(name, Resolved(list)))
    BY <1>1, <2>1, <2>2
  <2>4. list \in Seq(Torrent)
    BY TorrentCallsAssumption
  <2>. QED
    BY <1>2, <2>1, <2>3, <2>4, BegunSteady DEF TorrentTypes
<1>4. UNCHANGED queue
  BY DEF CallList, libtorrent
<1>. QED
  BY <1>1, <1>3, <1>4, MoveBegin

\* The other calls move no list.
LEMMA MoveCalls ==
  ASSUME AnswerInv, TorrentTypes, MoveInv, NEW c \in Client,
         \/ \E name \in Function, list \in List : CallList(c, name, list)
         \/ \E t \in Torrent, prio \in {0, 1} : CallSetFilePriority(c, t, prio)
         \/ \E action \in Action, list \in List : CallGui(c, action, list)
         \/ \E list \in List, prio \in {0, 1} : CallGuiSetPriority(c, list, prio)
         \/ \E t \in Torrent : CallGuiAddUrl(c, t)
         \/ \E t \in Torrent, tag \in {"none", "tag"} : CallAddTorrent(c, t, tag)
         \/ Respond(c)
  PROVE  MoveInv'
<1>1. ASSUME NEW name, name \notin Moves, NEW list, NEW todo, Begin(c, name, list, todo), UNCHANGED libtorrent PROVE MoveInv'
  BY <1>1, MoveBegin, BegunFields DEF Watched, libtorrent
<1>2. "set-file-priority" \notin Moves /\ "gui" \notin Moves /\ "add-torrent" \notin Moves
  BY DEF Moves
<1>3. ASSUME NEW t, NEW tag, CallAddTorrent(c, t, tag) PROVE MoveInv'
  <2>1. UNCHANGED libtorrent /\ (Begin(c, "add-torrent", <<>>, <<>>) \/ UNCHANGED call)
    BY <1>3 DEF CallAddTorrent
  <2>2. CASE UNCHANGED call
    BY <2>1, <2>2 DEF MoveInv, libtorrent
  <2>. QED
    BY <1>1, <1>2, <2>1, <2>2
<1>4. ASSUME Respond(c) PROVE MoveInv'
  <2>1. call' = [call EXCEPT ![c] = Idle] /\ UNCHANGED queue
    BY <1>4 DEF Respond, libtorrent
  <2>2. \A d \in Client : call'[d] = call[d] \/ call'[d] = Idle
    BY <2>1 DEF AnswerInv, CallTypes
  <2>. QED
    BY <2>1, <2>2 DEF MoveInv, Watched
<1>5. ASSUME NEW t, NEW prio, CallSetFilePriority(c, t, prio) PROVE MoveInv'
  <2>1. PICK todo : Begin(c, "set-file-priority", <<>>, todo) /\ UNCHANGED libtorrent
    BY <1>5 DEF CallSetFilePriority
  <2>. QED
    BY <1>1, <1>2, <2>1
<1>6. ASSUME NEW action, NEW list, CallGui(c, action, list) PROVE MoveInv'
  <2>1. PICK todo : Begin(c, "gui", list, todo) /\ UNCHANGED libtorrent
    BY <1>6 DEF CallGui
  <2>. QED
    BY <1>1, <1>2, <2>1
<1>7. ASSUME NEW list, NEW prio, CallGuiSetPriority(c, list, prio) PROVE MoveInv'
  <2>1. PICK todo : Begin(c, "gui", list, todo) /\ UNCHANGED libtorrent
    BY <1>7 DEF CallGuiSetPriority
  <2>. QED
    BY <1>1, <1>2, <2>1
<1>8. ASSUME NEW t, CallGuiAddUrl(c, t) PROVE MoveInv'
  <2>1. Begin(c, "gui", <<>>, <<>>) /\ UNCHANGED libtorrent
    BY <1>8 DEF CallGuiAddUrl
  <2>. QED
    BY <1>1, <1>2, <2>1
<1>. QED
  BY <1>3, <1>4, <1>5, <1>6, <1>7, <1>8, MoveCallList

\* The next torrent of a list is moved, and all other lists are disturbed.
LEMMA MoveApply ==
  ASSUME AnswerInv, MoveInv, NEW c \in Client, Apply(c)
  PROVE  MoveInv'
<1>1. call' = [d \in Client |-> IF d = c THEN [call[d] EXCEPT !.todo = Tail(@)] ELSE [call[d] EXCEPT !.alone = FALSE]]
  BY Zenon DEF Apply
<1>2. \A d \in Client : IsCall(call[d])
  BY DEF AnswerInv, CallTypes
<1>3. ASSUME NEW d \in Client, d # c PROVE ~call'[d].alone
  <2>1. call'[d] = [call[d] EXCEPT !.alone = FALSE]
    BY <1>1, <1>3
  <2>2. IsCall(call[d])
    BY <1>2
  <2>. QED
    BY <2>1, <2>2 DEF IsCall
<1>4. /\ call'[c].name = call[c].name /\ call'[c].list = call[c].list /\ call'[c].before = call[c].before
      /\ call'[c].todo = Tail(call[c].todo) /\ call'[c].alone = call[c].alone /\ call'[c].fresh = call[c].fresh
  <2>1. call'[c] = [call[c] EXCEPT !.todo = Tail(@)]
    BY <1>1
  <2>2. IsCall(call[c])
    BY <1>2
  <2>. QED
    BY <2>1, <2>2 DEF IsCall
<1>5. ASSUME Watched(call'[c], c) PROVE Steady(queue', call'[c])
  <2>1. call[c].todo # <<>>
    BY DEF Apply
  <2>2. call[c] # Idle
    BY <2>1, IdleFields
  <2>3. Watched(call[c], c)
    BY <1>4, <1>5, <2>2 DEF Watched
  <2>4. Steady(queue, call[c]) /\ call[c].name \in Moves
    BY <2>3 DEF MoveInv, Watched
  <2>5. /\ Head(call[c].todo).torrent \in Torrents(queue)
        /\ Steady(Queued(queue, Head(call[c].todo).step, Head(call[c].todo).torrent), call'[c])
    BY <1>4, <2>1, <2>4, SteadyStep
  <2>6. queue' = Queued(queue, Head(call[c].todo).step, Head(call[c].todo).torrent)
    BY <2>5 DEF Apply
  <2>. QED
    BY <2>5, <2>6
<1>. QED
  BY <1>3, <1>5 DEF MoveInv, Watched

\* Adding a torrent disturbs all lists.
LEMMA MoveAdds ==
  ASSUME AnswerInv, NEW a, Adds(a)
  PROVE  MoveInv'
<1>1. call' = [c \in Client |-> [call[c] EXCEPT !.alone = FALSE]]
  BY DEF Adds
<1>2. ASSUME NEW c \in Client PROVE ~call'[c].alone
  <2>1. call'[c] = [call[c] EXCEPT !.alone = FALSE]
    BY <1>1
  <2>2. IsCall(call[c])
    BY DEF AnswerInv, CallTypes
  <2>. QED
    BY <2>1, <2>2 DEF IsCall
<1>. QED
  BY <1>2 DEF MoveInv, Watched

\* A list that is moved is steady all the time: what is left to do is in order, those
\* that wait are where they were, and the others are where they should be.
THEOREM ListsSteady == Spec => []MoveInv
<1>1. Init => MoveInv
  BY DEF Init, TorrentCallsInit, MoveInv, Watched
<1>2. AnswerInv /\ TorrentTypes /\ MoveInv /\ [Next]_servicesVars => MoveInv'
  <2>. SUFFICES ASSUME AnswerInv, TorrentTypes, MoveInv, [Next]_servicesVars PROVE MoveInv'
    OBVIOUS
  <2>1. ASSUME UNCHANGED <<queue, call>> PROVE MoveInv'
    BY <2>1 DEF MoveInv
  <2>2. CASE UNCHANGED torrentCallVars
    BY <2>1, <2>2 DEF torrentCallVars
  <2>3. CASE TorrentCallsNext
    <3>1. HistoryTold \/ WebuiTold \/ StateUpdate \/ (\E t \in Torrent : Happens(t)) => UNCHANGED <<queue, call>>
      BY DEF HistoryTold, WebuiTold, StateUpdate, Happens, libtorrent
    <3>. QED
      BY <2>1, <2>3, <3>1, MoveCalls, MoveApply, MoveAdds DEF TorrentCallsNext
  <2>. QED
    BY <2>2, <2>3 DEF Next, servicesVars, OfAutoLoad, OfFileRequests
<1>. QED
  BY <1>1, <1>2, AnswersOwed, TorrentsTyped, PTL DEF Spec, Safety

\* A list that was moved at once, with a history that was up to date, keeps its
\* order, as do the others, and at the top and at the bottom it is in one piece.
THEOREM ListsMoveTogether == Spec => []MovedTogether
<1>1. ASSUME MoveInv, NEW c \in Client, NEW m, m = call[c], NEW list, list = Torrents(m.list),
             NEW rest, rest = Torrents(m.before) \ list,
             m # Idle, m.todo = <<>>, m.alone, m.fresh, IsInjective(m.list)
      PROVE  LET goes(name) == m.name = name /\ "queue change" \in Allowed(RoleOf[c]) /\ m.before # <<>>
                 together == Torrents(queue) = Torrents(m.before) /\ InOrderAs(queue, m.before, list)
             IN  /\ goes("queue-top") =>
                      together /\ \A s \in list \cap Torrents(queue), t \in rest : Precedes(queue, s, t)
                 /\ goes("queue-bottom") =>
                      together /\ \A s \in list \cap Torrents(queue), t \in rest : Precedes(queue, t, s)
                 /\ goes("queue-up") /\ m.before[1] \notin list => together
                 /\ goes("queue-down") /\ Last(m.before) \notin list => together
  <2>1. ASSUME m.name \in Moves, "queue change" \in Allowed(RoleOf[c]) PROVE Steady(queue, m)
    BY <1>1, <2>1 DEF MoveInv, Watched
  <2>2. Waiting(m) = {}
    BY <1>1 DEF Waiting
  <2>3. Over(m) = list \cap Torrents(m.before)
    BY <1>1, <2>2 DEF Over, Moving
  <2>4. ASSUME m.name = "queue-top", "queue change" \in Allowed(RoleOf[c])
        PROVE  /\ Torrents(queue) = Torrents(m.before) /\ InOrderAs(queue, m.before, list)
               /\ \A s \in list \cap Torrents(queue), t \in rest : Precedes(queue, s, t)
    <3>1. Torrents(queue) = Torrents(m.before) /\ Ranked(queue, m.before, list \cap Torrents(m.before))
      BY <2>1, <2>3, <2>4 DEF Steady, Moves
    <3>2. InOrderAs(queue, m.before, list)
      BY <3>1 DEF Ranked, InOrderAs
    <3>3. \A s \in list \cap Torrents(queue), t \in rest : Precedes(queue, s, t)
      BY <1>1, <3>1 DEF Ranked
    <3>. QED
      BY <3>1, <3>2, <3>3
  <2>5. ASSUME m.name = "queue-bottom", "queue change" \in Allowed(RoleOf[c])
        PROVE  /\ Torrents(queue) = Torrents(m.before) /\ InOrderAs(queue, m.before, list)
               /\ \A s \in list \cap Torrents(queue), t \in rest : Precedes(queue, t, s)
    <3>1. Torrents(queue) = Torrents(m.before) /\ Ranked(queue, m.before, Torrents(m.before) \ (list \cap Torrents(m.before)))
      BY <2>1, <2>3, <2>5 DEF Steady, Moves
    <3>2. InOrderAs(queue, m.before, list)
      BY <3>1 DEF Ranked, InOrderAs
    <3>3. \A s \in list \cap Torrents(queue), t \in rest : Precedes(queue, t, s)
      BY <1>1, <3>1 DEF Ranked
    <3>. QED
      BY <3>1, <3>2, <3>3
  <2>6. ASSUME m.name = "queue-up", "queue change" \in Allowed(RoleOf[c]), m.before[1] \notin list
        PROVE  Torrents(queue) = Torrents(m.before) /\ InOrderAs(queue, m.before, list)
    BY <1>1, <2>1, <2>6 DEF Steady, Moves, UpOne
  <2>7. ASSUME m.name = "queue-down", "queue change" \in Allowed(RoleOf[c]), m.before # <<>>, Last(m.before) \notin list
        PROVE  Torrents(queue) = Torrents(m.before) /\ InOrderAs(queue, m.before, list)
    <3>1. Last(m.before) = m.before[Len(m.before)]
      BY DEF Last
    <3>. QED
      BY <1>1, <2>1, <2>7, <3>1 DEF Steady, Moves, DownOne
  <2>. QED
    BY <2>4, <2>5, <2>6, <2>7
<1>2. MoveInv => MovedTogether
  BY <1>1 DEF MovedTogether
<1>. QED
  BY <1>2, ListsSteady, PTL

\* Calls and what they are about have their types.
LEMMA TorrentCallsAreTyped == AnswerInv /\ TorrentTypes => TorrentCallsTypeOK
<1>. SUFFICES ASSUME AnswerInv, TorrentTypes PROVE TorrentCallsTypeOK
  OBVIOUS
<1>1. MaxCalls \in Nat
  BY TorrentCallsAssumption
<1>2. ASSUME NEW c \in Client
      PROVE  /\ call[c].id \in 0..MaxCalls
             /\ \A i \in DOMAIN call[c].todo : call[c].todo[i].prio \in {0, 1}
             /\ awaited[c] \subseteq 1..calls[c]
  <2>1. calls[c] \in 0..MaxCalls /\ call[c].id \in Nat /\ awaited[c] \subseteq Nat
    BY DEF TorrentTypes, AnswerInv, CallTypes, AnswerTypes
  <2>2. \A n \in awaited[c] : n # 0 /\ n <= calls[c]
    BY <2>1 DEF AnswerInv, Owed
  <2>3. call[c].id # 0 => call[c].id \in awaited[c]
    BY <2>1 DEF AnswerInv, Owed
  <2>4. call[c].id \in 0..MaxCalls
    BY <1>1, <2>1, <2>2, <2>3
  <2>5. awaited[c] \subseteq 1..calls[c]
    BY <2>1, <2>2
  <2>. QED
    BY <2>4, <2>5 DEF TorrentTypes, TodoTypes
<1>. QED
  BY <1>2 DEF TorrentCallsTypeOK, TorrentTypes, Queue, TagTypes, AnswerInv

-----------------------------------------------------------------------------
(* Settings                                                                *)

\* A record of a save.
IsSave(r) ==
  r = [step |-> r.step, values |-> r.values, state |-> r.state, has_settings |-> r.has_settings,
       has_backup |-> r.has_backup, inode |-> r.inode]

DiskTypes ==
  /\ named \in [{"settings", "backup"} -> Inode \cup {0}]
  /\ content = [i \in Inode |-> content[i]]
  /\ named["settings"] # 0 => named["settings"] # named["backup"]

SaveTypes ==
  /\ saving = [u \in User |-> saving[u]]
  /\ \A u \in User : /\ IsSave(saving[u])
                     /\ saving[u].step \in {"no", "look", "remove", "rename", "truncate", "write"}
  /\ open \in Nat

\* What was saved last is under one of the two names, and read from there.
GoodFile == named["settings"] # 0 /\ content[named["settings"]] = done
GoodBackup ==
  /\ named["backup"] # 0 /\ content[named["backup"]] = done
  /\ named["settings"] = 0 \/ ~content[named["settings"]].whole

\* Where it is while the save after it goes on, and when that one was cut off.
GoodSo ==
  /\ \A u \in User :
       /\ saving[u].step \in {"look", "remove", "rename"} => GoodFile
       /\ saving[u].step \in {"remove", "rename"} => saving[u].has_settings
       /\ saving[u].step \in {"truncate", "write"} => GoodBackup
       /\ saving[u].step = "truncate" => named["settings"] = 0
  /\ GoodFile \/ GoodBackup

\* As long as saves do not overlap.
OneSave ==
  /\ \A u, v \in User : saving[u].step # "no" /\ saving[v].step # "no" => u = v
  /\ \A u \in User : saving[u].step = "write" => named["settings"] # 0 /\ saving[u].inode = named["settings"]
  /\ open = 0 /\ done # Cut => GoodFile /\ \A u \in User : saving[u].step = "no"
  /\ open = 1 /\ done # Cut => GoodSo

SaveInv ==
  /\ DiskTypes /\ SaveTypes
  /\ done = Cut \/ done.whole
  /\ ~overlap => OneSave

\* What does not touch the files keeps it.
LEMMA SaveSame ==
  ASSUME SaveInv, UNCHANGED <<named, content, saving, saves, done, open, overlap>>
  PROVE  SaveInv'
BY DEF SaveInv, DiskTypes, SaveTypes, OneSave, GoodSo, GoodFile, GoodBackup

\* Nobody saves before the first step of a save, and after the last.
LEMMA NotSavingFields == IsSave(NotSaving) /\ NotSaving.step = "no"
BY DEF NotSaving, IsSave

\* A save begins: only one may be under way, or they overlap.
LEMMA BeginSave ==
  ASSUME SaveInv, NEW u \in User, NEW values, Saving(u, values), UNCHANGED <<named, content>>
  PROVE  SaveInv'
<1>1. DiskTypes /\ SaveTypes /\ (done = Cut \/ done.whole)
  BY DEF SaveInv
<1>2. PICK r : r = [NotSaving EXCEPT !.step = "look", !.values = values]
  OBVIOUS
<1>3. IsSave(r) /\ r.step = "look"
  BY <1>2 DEF NotSaving, IsSave
<1>4. /\ saving' = [saving EXCEPT ![u] = r] /\ open' = open + 1 /\ done' = done
      /\ overlap' = (overlap \/ \E v \in User : saving[v].step # "no")
  BY <1>2 DEF Saving
<1>5. saving'[u] = r /\ (\A v \in User : v # u => saving'[v] = saving[v]) /\ SaveTypes'
  BY <1>1, <1>3, <1>4 DEF SaveTypes
<1>6. DiskTypes' /\ (done' = Cut \/ done'.whole) /\ GoodFile' = GoodFile
  BY <1>1, <1>4 DEF DiskTypes, GoodFile
<1>7. ASSUME ~overlap' PROVE OneSave'
  <2>1. OneSave /\ \A v \in User : saving[v].step = "no"
    BY <1>4, <1>7 DEF SaveInv
  <2>2. \A v \in User : saving'[v].step # "no" => v = u /\ saving'[v].step = "look"
    BY <1>3, <1>5, <2>1
  <2>3. open' # 0 /\ (open' = 1 => open = 0)
    BY <1>1, <1>4 DEF SaveTypes
  <2>4. open' = 1 /\ done' # Cut => GoodSo'
    BY <1>4, <1>6, <2>1, <2>2, <2>3 DEF OneSave, GoodSo
  <2>. QED
    BY <2>2, <2>3, <2>4 DEF OneSave
<1>. QED
  BY <1>5, <1>6, <1>7 DEF SaveInv

\* The step of a save: which one it is about to do next, and what it keeps.
LEMMA NextOfSave ==
  ASSUME SaveTypes, NEW u \in User, NEW r, IsSave(r), saving' = [saving EXCEPT ![u] = r], open' = open,
         r.step \in {"no", "look", "remove", "rename", "truncate", "write"}
  PROVE  SaveTypes' /\ saving'[u] = r /\ \A v \in User : v # u => saving'[v] = saving[v]
BY DEF SaveTypes

\* save() looks for the files.
LEMMA LookStep ==
  ASSUME SaveInv, NEW u \in User, Look(u)
  PROVE  SaveInv'
<1>1. DiskTypes /\ SaveTypes /\ (done = Cut \/ done.whole)
  BY DEF SaveInv
<1>2. PICK e, f : e = Exists("settings") /\ f = Exists("backup")
  OBVIOUS
<1>3. PICK r : r = [saving[u] EXCEPT !.step = "remove", !.has_settings = e, !.has_backup = f]
  OBVIOUS
<1>4. IsSave(r) /\ r.step = "remove" /\ (named["settings"] # 0 => r.has_settings)
  <2>1. PICK x : x = saving[u] /\ IsSave(x)
    BY <1>1 DEF SaveTypes
  <2>2. IsSave(r) /\ r.step = "remove" /\ r.has_settings = e
    BY <1>3, <2>1 DEF IsSave
  <2>. QED
    BY <1>2, <2>2 DEF Exists
<1>5. /\ saving' = [saving EXCEPT ![u] = r] /\ saving[u].step = "look"
      /\ UNCHANGED <<named, content, done, open, overlap>>
  BY <1>2, <1>3 DEF Look, diskVars, ghostVars
<1>6. SaveTypes' /\ saving'[u] = r /\ \A v \in User : v # u => saving'[v] = saving[v]
  BY <1>1, <1>4, <1>5, NextOfSave
<1>7. DiskTypes' /\ (done' = Cut \/ done'.whole) /\ GoodFile' = GoodFile /\ GoodBackup' = GoodBackup
  BY <1>1, <1>5 DEF DiskTypes, GoodFile, GoodBackup
<1>8. ASSUME ~overlap' PROVE OneSave'
  <2>1. OneSave
    BY <1>5, <1>8 DEF SaveInv
  <2>2. \A v \in User : v # u => saving'[v].step = "no"
    BY <1>5, <1>6, <2>1 DEF OneSave
  <2>3. open' = 1 /\ done' # Cut => GoodSo'
    BY <1>4, <1>5, <1>6, <1>7, <2>1, <2>2 DEF OneSave, GoodSo, GoodFile
  <2>. QED
    BY <1>4, <1>5, <1>6, <1>7, <2>1, <2>2, <2>3 DEF OneSave
<1>. QED
  BY <1>6, <1>7, <1>8 DEF SaveInv

\* The backup is removed, while what was saved last is in the file.
LEMMA RemoveBackupStep ==
  ASSUME SaveInv, NEW u \in User, RemoveBackup(u)
  PROVE  SaveInv'
<1>1. DiskTypes /\ SaveTypes /\ (done = Cut \/ done.whole)
  BY DEF SaveInv
<1>2. PICK r : r = [saving[u] EXCEPT !.step = "rename"]
  OBVIOUS
<1>3. IsSave(r) /\ r.step = "rename" /\ r.has_settings = saving[u].has_settings
  BY <1>1, <1>2 DEF SaveTypes, IsSave
<1>4. /\ saving' = [saving EXCEPT ![u] = r] /\ saving[u].step = "remove"
      /\ UNCHANGED <<content, done, open, overlap>>
      /\ named' = named \/ named' = [named EXCEPT !["backup"] = 0]
  BY <1>2 DEF RemoveBackup, ghostVars
<1>5. SaveTypes' /\ saving'[u] = r /\ \A v \in User : v # u => saving'[v] = saving[v]
  BY <1>1, <1>3, <1>4, NextOfSave
<1>6. DiskTypes' /\ named'["settings"] = named["settings"]
  BY <1>1, <1>4 DEF DiskTypes
<1>7. GoodFile' = GoodFile
  BY <1>4, <1>6 DEF GoodFile
<1>8. ASSUME ~overlap' PROVE OneSave'
  <2>1. OneSave
    BY <1>4, <1>8 DEF SaveInv
  <2>2. \A v \in User : v # u => saving'[v].step = "no"
    BY <1>4, <1>5, <2>1 DEF OneSave
  <2>3. open' = 1 /\ done' # Cut => GoodSo'
    BY <1>3, <1>4, <1>5, <1>7, <2>1, <2>2 DEF OneSave, GoodSo
  <2>. QED
    BY <1>3, <1>4, <1>5, <2>1, <2>2, <2>3 DEF OneSave
<1>. QED
  BY <1>1, <1>4, <1>5, <1>6, <1>8 DEF SaveInv

\* The file is renamed, with what was saved last in it.
LEMMA RenameStep ==
  ASSUME SaveInv, NEW u \in User, Rename(u)
  PROVE  SaveInv'
<1>1. DiskTypes /\ SaveTypes /\ (done = Cut \/ done.whole)
  BY DEF SaveInv
<1>2. PICK r : r = [saving[u] EXCEPT !.step = "truncate"]
  OBVIOUS
<1>3. IsSave(r) /\ r.step = "truncate"
  BY <1>1, <1>2 DEF SaveTypes, IsSave
<1>4. /\ saving' = [saving EXCEPT ![u] = r] /\ saving[u].step = "rename"
      /\ UNCHANGED <<content, done, open, overlap>>
  BY <1>2 DEF Rename, ghostVars
<1>5. SaveTypes' /\ saving'[u] = r /\ \A v \in User : v # u => saving'[v] = saving[v]
  BY <1>1, <1>3, <1>4, NextOfSave
<1>6. named' = IF saving[u].has_settings /\ named["settings"] # 0
               THEN [settings |-> 0, backup |-> named["settings"]] ELSE named
  BY DEF Rename, Exists
<1>7. DiskTypes'
  BY <1>1, <1>4, <1>6 DEF DiskTypes
<1>8. ASSUME ~overlap' PROVE OneSave'
  <2>1. OneSave
    BY <1>4, <1>8 DEF SaveInv
  <2>2. \A v \in User : v # u => saving'[v].step = "no"
    BY <1>4, <1>5, <2>1 DEF OneSave
  <2>3. ASSUME open' = 1, done' # Cut PROVE GoodSo'
    <3>1. GoodFile /\ saving[u].has_settings
      BY <1>4, <2>1, <2>3 DEF OneSave, GoodSo
    <3>2. named'["settings"] = 0 /\ named'["backup"] = named["settings"] /\ named["settings"] # 0
      BY <1>1, <1>6, <3>1 DEF GoodFile, DiskTypes
    <3>3. GoodBackup'
      BY <1>4, <3>1, <3>2 DEF GoodFile, GoodBackup
    <3>. QED
      BY <1>3, <1>5, <2>2, <3>2, <3>3 DEF GoodSo
  <2>. QED
    BY <1>3, <1>4, <1>5, <2>1, <2>2, <2>3 DEF OneSave
<1>. QED
  BY <1>1, <1>4, <1>5, <1>7, <1>8 DEF SaveInv

\* A new file is made, and the backup is left alone.
LEMMA TruncateStep ==
  ASSUME SaveInv, NEW u \in User, Truncate(u)
  PROVE  SaveInv'
<1>1. DiskTypes /\ SaveTypes /\ (done = Cut \/ done.whole)
  BY DEF SaveInv
<1>2. PICK i \in Inode :
        /\ IF named["settings"] # 0 THEN i = named["settings"] ELSE \A n \in DOMAIN named : named[n] # i
        /\ named' = [named EXCEPT !["settings"] = i]
        /\ content' = [content EXCEPT ![i] = Cut]
        /\ saving' = [saving EXCEPT ![u] = [@ EXCEPT !.step = "write", !.state = session_state, !.inode = i]]
  BY DEF Truncate, Exists
<1>3. PICK r, e : e = session_state /\ r = [saving[u] EXCEPT !.step = "write", !.state = e, !.inode = i]
  OBVIOUS
<1>4. IsSave(r) /\ r.step = "write" /\ r.inode = i
  <2>1. PICK x : x = saving[u] /\ IsSave(x)
    BY <1>1 DEF SaveTypes
  <2>. QED
    BY <1>3, <2>1 DEF IsSave
<1>5. /\ saving' = [saving EXCEPT ![u] = r] /\ saving[u].step = "truncate"
      /\ UNCHANGED <<done, open, overlap>>
  BY <1>2, <1>3 DEF Truncate, ghostVars
<1>6. SaveTypes' /\ saving'[u] = r /\ \A v \in User : v # u => saving'[v] = saving[v]
  BY <1>1, <1>4, <1>5, NextOfSave
<1>7. i # 0
  <2>1. MaxSaves \in Nat
    BY SettingsAssumption
  <2>. QED
    BY <2>1 DEF Inode
<1>8. named["backup"] # i
  BY <1>1, <1>2 DEF DiskTypes
<1>9. /\ DiskTypes' /\ named'["settings"] = i /\ named'["backup"] = named["backup"]
      /\ content'[i] = Cut
      /\ \A j \in Inode : j # i => content'[j] = content[j]
  BY <1>1, <1>2, <1>8 DEF DiskTypes
<1>10. ASSUME ~overlap' PROVE OneSave'
  <2>1. OneSave
    BY <1>5, <1>10 DEF SaveInv
  <2>2. \A v \in User : v # u => saving'[v].step = "no"
    BY <1>5, <1>6, <2>1 DEF OneSave
  <2>3. ASSUME open' = 1, done' # Cut PROVE GoodSo'
    <3>1. GoodBackup /\ named["backup"] \in Inode
      BY <1>1, <1>5, <2>1, <2>3 DEF OneSave, GoodSo, GoodBackup, DiskTypes
    <3>2. ~Cut.whole
      BY DEF Cut
    <3>3. GoodBackup'
      BY <1>5, <1>8, <1>9, <3>1, <3>2 DEF GoodBackup
    <3>. QED
      BY <1>4, <1>6, <2>2, <3>3 DEF GoodSo
  <2>. QED
    BY <1>4, <1>5, <1>6, <1>7, <1>9, <2>1, <2>2, <2>3 DEF OneSave
<1>. QED
  BY <1>1, <1>5, <1>6, <1>9, <1>10 DEF SaveInv

\* The file is written: whole, and it is what was saved last, or cut off, and that is in
\* the backup still.
LEMMA WriteStep ==
  ASSUME SaveInv, NEW u \in User, Write(u)
  PROVE  SaveInv'
<1>1. DiskTypes /\ SaveTypes /\ (done = Cut \/ done.whole)
  BY DEF SaveInv
<1>2. PICK r : r = NotSaving
  OBVIOUS
<1>3. IsSave(r) /\ r.step = "no"
  BY <1>2, NotSavingFields
<1>4. PICK w, i : w = Written(u) /\ i = saving[u].inode
  OBVIOUS
<1>5. w.whole /\ ~Cut.whole
  BY <1>4 DEF Written, Cut
<1>6. /\ saving' = [saving EXCEPT ![u] = r] /\ saving[u].step = "write"
      /\ UNCHANGED <<named, overlap>>
      /\ \/ content' = [content EXCEPT ![i] = w] /\ done' = w /\ open' = 0
         \/ content' = [content EXCEPT ![i] = Cut] /\ UNCHANGED <<done, open>>
  BY <1>2, <1>4 DEF Write
<1>7. SaveTypes' /\ saving'[u] = r /\ \A v \in User : v # u => saving'[v] = saving[v]
  BY <1>1, <1>3, <1>6 DEF SaveTypes
<1>8. DiskTypes' /\ (done' = Cut \/ done'.whole)
  BY <1>1, <1>5, <1>6 DEF DiskTypes
<1>9. ASSUME ~overlap' PROVE OneSave'
  <2>1. OneSave /\ named["settings"] # 0 /\ i = named["settings"]
    BY <1>4, <1>6, <1>9 DEF SaveInv, OneSave
  <2>2. \A v \in User : saving'[v].step = "no"
    BY <1>3, <1>6, <1>7, <2>1 DEF OneSave
  <2>3. i \in Inode /\ named["backup"] # i
    BY <1>1, <2>1 DEF DiskTypes
  <2>4. CASE content' = [content EXCEPT ![i] = w] /\ done' = w /\ open' = 0
    <3>1. content'[i] = w
      BY <1>1, <2>3, <2>4 DEF DiskTypes
    <3>2. GoodFile'
      BY <1>6, <2>1, <2>4, <3>1 DEF GoodFile
    <3>. QED
      BY <2>2, <2>4, <3>2 DEF OneSave
  <2>5. CASE content' = [content EXCEPT ![i] = Cut] /\ UNCHANGED <<done, open>>
    <3>1. content'[i] = Cut /\ \A j \in Inode : j # i => content'[j] = content[j]
      BY <1>1, <2>3, <2>5 DEF DiskTypes
    <3>2. ASSUME open' = 1, done' # Cut PROVE GoodSo'
      <4>1. GoodBackup /\ named["backup"] \in Inode
        BY <1>1, <1>6, <2>1, <2>5, <3>2 DEF OneSave, GoodSo, GoodBackup, DiskTypes
      <4>2. GoodBackup'
        BY <1>5, <1>6, <2>1, <2>3, <2>5, <3>1, <4>1 DEF GoodBackup
      <4>. QED
        BY <2>2, <4>2 DEF GoodSo
    <3>3. ~(open' = 0 /\ done' # Cut)
      BY <1>6, <2>1, <2>5 DEF OneSave
    <3>. QED
      BY <2>2, <3>2, <3>3 DEF OneSave
  <2>. QED
    BY <1>6, <2>4, <2>5
<1>. QED
  BY <1>7, <1>8, <1>9 DEF SaveInv

\* The program ends or is killed: a save that is under way ends where it is.
LEMMA StopsStep ==
  ASSUME SaveInv, Stops
  PROVE  SaveInv'
<1>1. DiskTypes /\ SaveTypes /\ (done = Cut \/ done.whole)
  BY DEF SaveInv
<1>2. /\ saving' = [v \in User |-> NotSaving]
      /\ UNCHANGED <<named, content, done, open, overlap>>
  BY DEF Stops, diskVars, ghostVars
<1>3. SaveTypes' /\ \A v \in User : saving'[v].step = "no"
  <2>1. PICK r : r = NotSaving /\ IsSave(r) /\ r.step = "no"
    BY NotSavingFields
  <2>2. \A v \in User : saving'[v] = r
    BY <1>2, <2>1
  <2>3. saving' = [v \in User |-> saving'[v]]
    BY <1>2
  <2>. QED
    BY <1>1, <1>2, <2>1, <2>2, <2>3 DEF SaveTypes
<1>4. DiskTypes' /\ (done' = Cut \/ done'.whole) /\ GoodFile' = GoodFile /\ GoodBackup' = GoodBackup
  BY <1>1, <1>2 DEF DiskTypes, GoodFile, GoodBackup
<1>5. ASSUME ~overlap' PROVE OneSave'
  BY <1>2, <1>3, <1>4, <1>5 DEF SaveInv, OneSave, GoodSo
<1>. QED
  BY <1>3, <1>4, <1>5 DEF SaveInv

\* The names, the files and the saves under way.
THEOREM SavesInvariant == Spec => []SaveInv
<1>1. Init => SaveInv
  <2> SUFFICES ASSUME SettingsInit PROVE SaveInv
    BY DEF Init
  <2>1. /\ named = [n \in {"settings", "backup"} |-> 0] /\ content = [i \in Inode |-> Cut]
        /\ saving = [u \in User |-> NotSaving] /\ done = Cut /\ open = 0
    BY DEF SettingsInit
  <2>2. \A u \in User : IsSave(saving[u]) /\ saving[u].step = "no"
    BY <2>1, NotSavingFields
  <2>3. DiskTypes /\ SaveTypes
    BY <2>1, <2>2 DEF DiskTypes, SaveTypes
  <2>. QED
    BY <2>1, <2>2, <2>3 DEF SaveInv, OneSave
<1>2. SaveInv /\ [Next]_servicesVars => SaveInv'
  <2> SUFFICES ASSUME SaveInv, [Next]_servicesVars PROVE SaveInv'
    OBVIOUS
  <2>1. CASE UNCHANGED settingVars
    BY <2>1, SaveSame DEF settingVars
  <2>2. CASE SettingsNext
    <3>1. ASSUME NEW u \in User, NEW r, SetAll(u, r) PROVE SaveInv'
      BY <3>1, SaveSame DEF SetAll, diskVars, ghostVars
    <3>2. ASSUME NEW u \in User, NEW r, SetSome(u, r) PROVE SaveInv'
      <4>1. PICK values : Saving(u, values)
        BY <3>2 DEF SetSome
      <4>. QED
        BY <3>2, <4>1, BeginSave DEF SetSome, diskVars
    <3>3. ASSUME NEW u \in User, SaveAtExit(u) PROVE SaveInv'
      BY <3>3, BeginSave DEF SaveAtExit, diskVars
    <3>4. CASE StartProgram
      BY <3>4, SaveSame DEF StartProgram, diskVars, ghostVars
    <3>. QED
      BY <2>2, <3>1, <3>2, <3>3, <3>4, LookStep, RemoveBackupStep, RenameStep, TruncateStep, WriteStep, StopsStep
      DEF SettingsNext
  <2>. QED
    BY <2>1, <2>2 DEF Next, servicesVars, OfAutoLoad, OfFileRequests
<1>. QED
  BY <1>1, <1>2, PTL DEF Spec, Safety

\* At any moment a start would find what the last save wrote that was completed, unless
\* saves overlapped, or a second one was begun since.
THEOREM SettingsSurvive == Spec => []LastSaveKept
<1>1. SaveInv => LastSaveKept
  <2> SUFFICES ASSUME SaveInv, ~overlap, open <= 1, done # Cut PROVE Loaded = done
    BY DEF LastSaveKept
  <2>1. open \in Nat /\ done.whole /\ OneSave
    BY DEF SaveInv, SaveTypes
  <2>2. open = 0 \/ open = 1
    BY <2>1
  <2>3. GoodFile \/ GoodBackup
    BY <2>1, <2>2 DEF OneSave, GoodSo
  <2>4. CASE GoodFile
    BY <2>1, <2>4 DEF GoodFile, Loaded, Decodes, Exists
  <2>5. CASE GoodBackup
    <3>1. ~Decodes("settings") /\ Decodes("backup")
      BY <2>1, <2>5 DEF GoodBackup, Decodes, Exists
    <3>. QED
      BY <2>5, <3>1 DEF GoodBackup, Loaded
  <2>. QED
    BY <2>3, <2>4, <2>5
<1>. QED
  BY <1>1, SavesInvariant, PTL

\* What maps some of the keys to values.
LEMMA PartialMaps ==
  ASSUME NEW keys, NEW f
  PROVE  /\ f \in Partial(keys) => DOMAIN f \subseteq keys /\ \A k \in DOMAIN f : f[k] \in Value
         /\ f \in [DOMAIN f -> Value] /\ DOMAIN f \subseteq keys => f \in Partial(keys)
BY DEF Partial

\* The empty dictionary is a part of every one.
LEMMA NothingMapped == ASSUME NEW keys PROVE <<>> \in Partial(keys)
<1>1. <<>> \in [{} -> Value]
  OBVIOUS
<1>. QED
  BY <1>1 DEF Partial

\* The settings of the session, of the program, of the saves under way and of the files.
SettingTypes ==
  /\ running \in {"no", "fresh", "yes"}
  /\ params \in [Setting -> Value]
  /\ m_values \in Partial(Setting \cup Own)
  /\ saves \in Nat /\ saves <= MaxSaves /\ open <= saves

SavedTypes ==
  /\ \A u \in User : saving[u].values \in Partial(Setting \cup Own) /\ saving[u].state \in Partial(Setting)
  /\ \A i \in Inode : content[i].inner \in Partial(Setting) /\ content[i].outer \in Partial(Setting \cup Own)

\* A file cut short holds no settings.
LEMMA CutTyped == Cut.inner \in Partial(Setting) /\ Cut.outer \in Partial(Setting \cup Own)
BY NothingMapped DEF Cut

\* A save that is not under way holds no settings.
LEMMA NotSavingTyped == NotSaving.values \in Partial(Setting \cup Own) /\ NotSaving.state \in Partial(Setting)
BY NothingMapped DEF NotSaving

\* What a request sets is a value.
LEMMA RequestValues ==
  ASSUME NEW r \in Request
  PROVE  /\ Len(r) \in Nat /\ DOMAIN r = 1..Len(r)
         /\ \A i \in DOMAIN r : r[i].val \in Value
<1>1. PICK S : S = {r[i].name : i \in DOMAIN r}
  OBVIOUS
<1>2. r \in Seq([name : S, val : Value])
  BY <1>1, SettingsAssumption
<1>3. PICK T : T = [name : S, val : Value]
  OBVIOUS
<1>4. r \in Seq(T)
  BY <1>2, <1>3
<1>5. Len(r) \in Nat /\ DOMAIN r = 1..Len(r) /\ \A i \in DOMAIN r : r[i] \in T
  BY <1>4
<1>6. \A t \in T : t.val \in Value
  BY <1>3
<1>. QED
  BY <1>5, <1>6

\* The greatest of some places of a list is one of them.
LEMMA GreatestPlace ==
  ASSUME NEW n \in Nat, NEW I \in SUBSET (1..n), I # {}
  PROVE  Max(I) \in I
<1>1. PICK B : B = {n - i : i \in I}
  OBVIOUS
<1>6. ASSUME NEW i \in I PROVE n - i \in Nat
  OBVIOUS
<1>2. B \subseteq Nat /\ B # {}
  BY <1>1, <1>6
<1>3. PICK m \in B : \A k \in B : m <= k
  BY <1>2, LeastNat
<1>4. PICK x \in I : m = n - x
  BY <1>1, <1>3
<1>5. ASSUME NEW y \in I PROVE x >= y
  <2>1. n - x <= n - y
    BY <1>1, <1>3, <1>4
  <2>2. x \in 1..n /\ y \in 1..n
    OBVIOUS
  <2>. QED
    BY <2>1, <2>2
<1>. QED
  BY <1>5 DEF Max

\* set_settings sets what the last of those with a name says.
LEMMA SetAllTyped ==
  ASSUME SettingTypes, NEW u \in User, NEW r \in Request, SetAll(u, r)
  PROVE  params' \in [Setting -> Value] /\ running' = "yes"
<1>1. ASSUME NEW s \in Setting, NEW last, last = SelectLastInSeq(r, LAMBDA p : p.name = s), last # 0
      PROVE  r[last].val \in Value
  <2>1. PICK I : I = {i \in 1..Len(r) : r[i].name = s}
    OBVIOUS
  <2>2. last = IF I # {} THEN Max(I) ELSE 0
    BY <1>1, <2>1 DEF SelectLastInSeq
  <2>3. Len(r) \in Nat /\ DOMAIN r = 1..Len(r)
    BY RequestValues
  <2>4. last \in I
    BY <1>1, <2>1, <2>2, <2>3, GreatestPlace
  <2>. QED
    BY <2>1, <2>3, <2>4, RequestValues
<1>2. params' = [s \in Setting |->
        LET last == SelectLastInSeq(r, LAMBDA p : p.name = s) IN IF last = 0 THEN params[s] ELSE r[last].val]
  BY DEF SetAll
<1>3. ASSUME NEW s \in Setting PROVE params'[s] \in Value
  <2>1. PICK last : last = SelectLastInSeq(r, LAMBDA p : p.name = s)
    OBVIOUS
  <2>2. params'[s] = IF last = 0 THEN params[s] ELSE r[last].val
    BY <1>2, <2>1
  <2>. QED
    BY <1>1, <2>1, <2>2 DEF SettingTypes
<1>4. running' = "yes"
  BY DEF SetAll
<1>. QED
  BY <1>2, <1>3, <1>4

\* What the other interface sets changes only the settings that are named, to the values
\* that come with them.
LEMMA UpdatedTyped ==
  ASSUME NEW r \in Request, NEW keys, NEW f \in Partial(keys), NEW I \in SUBSET DOMAIN r,
         \A i \in I : r[i].name \in keys
  PROVE  /\ Updated(f, r, I) \in Partial(keys)
         /\ DOMAIN f \subseteq DOMAIN Updated(f, r, I)
<1>1. DOMAIN f \subseteq keys /\ \A k \in DOMAIN f : f[k] \in Value
  BY PartialMaps
<1>2. PICK g : g = Updated(f, r, I)
  OBVIOUS
<1>3. g = [k \in DOMAIN f \cup {r[i].name : i \in I} |->
             IF \E i \in I : r[i].name = k THEN r[CHOOSE i \in I : r[i].name = k].val ELSE f[k]]
  BY <1>2 DEF Updated
<1>4. DOMAIN g = DOMAIN f \cup {r[i].name : i \in I} /\ DOMAIN g \subseteq keys
  BY <1>1, <1>3
<1>5. ASSUME NEW k \in DOMAIN g PROVE g[k] \in Value
  <2>1. CASE \E i \in I : r[i].name = k
    <3>1. PICK i : i = (CHOOSE j \in I : r[j].name = k)
      OBVIOUS
    <3>2. i \in I
      BY <2>1, <3>1
    <3>3. g[k] = r[i].val
      BY <1>3, <2>1, <3>1
    <3>. QED
      BY <3>2, <3>3, RequestValues
  <2>2. CASE ~\E i \in I : r[i].name = k
    <3>1. k \in DOMAIN f /\ g[k] = f[k]
      BY <1>3, <1>4, <2>2
    <3>. QED
      BY <1>1, <3>1
  <2>. QED
    BY <2>1, <2>2
<1>6. g \in [DOMAIN g -> Value]
  BY <1>3, <1>4, <1>5
<1>. QED
  BY <1>2, <1>4, <1>6, PartialMaps

\* A request leaves settings that have values.
LEMMA SetSomeTyped ==
  ASSUME SettingTypes, NEW u \in User, NEW r \in Request, SetSome(u, r)
  PROVE  params' \in [Setting -> Value] /\ m_values' \in Partial(Setting \cup Own)
<1>1. PICK I, O : I = Taken(u, r) /\ O = {i \in I : r[i].name \in Own}
  OBVIOUS
<1>2. m_values' = Updated(m_values, r, O) /\ params' = Updated(params, r, I \ O)
  BY <1>1 DEF SetSome
<1>3. I \subseteq DOMAIN r /\ \A i \in I : r[i].name \in Setting \cup Own
  BY <1>1 DEF Taken
<1>4. m_values' \in Partial(Setting \cup Own)
  <2>1. O \in SUBSET DOMAIN r /\ \A i \in O : r[i].name \in Setting \cup Own
    BY <1>1, <1>3
  <2>. QED
    BY <1>2, <2>1, UpdatedTyped DEF SettingTypes
<1>5. params' \in [Setting -> Value]
  <2>5. PICK J : J = I \ O
    OBVIOUS
  <2>1. J \in SUBSET DOMAIN r /\ \A i \in J : r[i].name \in Setting
    BY <1>1, <1>3, <2>5
  <2>2. params \in Partial(Setting) /\ DOMAIN params = Setting
    BY DEF SettingTypes, Partial
  <2>6. params' = Updated(params, r, J)
    BY <1>2, <2>5
  <2>3. params' \in Partial(Setting) /\ DOMAIN params \subseteq DOMAIN params'
    BY <2>1, <2>2, <2>6, UpdatedTyped
  <2>4. DOMAIN params' = Setting
    BY <2>2, <2>3 DEF Partial
  <2>. QED
    BY <2>3, <2>4 DEF Partial
<1>. QED
  BY <1>4, <1>5

\* A save begins with the values there are.
LEMMA SavingTyped ==
  ASSUME SaveInv, SettingTypes, SavedTypes, NEW u \in User, NEW values \in Partial(Setting \cup Own),
         saves < MaxSaves, Saving(u, values), UNCHANGED content
  PROVE  SavedTypes' /\ saves' \in Nat /\ saves' <= MaxSaves /\ open' <= saves'
<1>1. PICK r : r = [NotSaving EXCEPT !.step = "look", !.values = values]
  OBVIOUS
<1>2. r.values \in Partial(Setting \cup Own) /\ r.state \in Partial(Setting)
  BY <1>1, NothingMapped DEF NotSaving
<1>3. saving' = [saving EXCEPT ![u] = r] /\ saves' = saves + 1 /\ open' = open + 1
  BY <1>1 DEF Saving
<1>4. SavedTypes'
  BY <1>2, <1>3 DEF SavedTypes, SaveInv, SaveTypes
<1>5. open \in Nat /\ saves \in Nat /\ open <= saves
  BY DEF SettingTypes, SaveInv, SaveTypes
<1>6. PICK m \in Nat : m = MaxSaves
  BY SettingsAssumption
<1>7. open + 1 <= saves + 1 /\ saves + 1 <= m
  BY <1>5, <1>6
<1>. QED
  BY <1>3, <1>4, <1>5, <1>6, <1>7

\* What a start takes from the file, or the backup.
LEMMA LoadedTyped ==
  ASSUME SaveInv, SavedTypes
  PROVE  Loaded.outer \in Partial(Setting \cup Own)
<1>1. ASSUME NEW n \in {"settings", "backup"}, Decodes(n) PROVE named[n] \in Inode
  BY <1>1 DEF Decodes, Exists, SaveInv, DiskTypes
<1>. QED
  BY <1>1, CutTyped DEF Loaded, SavedTypes

\* A program that starts has settings with values, whatever the file holds.
LEMMA StartTyped ==
  ASSUME SaveInv, SettingTypes, SavedTypes, StartProgram
  PROVE  params' \in [Setting -> Value] /\ m_values' \in Partial(Setting \cup Own)
<1>1. PICK f : f = Loaded.outer /\ f \in Partial(Setting \cup Own)
  BY LoadedTyped
<1>2. PICK t : t = Restrict(f, DOMAIN f \cap Setting)
  OBVIOUS
<1>3. t = [k \in DOMAIN f \cap Setting |-> f[k]]
  BY <1>2 DEF Restrict
<1>4. DOMAIN t = DOMAIN f \cap Setting /\ \A k \in DOMAIN t : t[k] \in Value
  BY <1>1, <1>3, PartialMaps
<1>5. t \in [DOMAIN t -> Value] /\ DOMAIN t \subseteq Setting
  BY <1>3, <1>4
<1>6. t \in Partial(Setting \cup Own)
  BY <1>5, PartialMaps
<1>7. m_values' = t /\ params' = [s \in Setting |-> IF s \in DOMAIN t THEN t[s] ELSE Default]
  BY <1>1, <1>2 DEF StartProgram
<1>. QED
  BY <1>4, <1>6, <1>7, SettingsAssumption

\* The steps of a save keep the values it began with; the file has them, or nothing.
LEMMA SaveStepsTyped ==
  ASSUME SaveInv, SettingTypes, SavedTypes, NEW u \in User,
         Look(u) \/ RemoveBackup(u) \/ Rename(u) \/ Truncate(u) \/ Write(u)
  PROVE  SettingTypes' /\ SavedTypes'
<1>1. saving = [v \in User |-> saving[v]] /\ content = [i \in Inode |-> content[i]] /\ IsSave(saving[u])
      /\ open \in Nat
  BY DEF SaveInv, DiskTypes, SaveTypes
<1>2. PICK x : x = saving[u] /\ IsSave(x)
  BY <1>1
<1>3. x.values \in Partial(Setting \cup Own) /\ x.state \in Partial(Setting)
  BY <1>2 DEF SavedTypes
<1>4. UNCHANGED <<running, params, m_values, saves>> /\ (open' = open \/ open' = 0)
  BY DEF Look, RemoveBackup, Rename, Truncate, Write, diskVars, ghostVars
<1>5. SettingTypes'
  BY <1>1, <1>4 DEF SettingTypes
<1>6. ASSUME NEW r, saving' = [saving EXCEPT ![u] = r],
             r.values \in Partial(Setting \cup Own), r.state \in Partial(Setting)
      PROVE  \A v \in User : saving'[v].values \in Partial(Setting \cup Own) /\ saving'[v].state \in Partial(Setting)
  BY <1>1, <1>6 DEF SavedTypes
<1>7. CASE Look(u)
  <2>1. PICK e, f : e = Exists("settings") /\ f = Exists("backup")
    OBVIOUS
  <2>2. PICK r : r = [x EXCEPT !.step = "remove", !.has_settings = e, !.has_backup = f]
    OBVIOUS
  <2>3. r.values = x.values /\ r.state = x.state
    BY <1>2, <2>2 DEF IsSave
  <2>4. saving' = [saving EXCEPT ![u] = r] /\ content' = content
    BY <1>2, <1>7, <2>1, <2>2 DEF Look, diskVars
  <2>. QED
    BY <1>3, <1>5, <1>6, <2>3, <2>4 DEF SavedTypes
<1>8. CASE RemoveBackup(u) \/ Rename(u)
  <2>1. PICK s : s \in {"rename", "truncate"} /\ saving' = [saving EXCEPT ![u].step = s] /\ content' = content
    BY <1>8 DEF RemoveBackup, Rename
  <2>2. PICK r : r = [x EXCEPT !.step = s]
    OBVIOUS
  <2>3. r.values = x.values /\ r.state = x.state
    BY <1>2, <2>2 DEF IsSave
  <2>4. saving' = [saving EXCEPT ![u] = r]
    BY <1>2, <2>1, <2>2
  <2>. QED
    BY <1>3, <1>5, <1>6, <2>1, <2>3, <2>4 DEF SavedTypes
<1>9. CASE Truncate(u)
  <2>1. PICK st : st = session_state
    OBVIOUS
  <2>2. st \in Partial(Setting)
    <3>1. st = [s \in {t \in Setting : params[t] # Default} |-> params[s]]
      BY <2>1 DEF session_state, Restrict
    <3>2. st \in [DOMAIN st -> Value] /\ DOMAIN st \subseteq Setting
      BY <3>1 DEF SettingTypes
    <3>. QED
      BY <3>2, PartialMaps
  <2>3. PICK i \in Inode :
          /\ content' = [content EXCEPT ![i] = Cut]
          /\ saving' = [saving EXCEPT ![u] = [@ EXCEPT !.step = "write", !.state = st, !.inode = i]]
    BY <1>9, <2>1 DEF Truncate
  <2>4. PICK r : r = [x EXCEPT !.step = "write", !.state = st, !.inode = i]
    OBVIOUS
  <2>5. r.values = x.values /\ r.state = st
    BY <1>2, <2>4 DEF IsSave
  <2>6. saving' = [saving EXCEPT ![u] = r]
    BY <1>2, <2>3, <2>4
  <2>7. \A v \in User : saving'[v].values \in Partial(Setting \cup Own) /\ saving'[v].state \in Partial(Setting)
    BY <1>3, <1>6, <2>2, <2>5, <2>6
  <2>8. PICK c : c = Cut /\ c.inner \in Partial(Setting) /\ c.outer \in Partial(Setting \cup Own)
    BY CutTyped
  <2>9. content' = [content EXCEPT ![i] = c]
    BY <2>3, <2>8
  <2>10. \A j \in Inode : content'[j].inner \in Partial(Setting) /\ content'[j].outer \in Partial(Setting \cup Own)
    BY <1>1, <2>8, <2>9 DEF SavedTypes
  <2>. QED
    BY <1>5, <2>7, <2>10 DEF SavedTypes
<1>10. CASE Write(u)
  <2>1. PICK r : r = NotSaving /\ r.values \in Partial(Setting \cup Own) /\ r.state \in Partial(Setting)
    BY NotSavingTyped
  <2>2. PICK w : w = Written(u)
    OBVIOUS
  <2>3. w.inner \in Partial(Setting) /\ w.outer \in Partial(Setting \cup Own)
    BY <1>2, <1>3, <2>2 DEF Written
  <2>4. PICK i : i = saving[u].inode
    OBVIOUS
  <2>5. \E c \in {w, Cut} : content' = [content EXCEPT ![i] = c]
    BY <1>10, <2>2, <2>4 DEF Write
  <2>6. PICK c : content' = [content EXCEPT ![i] = c]
                 /\ c.inner \in Partial(Setting) /\ c.outer \in Partial(Setting \cup Own)
    BY <2>3, <2>5, CutTyped
  <2>7. \A j \in Inode : content'[j].inner \in Partial(Setting) /\ content'[j].outer \in Partial(Setting \cup Own)
    BY <1>1, <2>6 DEF SavedTypes
  <2>8. saving' = [saving EXCEPT ![u] = r]
    BY <1>10, <2>1 DEF Write
  <2>. QED
    BY <1>5, <1>6, <2>1, <2>7, <2>8 DEF SavedTypes
<1>. QED
  BY <1>7, <1>8, <1>9, <1>10

\* Whatever is set and saved, and whenever the program is stopped and started again.
LEMMA SettingsTyped ==
  SaveInv /\ SettingTypes /\ SavedTypes /\ [Next]_servicesVars => SettingTypes' /\ SavedTypes'
<1>. SUFFICES ASSUME SaveInv, SettingTypes, SavedTypes, [Next]_servicesVars PROVE SettingTypes' /\ SavedTypes'
  OBVIOUS
<1>1. CASE UNCHANGED settingVars
  BY <1>1 DEF settingVars, SettingTypes, SavedTypes
<1>2. ASSUME NEW u \in User, NEW r \in Request, SetAll(u, r) PROVE SettingTypes' /\ SavedTypes'
  <2>1. UNCHANGED <<m_values, content, saving, saves, open>>
    BY <1>2 DEF SetAll, diskVars, ghostVars
  <2>. QED
    BY <1>2, <2>1, SetAllTyped DEF SettingTypes, SavedTypes
<1>3. ASSUME NEW u \in User, NEW r \in Request, SetSome(u, r) PROVE SettingTypes' /\ SavedTypes'
  <2>1. params' \in [Setting -> Value] /\ m_values' \in Partial(Setting \cup Own)
    BY <1>3, SetSomeTyped
  <2>2. saves < MaxSaves /\ Saving(u, m_values') /\ UNCHANGED content /\ running' = "yes"
    BY <1>3 DEF SetSome, diskVars
  <2>3. PICK values : values = m_values'
    OBVIOUS
  <2>4. Saving(u, values) /\ values \in Partial(Setting \cup Own)
    BY <2>1, <2>2, <2>3
  <2>5. SavedTypes' /\ saves' \in Nat /\ saves' <= MaxSaves /\ open' <= saves'
    BY <2>2, <2>4, SavingTyped
  <2>. QED
    BY <2>1, <2>2, <2>5 DEF SettingTypes
<1>4. ASSUME NEW u \in User, SaveAtExit(u) PROVE SettingTypes' /\ SavedTypes'
  <2>1. saves < MaxSaves /\ Saving(u, m_values) /\ UNCHANGED <<content, running, params, m_values>>
    BY <1>4 DEF SaveAtExit, diskVars
  <2>2. m_values \in Partial(Setting \cup Own)
    BY DEF SettingTypes
  <2>3. SavedTypes' /\ saves' \in Nat /\ saves' <= MaxSaves /\ open' <= saves'
    BY <2>1, <2>2, SavingTyped
  <2>. QED
    BY <2>1, <2>3 DEF SettingTypes
<1>5. CASE StartProgram
  <2>1. running' = "fresh" /\ UNCHANGED <<content, saving, saves, open>>
    BY <1>5 DEF StartProgram, diskVars, ghostVars
  <2>. QED
    BY <1>5, <2>1, StartTyped DEF SettingTypes, SavedTypes
<1>6. CASE Stops
  <2>1. running' = "no" /\ UNCHANGED <<params, m_values, content, saves, open>> /\ saving' = [u \in User |-> NotSaving]
    BY <1>6 DEF Stops, diskVars, ghostVars
  <2>2. \A u \in User : saving'[u] = NotSaving
    BY <2>1
  <2>. QED
    BY <2>1, <2>2, NotSavingTyped DEF SettingTypes, SavedTypes
<1>7. CASE SettingsNext
  BY <1>2, <1>3, <1>4, <1>5, <1>6, <1>7, SaveStepsTyped DEF SettingsNext
<1>. QED
  BY <1>1, <1>7 DEF Next, servicesVars, OfAutoLoad, OfFileRequests

\* The first settings have values.
LEMMA SettingsBegin == Init => SettingTypes /\ SavedTypes
<1>. SUFFICES ASSUME SettingsInit PROVE SettingTypes /\ SavedTypes
  BY DEF Init
<1>1. SettingTypes
  <2>1. m_values = <<>> /\ saves = 0 /\ open = 0 /\ running = "fresh" /\ params = [s \in Setting |-> Default]
    BY DEF SettingsInit
  <2>2. m_values \in Partial(Setting \cup Own)
    BY <2>1, NothingMapped
  <2>3. MaxSaves \in Nat /\ Default \in Value
    BY SettingsAssumption
  <2>. QED
    BY <2>1, <2>2, <2>3 DEF SettingTypes
<1>2. (\A u \in User : saving[u] = NotSaving) /\ \A i \in Inode : content[i] = Cut
  BY DEF SettingsInit
<1>. QED
  BY <1>1, <1>2, NotSavingTyped, CutTyped DEF SavedTypes

\* The state of the settings has its type.
LEMMA SettingsAreTyped == SaveInv /\ SettingTypes /\ SavedTypes => SettingsTypeOK
<1>. SUFFICES ASSUME SaveInv, SettingTypes, SavedTypes PROVE SettingsTypeOK
  OBVIOUS
<1>1. MaxSaves \in Nat
  BY SettingsAssumption
<1>2. saves \in 0..MaxSaves
  BY <1>1 DEF SettingTypes
<1>3. open \in 0..saves
  BY DEF SettingTypes, SaveInv, SaveTypes
<1>4. Inode \cup {0} = 0..MaxSaves
  BY <1>1 DEF Inode
<1>5. named \in [{"settings", "backup"} -> 0..MaxSaves]
  BY <1>4 DEF SaveInv, DiskTypes
<1>. QED
  BY <1>2, <1>3, <1>5 DEF SettingsTypeOK, SettingTypes, SavedTypes, SaveInv, DiskTypes, SaveTypes

-----------------------------------------------------------------------------
(* SessionStats                                                            *)

Update == [metric: Metric, value: {0, 1}]
StatsResponse == [frame: Nat, updates: SUBSET Update]

StatsTypes ==
  /\ counters \in [Metric -> {0, 1}]
  /\ m_stats_frame \in Nat
  /\ m_stats \in [Metric -> [value: {0, 1}, frame: Nat]]
  /\ _stats_frame \in [Page -> Nat]
  /\ shown \in [Page -> [Metric -> {0, 1}]]
  /\ requests \in [Page -> Seq(Nat)]
  /\ responses \in [Page -> Seq(StatsResponse)]

\* A response to page p: what did not change since it was made is in it with its
\* value, unless the page shows it already.
Covers(p, r) ==
  \A s \in StatsOf[p] :
    m_stats[s].frame <= r.frame =>
      /\ \A u \in r.updates : u.metric = s => u.value = m_stats[s].value
      /\ (\A u \in r.updates : u.metric # s) => m_stats[s].frame <= _stats_frame[p]

\* It is no earlier than the page, and not from the future.
Fits(p, r) == _stats_frame[p] <= r.frame /\ r.frame <= m_stats_frame /\ Covers(p, r)

FramesRise(t) == \A i, j \in DOMAIN t : j < i => t[j].frame <= t[i].frame

\* The frames of a page: what it asks with is no later than the one it has, and
\* what it is sent is no earlier, and in order.
StatsPage(p) ==
  /\ \A i \in DOMAIN requests[p] : requests[p][i] <= _stats_frame[p]
  /\ _stats_frame[p] <= m_stats_frame
  /\ \A i \in DOMAIN responses[p] : Fits(p, responses[p][i])
  /\ FramesRise(responses[p])
  /\ \A s \in StatsOf[p] :
       m_stats[s].frame <= _stats_frame[p] => shown[p][s] = m_stats[s].value

StatsInv ==
  /\ StatsTypes
  /\ \A s \in Metric : m_stats[s].frame <= m_stats_frame
  /\ \A p \in Page : StatsPage(p)

\* A response is made of everything that changed since the frame of the request.
LEMMA AnswerCovers ==
  ASSUME StatsInv, NEW p \in Page, NEW f \in Nat, f <= _stats_frame[p]
  PROVE  /\ Answer(StatsOf[p], f) \in StatsResponse
         /\ Answer(StatsOf[p], f).frame = m_stats_frame
         /\ Covers(p, Answer(StatsOf[p], f))
<1>. DEFINE U == {[metric |-> s, value |-> m_stats[s].value] : s \in {x \in StatsOf[p] : m_stats[x].frame > f}}
<1>1. StatsOf[p] \subseteq Metric
  BY SessionStatsAssumption
<1>2. Answer(StatsOf[p], f) = [frame |-> m_stats_frame, updates |-> U]
  BY DEF Answer
<1>3. U \subseteq Update
  BY <1>1 DEF StatsInv, StatsTypes, Update
<1>4. \A u \in U : u.metric \in StatsOf[p] /\ u.value = m_stats[u.metric].value
  OBVIOUS
<1>5. ASSUME NEW s \in StatsOf[p], \A u \in U : u.metric # s PROVE m_stats[s].frame <= _stats_frame[p]
  <2>1. ~(m_stats[s].frame > f)
    <3>1. m_stats[s].frame > f => [metric |-> s, value |-> m_stats[s].value] \in U
      OBVIOUS
    <3>. QED
      BY <1>5, <3>1
  <2>2. m_stats[s].frame \in Nat /\ _stats_frame[p] \in Nat
    BY <1>1 DEF StatsInv, StatsTypes
  <2>. QED
    BY <2>1, <2>2
<1>. HIDE DEF U
<1>. QED
  BY <1>2, <1>3, <1>4, <1>5 DEF StatsInv, StatsTypes, StatsResponse, Covers

\* Steps that change no counter that is kept, and nothing of a page.
LEMMA StatsSame ==
  ASSUME StatsInv, NEW p \in Page,
         m_stats' = m_stats, m_stats_frame' = m_stats_frame, _stats_frame'[p] = _stats_frame[p],
         shown'[p] = shown[p], requests'[p] = requests[p], responses'[p] = responses[p]
  PROVE  StatsPage(p)'
BY DEF StatsInv, StatsPage, Fits, Covers

\* A stats_alert stamps what it changed with the frame it moves to: every page is still
\* to be told of it.
LEMMA StatsPostedKept ==
  ASSUME StatsInv, StatsPosted
  PROVE  StatsInv'
<1>1. StatsTypes'
  BY DEF StatsInv, StatsTypes, StatsPosted, StampedWith
<1>2. m_stats_frame' = m_stats_frame + 1 /\ m_stats_frame \in Nat
      /\ UNCHANGED <<_stats_frame, shown, requests, responses>>
  BY DEF StatsPosted, StatsInv, StatsTypes
<1>3. ASSUME NEW s \in Metric
      PROVE  m_stats'[s] = m_stats[s] \/ m_stats'[s].frame = m_stats_frame + 1
  BY DEF StatsPosted, StampedWith
<1>4. \A s \in Metric : m_stats'[s].frame <= m_stats_frame'
  <2>1. ASSUME NEW s \in Metric PROVE m_stats'[s].frame <= m_stats_frame'
    <3>1. m_stats[s].frame \in Nat /\ m_stats[s].frame <= m_stats_frame
      BY DEF StatsInv, StatsTypes
    <3>. QED
      BY <1>2, <1>3, <3>1
  <2>. QED
    BY <2>1
<1>5. ASSUME NEW p \in Page PROVE StatsPage(p)'
  <2>1. StatsPage(p)
    BY DEF StatsInv
  <2>2. StatsOf[p] \subseteq Metric /\ _stats_frame[p] \in Nat /\ responses[p] \in Seq(StatsResponse)
    BY SessionStatsAssumption DEF StatsInv, StatsTypes
  <2>3. ASSUME NEW s \in StatsOf[p], NEW f \in Nat, f <= m_stats_frame, m_stats'[s].frame <= f
        PROVE  m_stats'[s] = m_stats[s]
    BY <1>2, <1>3, <2>2, <2>3
  <2>4. \A s \in StatsOf[p] : m_stats'[s].frame <= _stats_frame'[p] => shown'[p][s] = m_stats'[s].value
    BY <1>2, <2>1, <2>2, <2>3 DEF StatsPage
  <2>5. ASSUME NEW i \in DOMAIN responses[p] PROVE Fits(p, responses[p][i])'
    <3>1. PICK r \in StatsResponse : r = responses[p][i]
      BY <2>2
    <3>2. r.frame \in Nat /\ r.frame <= m_stats_frame /\ Fits(p, r)
      BY <2>1, <3>1 DEF StatsPage, StatsResponse, Fits
    <3>3. Fits(p, r)'
      BY <1>2, <2>3, <3>2 DEF Covers, Fits
    <3>. QED
      BY <1>2, <3>1, <3>3
  <2>. QED
    BY <1>2, <2>1, <2>2, <2>4, <2>5 DEF StatsPage, FramesRise
<1>. QED
  BY <1>1, <1>4, <1>5 DEF StatsInv

\* A page asks with the frame it has.
LEMMA CallStatsKept ==
  ASSUME StatsInv, NEW p \in Page, CallStats(p)
  PROVE  StatsInv'
<1>1. PICK f \in Nat : f = _stats_frame[p]
  BY DEF StatsInv, StatsTypes
<1>2. PICK q \in Seq(Nat) : q = requests[p]
  BY DEF StatsInv, StatsTypes
<1>3. /\ Append(q, f) \in Seq(Nat)
      /\ \A i \in DOMAIN Append(q, f) : Append(q, f)[i] = f \/ (i \in DOMAIN q /\ Append(q, f)[i] = q[i])
  BY AppendProperties
<1>4. requests' = [requests EXCEPT ![p] = Append(q, f)]
      /\ UNCHANGED <<counters, m_stats, m_stats_frame, _stats_frame, shown, responses>>
  BY <1>1, <1>2 DEF CallStats, StatsInv, StatsTypes
<1>5. StatsTypes'
  BY <1>3, <1>4 DEF StatsInv, StatsTypes
<1>6. ASSUME NEW o \in Page PROVE StatsPage(o)'
  <2>1. CASE o # p
    <3>1. requests'[o] = requests[o]
      BY <1>4, <2>1 DEF StatsInv, StatsTypes
    <3>. QED
      BY <1>4, <3>1, StatsSame
  <2>2. CASE o = p
    <3>1. requests'[o] = Append(q, f)
      BY <1>4, <2>2 DEF StatsInv, StatsTypes
    <3>2. \A i \in DOMAIN requests'[o] : requests'[o][i] <= _stats_frame'[o]
      BY <1>1, <1>2, <1>3, <1>4, <2>2, <3>1 DEF StatsInv, StatsPage
    <3>. QED
      BY <1>4, <3>2 DEF StatsInv, StatsPage, Fits, Covers
  <2>. QED
    BY <2>1, <2>2
<1>. QED
  BY <1>4, <1>5, <1>6 DEF StatsInv

\* An answer is behind those that were made before.
LEMMA GetStatsKept ==
  ASSUME StatsInv, NEW p \in Page, GetStats(p)
  PROVE  StatsInv'
<1>1. PICK q \in Seq(Nat) : q = requests[p]
  BY DEF StatsInv, StatsTypes
<1>2. PICK t \in Seq(StatsResponse) : t = responses[p]
  BY DEF StatsInv, StatsTypes
<1>3. q # <<>> /\ Head(q) = q[1] /\ 1 \in DOMAIN q /\ Tail(q) \in Seq(Nat)
      /\ \A i \in DOMAIN Tail(q) : i + 1 \in DOMAIN q /\ Tail(q)[i] = q[i + 1]
  BY <1>1, HeadTailProperties DEF GetStats
<1>4. Head(q) \in Nat /\ Head(q) <= _stats_frame[p]
  BY <1>1, <1>3 DEF StatsInv, StatsPage
<1>5. PICK r : r = Answer(StatsOf[p], Head(q))
  OBVIOUS
<1>6. r \in StatsResponse /\ r.frame = m_stats_frame /\ Covers(p, r)
  BY <1>4, <1>5, AnswerCovers
<1>7. /\ Append(t, r) \in Seq(StatsResponse)
      /\ Len(Append(t, r)) = Len(t) + 1 /\ Len(t) \in Nat
      /\ \A i \in DOMAIN Append(t, r) :
           (i \in DOMAIN t /\ Append(t, r)[i] = t[i]) \/ (i = Len(t) + 1 /\ Append(t, r)[i] = r)
  BY <1>6, AppendProperties, LenProperties
<1>8. /\ requests' = [requests EXCEPT ![p] = Tail(q)]
      /\ responses' = [responses EXCEPT ![p] = Append(t, r)]
      /\ UNCHANGED <<counters, m_stats, m_stats_frame, _stats_frame, shown>>
  BY <1>1, <1>2, <1>5 DEF GetStats, StatsInv, StatsTypes
<1>9. StatsTypes'
  BY <1>3, <1>7, <1>8 DEF StatsInv, StatsTypes
<1>10. ASSUME NEW o \in Page PROVE StatsPage(o)'
  <2>1. CASE o # p
    <3>1. requests'[o] = requests[o] /\ responses'[o] = responses[o]
      BY <1>8, <2>1 DEF StatsInv, StatsTypes
    <3>. QED
      BY <1>8, <3>1, StatsSame
  <2>2. CASE o = p
    <3>1. requests'[o] = Tail(q) /\ responses'[o] = Append(t, r)
      BY <1>8, <2>2 DEF StatsInv, StatsTypes
    <3>2. StatsPage(p)
      BY DEF StatsInv
    <3>3. \A i \in DOMAIN requests'[o] : requests'[o][i] <= _stats_frame'[o]
      BY <1>1, <1>3, <1>8, <2>2, <3>1, <3>2 DEF StatsPage
    <3>4. \A i \in DOMAIN t : Fits(p, t[i])
      BY <1>2, <3>2 DEF StatsPage
    <3>5. \A u : Fits(p, u) => Fits(o, u)'
      BY <1>8, <2>2 DEF Fits, Covers
    <3>6. Fits(p, r)
      BY <1>6, <3>2 DEF StatsInv, StatsTypes, StatsPage, Fits
    <3>7. ASSUME NEW i \in DOMAIN responses'[o] PROVE Fits(o, responses[o][i])'
      <4>1. PICK u : u = Append(t, r)[i]
        OBVIOUS
      <4>2. Fits(p, u)
        BY <1>7, <3>1, <3>4, <3>6, <4>1
      <4>. QED
        BY <3>1, <3>5, <4>1, <4>2
    <3>8. ASSUME NEW i \in DOMAIN responses'[o], NEW j \in DOMAIN responses'[o], j < i
          PROVE  responses'[o][j].frame <= responses'[o][i].frame
      <4>1. DOMAIN t = 1..Len(t) /\ DOMAIN Append(t, r) = 1..(Len(t) + 1)
        BY <1>7
      <4>2. j \in DOMAIN t /\ responses'[o][j] = t[j]
        BY <1>7, <3>1, <3>8, <4>1
      <4>3. CASE i \in DOMAIN t
        BY <1>2, <1>7, <3>1, <3>2, <3>8, <4>1, <4>2, <4>3 DEF StatsPage, FramesRise
      <4>4. CASE i = Len(t) + 1
        BY <1>6, <1>7, <3>1, <3>4, <4>1, <4>2, <4>4 DEF Fits
      <4>. QED
        BY <1>7, <3>1, <4>1, <4>3, <4>4
    <3>. QED
      BY <1>8, <2>2, <3>2, <3>3, <3>7, <3>8 DEF StatsPage, FramesRise
  <2>. QED
    BY <2>1, <2>2
<1>. QED
  BY <1>8, <1>9, <1>10 DEF StatsInv

\* The page shows what the response has, and what it showed before of the others.
LEMMA OnStatsKept ==
  ASSUME StatsInv, NEW p \in Page, OnStats(p)
  PROVE  StatsInv'
<1>1. PICK t \in Seq(StatsResponse) : t = responses[p]
  BY DEF StatsInv, StatsTypes
<1>2. t # <<>> /\ Head(t) = t[1] /\ 1 \in DOMAIN t /\ Tail(t) \in Seq(StatsResponse)
      /\ \A i \in DOMAIN Tail(t) : i \in Nat /\ i >= 1 /\ i + 1 \in DOMAIN t /\ Tail(t)[i] = t[i + 1]
  BY <1>1, HeadTailProperties DEF OnStats
<1>3. PICK r \in StatsResponse : r = Head(t)
  BY <1>2
<1>4. PICK v : v = [s \in Metric |-> IF \E u \in r.updates : u.metric = s
                                    THEN (CHOOSE u \in r.updates : u.metric = s).value ELSE shown[p][s]]
  OBVIOUS
<1>5. v \in [Metric -> {0, 1}]
  <2>1. ASSUME NEW s \in Metric PROVE v[s] \in {0, 1}
    <3>1. CASE \E u \in r.updates : u.metric = s
      <4>1. PICK u \in r.updates : u = CHOOSE x \in r.updates : x.metric = s
        BY <3>1
      <4>2. u \in Update
        BY <4>1 DEF StatsResponse
      <4>. QED
        BY <1>4, <3>1, <4>1, <4>2 DEF Update
    <3>2. CASE ~\E u \in r.updates : u.metric = s
      BY <1>4, <3>2 DEF StatsInv, StatsTypes
    <3>. QED
      BY <3>1, <3>2
  <2>. QED
    BY <1>4, <2>1
<1>6. /\ _stats_frame' = [_stats_frame EXCEPT ![p] = r.frame]
      /\ shown' = [shown EXCEPT ![p] = v]
      /\ responses' = [responses EXCEPT ![p] = Tail(t)]
      /\ UNCHANGED <<counters, m_stats, m_stats_frame, requests>>
  BY <1>1, <1>3, <1>4 DEF OnStats, StatsInv, StatsTypes
<1>7. r.frame \in Nat
  BY DEF StatsResponse
<1>8. StatsTypes'
  BY <1>2, <1>5, <1>6, <1>7 DEF StatsInv, StatsTypes
<1>9. StatsPage(p) /\ Covers(p, r) /\ _stats_frame[p] <= r.frame /\ r.frame <= m_stats_frame
      /\ _stats_frame[p] \in Nat /\ StatsOf[p] \subseteq Metric
  BY <1>1, <1>2, <1>3, SessionStatsAssumption DEF StatsInv, StatsTypes, StatsPage, Fits
<1>10. ASSUME NEW s \in StatsOf[p], m_stats[s].frame <= r.frame PROVE v[s] = m_stats[s].value
  <2>1. CASE \E u \in r.updates : u.metric = s
    <3>1. PICK u \in r.updates : u = (CHOOSE x \in r.updates : x.metric = s) /\ u.metric = s
      BY <2>1
    <3>. QED
      BY <1>4, <1>9, <1>10, <2>1, <3>1 DEF Covers
  <2>2. CASE ~\E u \in r.updates : u.metric = s
    BY <1>4, <1>9, <1>10, <2>2 DEF Covers, StatsPage
  <2>. QED
    BY <2>1, <2>2
<1>11. ASSUME NEW o \in Page PROVE StatsPage(o)'
  <2>1. CASE o # p
    <3>1. _stats_frame'[o] = _stats_frame[o] /\ shown'[o] = shown[o] /\ responses'[o] = responses[o]
      BY <1>6, <2>1 DEF StatsInv, StatsTypes
    <3>. QED
      BY <1>6, <3>1, StatsSame
  <2>2. CASE o = p
    <3>1. _stats_frame'[o] = r.frame /\ shown'[o] = v /\ responses'[o] = Tail(t)
      BY <1>6, <2>2 DEF StatsInv, StatsTypes
    <3>2. \A i \in DOMAIN requests'[o] : requests'[o][i] <= _stats_frame'[o]
      <4>1. requests[p] \in Seq(Nat) /\ requests' = requests
        BY <1>6 DEF StatsInv, StatsTypes
      <4>2. PICK q, a, b : q = requests[p] /\ a = _stats_frame[p] /\ b = r.frame
        OBVIOUS
      <4>3. a \in Nat /\ b \in Nat /\ a <= b /\ \A i \in DOMAIN q : q[i] \in Nat /\ q[i] <= a
        BY <1>7, <1>9, <4>1, <4>2 DEF StatsPage
      <4>4. \A i \in DOMAIN q : q[i] <= b
        BY <4>3
      <4>. QED
        BY <2>2, <3>1, <4>1, <4>2, <4>4
    <3>3. ASSUME NEW u, Fits(p, u), r.frame <= u.frame PROVE Fits(o, u)'
      <4>1. \A s \in StatsOf[p] : m_stats[s].frame \in Nat
        BY <1>9 DEF StatsInv, StatsTypes
      <4>. QED
        BY <1>6, <1>7, <1>9, <2>2, <3>1, <3>3, <4>1 DEF Fits, Covers
    <3>4. (\A i \in DOMAIN t : Fits(p, t[i])) /\ FramesRise(t)
      BY <1>1, <1>9 DEF StatsPage
    <3>5. ASSUME NEW i \in DOMAIN responses'[o] PROVE Fits(o, responses[o][i])'
      <4>1. i \in Nat /\ i >= 1 /\ i + 1 \in DOMAIN t /\ responses'[o][i] = t[i + 1]
        BY <1>2, <3>1
      <4>2. PICK u, k : u = t[k] /\ k = i + 1
        OBVIOUS
      <4>3. k \in DOMAIN t /\ 1 < k /\ responses'[o][i] = u
        BY <4>1, <4>2
      <4>4. t[1].frame <= t[k].frame /\ Fits(p, t[k])
        BY <1>2, <3>4, <4>3 DEF FramesRise
      <4>. QED
        BY <1>2, <1>3, <3>3, <4>2, <4>3, <4>4
    <3>6. ASSUME NEW i \in DOMAIN responses'[o], NEW j \in DOMAIN responses'[o], j < i
          PROVE  responses'[o][j].frame <= responses'[o][i].frame
      <4>1. PICK k, l : k = i + 1 /\ l = j + 1
        OBVIOUS
      <4>2. k \in DOMAIN t /\ l \in DOMAIN t /\ l < k /\ responses'[o][i] = t[k] /\ responses'[o][j] = t[l]
        BY <1>2, <3>1, <3>6, <4>1
      <4>. QED
        BY <3>4, <4>2 DEF FramesRise
    <3>7. \A s \in StatsOf[o] :
            m_stats'[s].frame <= _stats_frame'[o] => shown'[o][s] = m_stats'[s].value
      BY <1>6, <1>10, <2>2, <3>1
    <3>8. _stats_frame'[o] <= m_stats_frame'
      BY <1>6, <1>9, <3>1
    <3>. QED
      BY <3>2, <3>5, <3>6, <3>7, <3>8 DEF StatsPage, FramesRise
  <2>. QED
    BY <2>1, <2>2
<1>. QED
  BY <1>6, <1>8, <1>11 DEF StatsInv

\* What the pages were told, and what is under way to them, fits the counters of the frame.
THEOREM StatsInvariant == Spec => []StatsInv
<1>1. Init => StatsInv
  <2>. SUFFICES ASSUME Init PROVE StatsInv
    OBVIOUS
  <2>1. <<>> \in Seq(Nat) /\ <<>> \in Seq(StatsResponse) /\ DOMAIN <<>> = {}
    OBVIOUS
  <2>. QED
    BY <2>1, SessionStatsAssumption
       DEF Init, SessionStatsInit, StatsInv, StatsTypes, StatsPage, FramesRise
<1>2. StatsInv /\ [Next]_servicesVars => StatsInv'
  <2>1. ASSUME StatsInv, UNCHANGED statsVars PROVE StatsInv'
    BY <2>1 DEF statsVars, StatsInv, StatsTypes, StatsPage, Fits, Covers
  <2>2. ASSUME StatsInv, NEW s \in Metric, Counts(s) PROVE StatsInv'
    <3>1. counters' \in [Metric -> {0, 1}]
      <4>1. PICK x \in {0, 1} : x = counters[s]
        BY <2>2 DEF StatsInv, StatsTypes
      <4>2. 1 - x \in {0, 1}
        BY <4>1
      <4>. QED
        BY <2>2, <4>1, <4>2 DEF Counts, StatsInv, StatsTypes
    <3>2. UNCHANGED <<m_stats, m_stats_frame, _stats_frame, shown, requests, responses>>
      BY <2>2 DEF Counts
    <3>. QED
      BY <2>2, <3>1, <3>2, StatsSame DEF StatsInv, StatsTypes
  <2>3. StatsInv /\ SessionStatsNext => StatsInv'
    BY <2>2, StatsPostedKept, CallStatsKept, GetStatsKept, OnStatsKept DEF SessionStatsNext
  <2>. QED
    BY <2>1, <2>3 DEF Next, servicesVars, OfAutoLoad, OfFileRequests
<1>. QED
  BY <1>1, <1>2, PTL DEF Spec, Safety

\* A page that has a frame shows what every counter of its list was in it,
\* whatever calls, alerts and other pages come between the request and its
\* answer.
THEOREM CountersShown == Spec => []StatsShown
<1>1. StatsInv => StatsShown
  BY DEF StatsInv, StatsPage, StatsShown
<1>. QED
  BY <1>1, StatsInvariant, PTL

\* What is posted is counted, and a page has no more calls under way than it may.
StatsBounds ==
  /\ posting \in BOOLEAN
  /\ posts \in 0..MaxPosts /\ m_stats_frame = posts
  /\ \A p \in Page : Len(requests[p]) + Len(responses[p]) <= MaxAsked

\* Frames and requests stay within their bounds.
LEMMA StatsBounded == StatsInv /\ StatsBounds /\ [Next]_servicesVars => StatsBounds'
<1>. SUFFICES ASSUME StatsInv, StatsBounds, [Next]_servicesVars PROVE StatsBounds'
  OBVIOUS
<1>1. MaxPosts \in Nat /\ MaxAsked \in Nat
  BY SessionStatsAssumption
<1>2. ASSUME NEW p \in Page PROVE requests[p] \in Seq(Nat) /\ responses[p] \in Seq(StatsResponse)
  BY DEF StatsInv, StatsTypes
<1>9. ASSUME NEW p \in Page PROVE Len(requests[p]) \in Nat /\ Len(responses[p]) \in Nat
  BY <1>2
<1>3. CASE UNCHANGED statsVars
  BY <1>3 DEF statsVars, StatsBounds
<1>4. ASSUME NEW s \in Metric, Counts(s) PROVE StatsBounds'
  BY <1>4 DEF Counts, StatsBounds
<1>5. ASSUME StatsPosted PROVE StatsBounds'
  <2>1. /\ posting' = FALSE /\ posts < MaxPosts /\ posts' = posts + 1 /\ m_stats_frame' = m_stats_frame + 1
        /\ UNCHANGED <<requests, responses>>
    BY <1>5 DEF StatsPosted
  <2>2. posts' \in 0..MaxPosts
    BY <1>1, <2>1 DEF StatsBounds
  <2>. QED
    BY <2>1, <2>2 DEF StatsBounds
<1>6. ASSUME NEW p \in Page, CallStats(p) PROVE StatsBounds'
  <2>1. /\ Len(requests[p]) + Len(responses[p]) < MaxAsked
        /\ requests' = [requests EXCEPT ![p] = Append(@, _stats_frame[p])]
        /\ UNCHANGED <<posting, posts, m_stats_frame, responses>>
    BY <1>6 DEF CallStats
  <2>2. ASSUME NEW q \in Page PROVE Len(requests'[q]) + Len(responses'[q]) <= MaxAsked
    <3>1. CASE q = p
      <4>1. requests'[p] = Append(requests[p], _stats_frame[p]) /\ _stats_frame[p] \in Nat
        BY <2>1 DEF StatsInv, StatsTypes
      <4>2. Len(requests'[p]) = Len(requests[p]) + 1
        BY <1>2, <4>1, AppendProperties
      <4>3. PICK a, b \in Nat : a = Len(requests[p]) /\ b = Len(responses[p])
        BY <1>9
      <4>4. PICK m \in Nat : m = MaxAsked
        BY <1>1
      <4>5. a + b < m /\ responses'[p] = responses[p]
        BY <2>1, <4>3, <4>4
      <4>6. (a + 1) + b <= m
        BY <4>5
      <4>. QED
        BY <3>1, <4>1, <4>2, <4>3, <4>4, <4>5, <4>6
    <3>2. CASE q # p
      BY <2>1, <3>2 DEF StatsBounds, StatsInv, StatsTypes
    <3>. QED
      BY <3>1, <3>2
  <2>. QED
    BY <2>1, <2>2 DEF StatsBounds
<1>7. ASSUME NEW p \in Page, GetStats(p) PROVE StatsBounds'
  <2>1. PICK r : /\ requests[p] # <<>> /\ requests' = [requests EXCEPT ![p] = Tail(@)]
                 /\ posting' = TRUE
                 /\ responses' = [responses EXCEPT ![p] = Append(@, r)]
                 /\ r = Answer(StatsOf[p], Head(requests[p]))
                 /\ UNCHANGED <<posts, m_stats_frame>>
    BY <1>7 DEF GetStats
  <2>2. ASSUME NEW q \in Page PROVE Len(requests'[q]) + Len(responses'[q]) <= MaxAsked
    <3>1. CASE q = p
      <4>1. requests'[p] = Tail(requests[p]) /\ responses'[p] = Append(responses[p], r)
        BY <2>1 DEF StatsInv, StatsTypes
      <4>2. Len(Tail(requests[p])) = Len(requests[p]) - 1
        BY <1>2, <2>1, HeadTailProperties
      <4>3. responses[p] \in Seq(StatsResponse \cup {r})
        BY <1>2
      <4>4. Len(Append(responses[p], r)) = Len(responses[p]) + 1
        BY <4>3, AppendProperties
      <4>5. PICK a, b \in Nat : a = Len(requests[p]) /\ b = Len(responses[p])
        BY <1>9
      <4>6. PICK m \in Nat : m = MaxAsked
        BY <1>1
      <4>7. a + b <= m
        BY <4>5, <4>6 DEF StatsBounds
      <4>8. (a - 1) + (b + 1) <= m
        BY <4>7
      <4>. QED
        BY <3>1, <4>1, <4>2, <4>4, <4>5, <4>6, <4>8
    <3>2. CASE q # p
      BY <2>1, <3>2 DEF StatsBounds, StatsInv, StatsTypes
    <3>. QED
      BY <3>1, <3>2
  <2>. QED
    BY <2>1, <2>2 DEF StatsBounds
<1>8. ASSUME NEW p \in Page, OnStats(p) PROVE StatsBounds'
  <2>1. /\ responses[p] # <<>> /\ responses' = [responses EXCEPT ![p] = Tail(@)]
        /\ UNCHANGED <<posting, posts, m_stats_frame, requests>>
    BY <1>8 DEF OnStats
  <2>2. ASSUME NEW q \in Page PROVE Len(requests'[q]) + Len(responses'[q]) <= MaxAsked
    <3>1. CASE q = p
      <4>1. responses'[p] = Tail(responses[p])
        BY <2>1 DEF StatsInv, StatsTypes
      <4>2. Len(Tail(responses[p])) = Len(responses[p]) - 1
        BY <1>2, <2>1, HeadTailProperties
      <4>3. PICK a, b \in Nat : a = Len(requests[p]) /\ b = Len(responses[p])
        BY <1>9
      <4>4. PICK m \in Nat : m = MaxAsked
        BY <1>1
      <4>5. a + b <= m /\ requests'[p] = requests[p]
        BY <2>1, <4>3, <4>4 DEF StatsBounds
      <4>6. a + (b - 1) <= m
        BY <4>5
      <4>. QED
        BY <3>1, <4>1, <4>2, <4>3, <4>4, <4>5, <4>6
    <3>2. CASE q # p
      BY <2>1, <3>2 DEF StatsBounds, StatsInv, StatsTypes
    <3>. QED
      BY <3>1, <3>2
  <2>. QED
    BY <2>1, <2>2 DEF StatsBounds
<1>10. CASE SessionStatsNext
  BY <1>4, <1>5, <1>6, <1>7, <1>8, <1>10 DEF SessionStatsNext
<1>. QED
  BY <1>3, <1>10 DEF Next, servicesVars, OfAutoLoad, OfFileRequests

\* The state of the counters has its type.
LEMMA StatsAreTyped == StatsInv /\ StatsBounds => SessionStatsTypeOK
<1>. SUFFICES ASSUME StatsInv, StatsBounds PROVE SessionStatsTypeOK
  OBVIOUS
<1>1. m_stats_frame \in 0..MaxPosts
  BY DEF StatsBounds
<1>2. m_stats \in [Metric -> [value : {0, 1}, frame : 0..m_stats_frame]]
  <2>1. ASSUME NEW s \in Metric PROVE m_stats[s] \in [value : {0, 1}, frame : 0..m_stats_frame]
    <3>1. m_stats[s] \in [value : {0, 1}, frame : Nat] /\ m_stats[s].frame <= m_stats_frame /\ m_stats_frame \in Nat
      BY DEF StatsInv, StatsTypes
    <3>. QED
      BY <3>1
  <2>. QED
    BY <2>1 DEF StatsInv, StatsTypes
<1>3. _stats_frame \in [Page -> 0..m_stats_frame]
  <2>1. ASSUME NEW p \in Page PROVE _stats_frame[p] \in 0..m_stats_frame
    BY DEF StatsInv, StatsTypes, StatsPage
  <2>. QED
    BY <2>1 DEF StatsInv, StatsTypes
<1>. QED
  BY <1>1, <1>2, <1>3 DEF StatsInv, StatsTypes, StatsBounds, SessionStatsTypeOK

-----------------------------------------------------------------------------
(* FileRequests                                                            *)

RequestTypes ==
  /\ asked \in Seq(Piece) /\ asking \in [Asked -> {"read", "done"}]
  /\ m_requests \subseteq Asked
  /\ m_have_pieces \subseteq Piece
  /\ finishing \in [step: {"no", "insert", "find", "read"}, piece: Piece \cup {0}]
  /\ finishing.step # "no" => finishing.piece \in Piece
  /\ reads \in [Piece -> Nat]

\* Somebody is going to read piece p: libtorrent, one who asked for it, or the
\* alert that it is finished.
WillRead(p) ==
  \/ reads[p] > 0
  \/ \E q \in Asked : asked[q] = p /\ asking[q] # "done"
  \/ finishing.step # "no" /\ finishing.piece = p

\* It is read for each request whose piece is there.
ReadInv == RequestTypes /\ \A r \in m_requests : asked[r] \in m_have_pieces => WillRead(asked[r])

\* A request for a piece is asked for once, and is outstanding until its piece is read.
LEMMA ReadPieceKept ==
  ASSUME ReadInv, NEW p \in Piece, ReadPiece(p)
  PROVE  ReadInv'
<1>1. PICK a \in Seq(Piece), n \in Nat : a = asked /\ n = Len(a) + 1
  BY DEF ReadInv, RequestTypes
<1>2. /\ asked' \in Seq(Piece) /\ Len(asked') = n
      /\ \A i \in 1..Len(a) : asked'[i] = a[i]
      /\ asked'[n] = p /\ Len(a) \in Nat
  BY <1>1, AppendProperties DEF ReadPiece
<1>3. asking' = Append(asking, "read") /\ asking \in [1..Len(a) -> {"read", "done"}]
  BY <1>1 DEF ReadPiece, ReadInv, RequestTypes, Asked
<1>4. asking \in Seq({"read", "done"}) /\ Len(asking) = Len(a)
  <2>1. PICK k, l : k = asking /\ l = Len(a)
    OBVIOUS
  <2>2. l \in Nat /\ k \in [1..l -> {"read", "done"}]
    BY <1>2, <1>3, <2>1
  <2>3. k \in Seq({"read", "done"}) /\ Len(k) = l
    BY <2>2
  <2>. QED
    BY <2>1, <2>3
<1>5. /\ asking' \in [1..n -> {"read", "done"}] /\ asking'[n] = "read"
      /\ \A i \in 1..Len(a) : asking'[i] = asking[i]
  <2>1. "read" \in {"read", "done"}
    OBVIOUS
  <2>2. PICK k : k = asking
    OBVIOUS
  <2>3. /\ Append(k, "read") \in Seq({"read", "done"})
        /\ Len(Append(k, "read")) = Len(k) + 1
        /\ \A i \in 1..Len(k) : Append(k, "read")[i] = k[i]
        /\ Append(k, "read")[Len(k) + 1] = "read"
    BY <1>4, <2>1, <2>2, AppendProperties
  <2>4. PICK b : b = asking'
    OBVIOUS
  <2>5. /\ b \in Seq({"read", "done"}) /\ Len(b) = n
        /\ \A i \in 1..Len(a) : b[i] = asking[i]
        /\ b[n] = "read"
    BY <1>1, <1>3, <1>4, <2>2, <2>3, <2>4
  <2>6. b \in [1..n -> {"read", "done"}]
    BY <2>5
  <2>. QED
    BY <2>4, <2>5, <2>6
<1>6. /\ m_requests' = m_requests \cup {n} /\ m_requests \subseteq 1..Len(a)
      /\ UNCHANGED <<m_have_pieces, finishing, reads>>
  BY <1>1 DEF ReadPiece, ReadInv, RequestTypes, Asked
<1>7. RequestTypes'
  <2>1. Asked' = 1..n /\ m_requests' \subseteq 1..n
    <3>1. PICK k \in Nat : k = Len(a)
      BY <1>2
    <3>2. n = k + 1 /\ m_requests \subseteq 1..k
      BY <1>1, <1>6, <3>1
    <3>3. 1..k \subseteq 1..n /\ n \in 1..n
      BY <3>2
    <3>. QED
      BY <1>2, <1>6, <3>2, <3>3 DEF Asked
  <2>. QED
    BY <1>2, <1>5, <1>6, <2>1 DEF ReadInv, RequestTypes
<1>8. ASSUME NEW q \in Piece, WillRead(q) PROVE WillRead(q)'
  BY <1>1, <1>2, <1>5, <1>6, <1>8 DEF WillRead, Asked
<1>9. ASSUME NEW r \in m_requests', asked'[r] \in m_have_pieces' PROVE WillRead(asked[r])'
  <2>1. CASE r = n
    BY <1>1, <1>2, <1>5, <2>1 DEF WillRead, Asked
  <2>2. CASE r \in m_requests
    BY <1>1, <1>2, <1>6, <1>8, <1>9, <2>2 DEF ReadInv, RequestTypes
  <2>. QED
    BY <1>6, <1>9, <2>1, <2>2
<1>. QED
  BY <1>7, <1>9 DEF ReadInv

\* Who asked looks whether the piece is there.
LEMMA ReadNowKept ==
  ASSUME ReadInv, NEW r \in Asked, ReadNow(r)
  PROVE  ReadInv'
<1>1. PICK p \in Piece : p = asked[r]
  BY DEF ReadInv, RequestTypes, Asked
<1>2. asking' = [asking EXCEPT ![r] = "done"]
      /\ UNCHANGED <<asked, m_requests, m_have_pieces, finishing>>
  BY DEF ReadNow
<1>3. \/ reads' = [reads EXCEPT ![p] = @ + 1]
      \/ reads' = reads /\ (Inserting(p) \/ p \notin m_have_pieces)
  BY <1>1 DEF ReadNow
<1>4. RequestTypes'
  <2>1. reads' \in [Piece -> Nat]
    BY <1>3 DEF ReadInv, RequestTypes
  <2>2. asking' \in [Asked -> {"read", "done"}] /\ Asked' = Asked
    BY <1>2 DEF ReadInv, RequestTypes, Asked
  <2>. QED
    BY <1>2, <2>1, <2>2 DEF ReadInv, RequestTypes
<1>5. ASSUME NEW q \in Piece, q # p, WillRead(q) PROVE WillRead(q)'
  <2>1. reads'[q] = reads[q]
    BY <1>3, <1>5 DEF ReadInv, RequestTypes
  <2>2. \A i \in Asked : asked[i] = q => asking'[i] = asking[i]
    BY <1>1, <1>2, <1>5 DEF ReadInv, RequestTypes
  <2>. QED
    BY <1>2, <1>5, <2>1, <2>2 DEF WillRead, Asked
<1>6. p \in m_have_pieces => WillRead(p)'
  <2>1. CASE reads' = [reads EXCEPT ![p] = @ + 1]
    BY <2>1 DEF ReadInv, RequestTypes, WillRead
  <2>2. CASE Inserting(p)
    BY <1>2, <2>2 DEF Inserting, WillRead
  <2>. QED
    BY <1>3, <2>1, <2>2
<1>7. ASSUME NEW s \in m_requests PROVE asked[s] \in Piece
  BY DEF ReadInv, RequestTypes, Asked
<1>. QED
  BY <1>2, <1>4, <1>5, <1>6, <1>7 DEF ReadInv

\* Somebody is going to read each piece that is there and that is waited for.
THEOREM ReadsInvariant == Spec => []ReadInv
<1>1. Init => ReadInv
  <2>. SUFFICES ASSUME Init PROVE ReadInv
    OBVIOUS
  <2>1. <<>> \in Seq(Piece) /\ Len(<<>>) = 0 /\ DOMAIN <<>> = 1..0 /\ <<>> \in [1..0 -> {"read", "done"}]
    OBVIOUS
  <2>. QED
    BY <2>1 DEF Init, FileRequestsInit, ReadInv, RequestTypes, Asked, NoPiece
<1>2. ASSUME ReadInv, FileRequestsNext PROVE ReadInv'
  <2>1. ASSUME NEW p \in Piece, PieceFinished(p) PROVE ReadInv'
    <3>1. finishing' = [step |-> "insert", piece |-> p] /\ finishing.step = "no"
          /\ UNCHANGED <<m_requests, m_have_pieces, asked, asking, reads>>
      BY <2>1 DEF PieceFinished, NoPiece
    <3>2. RequestTypes'
      BY <1>2, <3>1 DEF ReadInv, RequestTypes, Asked
    <3>3. \A q : WillRead(q) => WillRead(q)'
      BY <3>1 DEF WillRead, Asked
    <3>. QED
      BY <1>2, <3>1, <3>2, <3>3 DEF ReadInv
  <2>2. CASE InsertPiece
    <3>1. /\ finishing.step = "insert" /\ finishing' = [finishing EXCEPT !.step = "find"]
          /\ m_have_pieces' = m_have_pieces \cup {finishing.piece}
          /\ UNCHANGED <<m_requests, asked, asking, reads>>
      BY <2>2 DEF InsertPiece
    <3>2. RequestTypes' /\ finishing'.step = "find" /\ finishing'.piece = finishing.piece
      BY <1>2, <3>1 DEF ReadInv, RequestTypes, Asked
    <3>3. \A q : WillRead(q) \/ q = finishing.piece => WillRead(q)'
      BY <3>1, <3>2 DEF WillRead, Asked
    <3>. QED
      BY <1>2, <3>1, <3>2, <3>3 DEF ReadInv
  <2>3. CASE FindRequests
    <3>1. /\ finishing.step = "find" /\ UNCHANGED <<m_requests, m_have_pieces, asked, asking, reads>>
          /\ finishing' = IF Nobody(finishing.piece) THEN NoPiece ELSE [finishing EXCEPT !.step = "read"]
      BY <2>3 DEF FindRequests
    <3>2. RequestTypes'
      BY <1>2, <3>1 DEF ReadInv, RequestTypes, Asked, NoPiece
    <3>3. CASE Nobody(finishing.piece)
      <4>1. ASSUME NEW r \in m_requests PROVE asked[r] # finishing.piece
        <5>1. asked[r] < finishing.piece /\ asked[r] \in Nat /\ finishing.piece \in Nat
          BY <1>2, <3>1, <3>3, FileRequestsAssumption DEF Nobody, ReadInv, RequestTypes, Asked
        <5>. QED
          BY <5>1
      <4>2. \A q : WillRead(q) /\ q # finishing.piece => WillRead(q)'
        BY <3>1 DEF WillRead, Asked
      <4>. QED
        BY <1>2, <3>1, <3>2, <4>1, <4>2 DEF ReadInv
    <3>4. CASE ~Nobody(finishing.piece)
      <4>1. finishing'.step = "read" /\ finishing'.piece = finishing.piece
        BY <1>2, <3>1, <3>4 DEF ReadInv, RequestTypes
      <4>2. \A q : WillRead(q) => WillRead(q)'
        BY <3>1, <4>1 DEF WillRead, Asked
      <4>. QED
        BY <1>2, <3>1, <3>2, <4>2 DEF ReadInv
    <3>. QED
      BY <3>3, <3>4
  <2>4. CASE ReadFinished
    <3>1. /\ finishing.step = "read" /\ UNCHANGED <<m_requests, m_have_pieces, asked, asking>>
          /\ reads' = [reads EXCEPT ![finishing.piece] = @ + 1] /\ finishing' = NoPiece
      BY <2>4 DEF ReadFinished
    <3>2. RequestTypes'
      BY <1>2, <3>1 DEF ReadInv, RequestTypes, Asked, NoPiece
    <3>3. ASSUME NEW q \in Piece, WillRead(q) PROVE WillRead(q)'
      BY <1>2, <3>1, <3>3 DEF WillRead, Asked, ReadInv, RequestTypes
    <3>4. \A r \in m_requests : asked[r] \in Piece
      BY <1>2 DEF ReadInv, RequestTypes, Asked
    <3>. QED
      BY <1>2, <3>1, <3>2, <3>3, <3>4 DEF ReadInv
  <2>5. ASSUME NEW p \in Piece, PieceRead(p) PROVE ReadInv'
    <3>1. /\ m_requests' = m_requests \ equal_range(p) /\ reads[p] > 0
          /\ reads' = [reads EXCEPT ![p] = @ - 1]
          /\ UNCHANGED <<m_have_pieces, asked, asking, finishing>>
      BY <2>5 DEF PieceRead
    <3>2. RequestTypes'
      <4>1. reads' \in [Piece -> Nat]
        BY <1>2, <3>1 DEF ReadInv, RequestTypes
      <4>. QED
        BY <1>2, <3>1, <4>1 DEF ReadInv, RequestTypes, Asked
    <3>3. ASSUME NEW q, q # p, WillRead(q) PROVE WillRead(q)'
      BY <1>2, <3>1, <3>3 DEF WillRead, Asked, ReadInv, RequestTypes
    <3>4. \A r \in m_requests' : r \in m_requests /\ asked[r] # p
      BY <3>1 DEF equal_range
    <3>. QED
      BY <1>2, <3>1, <3>2, <3>3, <3>4 DEF ReadInv
  <2>6. ASSUME m_requests' \subseteq m_requests, UNCHANGED <<m_have_pieces, asked, asking, finishing, reads>>
        PROVE  ReadInv'
    BY <1>2, <2>6 DEF ReadInv, RequestTypes, WillRead, Asked
  <2>7. CASE TorrentPaused \/ OnTick \/ \E r \in Asked : TimePasses(r)
    BY <2>6, <2>7 DEF TorrentPaused, OnTick, Ticked, TimePasses
  <2>. QED
    BY <1>2, <2>1, <2>2, <2>3, <2>4, <2>5, <2>7, ReadPieceKept, ReadNowKept
       DEF FileRequestsNext, AlertStep
<1>3. ReadInv /\ [Next]_servicesVars => ReadInv'
  <2>1. ReadInv /\ UNCHANGED requestVars => ReadInv'
    BY DEF requestVars, ReadInv, RequestTypes, WillRead, Asked
  <2>. QED
    BY <1>2, <2>1 DEF Next, servicesVars, OfAutoLoad, OfFileRequests
<1>. QED
  BY <1>1, <1>3, PTL DEF Spec, Safety

\* A request waits for what is read: it is not left with a piece that is there and
\* that nobody is going to read, also when it looks for the piece while the alert
\* inserts it.
THEOREM EveryRequestRead == Spec => []NoLostRead
<1>1. ReadInv => NoLostRead
  BY DEF ReadInv, WillRead, NoLostRead
<1>. QED
  BY <1>1, ReadsInvariant, PTL

\* The first of some requests is one of them, for they are in order.
LEMMA FirstIsOne ==
  ASSUME RequestTypes, NEW s \in SUBSET Asked
  PROVE  First(s) \in s \cup {End}
<1>1. ASSUME s # {} PROVE First(s) \in s
  <2>10. \A r \in Asked : asked[r] \in Piece /\ r \in Nat
    BY DEF RequestTypes, Asked
  <2>1. \A r \in Asked : asked[r] \in Nat
    BY <2>10, FileRequestsAssumption
  <2>2. PICK P : P = {asked[r] : r \in s}
    OBVIOUS
  <2>3. P \subseteq Nat /\ P # {}
    BY <1>1, <2>1, <2>2
  <2>4. PICK p \in P : \A n \in P : p <= n
    BY <2>3, LeastNat
  <2>5. PICK T : T = {r \in s : asked[r] = p}
    OBVIOUS
  <2>6. T \subseteq Nat /\ T # {}
    <3>1. PICK r \in s : p = asked[r]
      BY <2>2, <2>4
    <3>2. r \in T
      BY <2>5, <3>1
    <3>. QED
      BY <2>5, <2>10, <3>2
  <2>7. PICK r \in T : \A n \in T : r <= n
    BY <2>6, LeastNat
  <2>8. ASSUME NEW q \in s PROVE q = r \/ Before(r, q)
    <3>3. r \in s /\ asked[r] = p
      BY <2>5, <2>7
    <3>4. asked[q] \in P
      BY <2>2
    <3>5. p <= asked[q]
      BY <2>4, <3>4
    <3>6. q \in Asked /\ r \in Asked
      BY <3>3
    <3>1. asked[q] \in Nat /\ asked[r] \in Nat /\ q \in Nat /\ r \in Nat /\ asked[r] <= asked[q] /\ asked[r] = p
      BY <2>1, <2>10, <3>3, <3>5, <3>6
    <3>2. asked[q] = asked[r] => r <= q
      BY <2>5, <2>7, <3>1
    <3>. QED
      BY <3>1, <3>2 DEF Before
  <2>9. r \in s /\ \A q \in s : q = r \/ Before(r, q)
    BY <2>5, <2>7, <2>8
  <2>. QED
    BY <1>1, <2>9 DEF First
<1>. QED
  BY <1>1 DEF First

\* The request after another is one of those left, or the end.
LEMMA AfterIsOne ==
  ASSUME RequestTypes, NEW r, NEW erased
  PROVE  After(r, erased) \in (m_requests \ erased) \cup {End}
<1>1. PICK s : s = {q \in m_requests \ erased : Before(r, q)}
  OBVIOUS
<1>2. s \in SUBSET Asked /\ s \subseteq m_requests \ erased
  BY <1>1 DEF RequestTypes
<1>3. After(r, erased) = First(s)
  BY <1>1 DEF After
<1>. QED
  BY <1>2, <1>3, FirstIsOne

\* A promise is given a value once, by who takes its request out; the cursor is at a
\* request there is.
PromiseTypes ==
  /\ Len(asked) <= MaxRequests
  /\ m_next_timeout \in m_requests \cup {End}
  /\ answers \in [Asked -> 0..1]
  /\ \A r \in m_requests : answers[r] = 0
  /\ late \subseteq Asked

\* The requests that were looked at, and the reads they and the alert of a piece caused.
Seen == {r \in Asked : asking[r] = "done"}
AlertAbout(p) == finishing.step \in {"find", "read"} /\ finishing.piece = p
ReadBounds ==
  /\ finishing.step = "insert" => finishing.piece \notin m_have_pieces
  /\ finishing.step \in {"find", "read"} => finishing.piece \in m_have_pieces
  /\ \A p \in Piece : /\ reads[p] <= Cardinality(Seen) + 1
                      /\ p \notin m_have_pieces \/ AlertAbout(p) => reads[p] <= Cardinality(Seen)

\* No more requests are seen than were made.
LEMMA SeenFinite ==
  RequestTypes => IsFiniteSet(Seen) /\ Cardinality(Seen) \in Nat /\ Cardinality(Seen) <= Len(asked)
<1>. SUFFICES ASSUME RequestTypes PROVE IsFiniteSet(Seen) /\ Cardinality(Seen) \in Nat /\ Cardinality(Seen) <= Len(asked)
  OBVIOUS
<1>1. PICK n \in Nat : n = Len(asked)
  BY DEF RequestTypes
<1>2. IsFiniteSet(1..n) /\ Cardinality(1..n) = n
  BY FS_Interval
<1>3. Seen \subseteq 1..n
  BY <1>1 DEF Seen, Asked
<1>. QED
  BY <1>1, <1>2, <1>3, FS_Subset, FS_CardinalityType

\* The promise that comes with a request.
LEMMA ReadPiecePromised ==
  ASSUME RequestTypes, PromiseTypes, ReadBounds, NEW p \in Piece, ReadPiece(p)
  PROVE  PromiseTypes' /\ ReadBounds'
<1>1. PICK n \in Nat : n = Len(asked)
  BY DEF RequestTypes
<1>2. Len(asked') = n + 1
  BY <1>1, AppendProperties DEF RequestTypes, ReadPiece
<1>3. Asked = 1..n /\ Asked' = 1..(n + 1)
  BY <1>1, <1>2 DEF Asked
<1>4. asking \in Seq({"read", "done"}) /\ Len(asking) = n /\ answers \in Seq(0..1) /\ Len(answers) = n
  <2>1. PICK k, l : k = asking /\ l = answers
    OBVIOUS
  <2>2. k \in [1..n -> {"read", "done"}] /\ l \in [1..n -> 0..1]
    BY <1>3, <2>1 DEF RequestTypes, PromiseTypes
  <2>3. k \in Seq({"read", "done"}) /\ Len(k) = n /\ l \in Seq(0..1) /\ Len(l) = n
    BY <2>2
  <2>. QED
    BY <2>1, <2>3
<1>5. /\ asking' = Append(asking, "read") /\ answers' = Append(answers, 0)
      /\ m_requests' = m_requests \cup {n + 1}
      /\ UNCHANGED <<m_next_timeout, m_have_pieces, finishing, reads, late>>
  BY <1>1 DEF ReadPiece
<1>6. /\ answers' \in [1..(n + 1) -> 0..1] /\ answers'[n + 1] = 0
      /\ \A i \in 1..n : answers'[i] = answers[i]
  <2>1. 0 \in 0..1
    OBVIOUS
  <2>2. PICK b : b = answers'
    OBVIOUS
  <2>3. /\ b \in Seq(0..1) /\ Len(b) = n + 1 /\ b[n + 1] = 0
        /\ \A i \in 1..n : b[i] = answers[i]
    BY <1>4, <1>5, <2>1, <2>2, AppendProperties
  <2>4. b \in [1..(n + 1) -> 0..1]
    BY <2>3
  <2>. QED
    BY <2>2, <2>3, <2>4
<1>7. asking'[n + 1] = "read" /\ \A i \in 1..n : asking'[i] = asking[i]
  <2>1. "read" \in {"read", "done"}
    OBVIOUS
  <2>. QED
    BY <1>4, <1>5, <2>1, AppendProperties
<1>8. Seen' = Seen
  <2>1. ASSUME NEW i PROVE i \in Seen' <=> i \in Seen
    <3>1. i \in 1..(n + 1) <=> i \in 1..n \/ i = n + 1
      OBVIOUS
    <3>. QED
      BY <1>3, <1>7, <3>1 DEF Seen
  <2>. QED
    BY <2>1
<1>9. ReadBounds'
  BY <1>5, <1>8 DEF ReadBounds, AlertAbout
<1>10. Len(asked') <= MaxRequests
  <2>1. PICK m \in Nat : m = MaxRequests
    BY FileRequestsAssumption
  <2>2. n < m
    BY <1>1, <2>1 DEF ReadPiece
  <2>. QED
    BY <1>2, <2>1, <2>2
<1>11. late' \subseteq Asked'
  <2>1. 1..n \subseteq 1..(n + 1)
    OBVIOUS
  <2>. QED
    BY <1>3, <1>5, <2>1 DEF PromiseTypes
<1>12. \A r \in m_requests' : answers'[r] = 0
  BY <1>3, <1>5, <1>6 DEF RequestTypes, PromiseTypes
<1>. QED
  BY <1>3, <1>5, <1>6, <1>9, <1>10, <1>11, <1>12 DEF PromiseTypes

\* Who asked has the piece read once at most.
LEMMA ReadNowBounded ==
  ASSUME RequestTypes, PromiseTypes, ReadBounds, NEW r \in Asked, ReadNow(r)
  PROVE  PromiseTypes' /\ ReadBounds'
<1>1. PICK p \in Piece : p = asked[r]
  BY DEF RequestTypes, Asked
<1>2. asking[r] = "read" /\ asking' = [asking EXCEPT ![r] = "done"]
      /\ UNCHANGED <<m_requests, m_next_timeout, m_have_pieces, asked, finishing, answers, late>>
  BY DEF ReadNow
<1>3. reads' = [reads EXCEPT ![p] = @ + 1] \/ reads' = reads
  BY <1>1 DEF ReadNow
<1>4. Asked' = Asked
  BY <1>2 DEF Asked
<1>5. Seen' = Seen \cup {r} /\ r \notin Seen
  BY <1>2, <1>4 DEF Seen, RequestTypes
<1>6. Cardinality(Seen') = Cardinality(Seen) + 1
  BY <1>5, SeenFinite, FS_AddElement
<1>7. PICK c \in Nat : c = Cardinality(Seen)
  BY SeenFinite
<1>8. ASSUME NEW q \in Piece PROVE reads[q] \in Nat /\ reads'[q] \in {reads[q], reads[q] + 1}
  BY <1>3 DEF RequestTypes
<1>9. ASSUME NEW q \in Piece
      PROVE  /\ reads'[q] <= (c + 1) + 1
             /\ q \notin m_have_pieces \/ AlertAbout(q) => reads'[q] <= c + 1
  <2>1. /\ reads[q] <= c + 1
        /\ q \notin m_have_pieces \/ AlertAbout(q) => reads[q] <= c
    BY <1>7 DEF ReadBounds
  <2>. QED
    BY <1>8, <2>1
<1>10. ReadBounds'
  BY <1>2, <1>6, <1>7, <1>9 DEF ReadBounds, AlertAbout
<1>. QED
  BY <1>2, <1>4, <1>10 DEF PromiseTypes

\* The alert of a piece has it read once: the piece was not there before.
LEMMA AlertBounded ==
  ASSUME RequestTypes, PromiseTypes, ReadBounds, AlertStep \/ \E p \in Piece : PieceFinished(p)
  PROVE  PromiseTypes' /\ ReadBounds'
<1>1. UNCHANGED <<m_requests, m_next_timeout, asked, asking, answers, late>>
  BY DEF AlertStep, InsertPiece, FindRequests, ReadFinished, PieceFinished
<1>2. Seen' = Seen /\ Asked' = Asked
  BY <1>1 DEF Seen, Asked
<1>3. PromiseTypes'
  BY <1>1, <1>2 DEF PromiseTypes
<1>4. PICK c \in Nat : c = Cardinality(Seen)
  BY SeenFinite
<1>5. \A q \in Piece : /\ reads[q] \in Nat /\ reads[q] <= c + 1
                       /\ q \notin m_have_pieces \/ AlertAbout(q) => reads[q] <= c
  BY <1>4 DEF RequestTypes, ReadBounds
<1>6. ASSUME NEW p \in Piece, PieceFinished(p) PROVE ReadBounds'
  <2>1. /\ finishing = NoPiece /\ p \notin m_have_pieces /\ finishing' = [step |-> "insert", piece |-> p]
        /\ UNCHANGED <<m_have_pieces, reads>>
    BY <1>6 DEF PieceFinished
  <2>. QED
    BY <1>2, <1>4, <1>5, <2>1 DEF ReadBounds, AlertAbout, NoPiece
<1>7. CASE InsertPiece
  <2>1. /\ finishing.step = "insert" /\ finishing' = [finishing EXCEPT !.step = "find"]
        /\ m_have_pieces' = m_have_pieces \cup {finishing.piece} /\ UNCHANGED reads
    BY <1>7 DEF InsertPiece
  <2>2. finishing'.step = "find" /\ finishing'.piece = finishing.piece /\ finishing.piece \notin m_have_pieces
    BY <2>1 DEF RequestTypes, ReadBounds
  <2>3. \A q \in Piece : q \notin m_have_pieces' \/ AlertAbout(q)' => q \notin m_have_pieces
    BY <2>1, <2>2 DEF AlertAbout
  <2>. QED
    BY <1>2, <1>3, <1>4, <1>5, <2>1, <2>2, <2>3 DEF ReadBounds
<1>8. CASE FindRequests
  <2>1. /\ finishing.step = "find" /\ UNCHANGED <<m_have_pieces, reads>>
        /\ (finishing' = NoPiece \/ finishing' = [finishing EXCEPT !.step = "read"])
    BY <1>8 DEF FindRequests
  <2>2. finishing'.step = "no" \/ (finishing'.step = "read" /\ finishing'.piece = finishing.piece)
    BY <2>1 DEF RequestTypes, NoPiece
  <2>3. \A q \in Piece : AlertAbout(q)' => AlertAbout(q)
    BY <2>1, <2>2 DEF AlertAbout
  <2>4. finishing'.step = "read" => finishing'.piece \in m_have_pieces
    BY <2>1, <2>2 DEF ReadBounds
  <2>. QED
    BY <1>2, <1>3, <1>4, <1>5, <2>1, <2>2, <2>3, <2>4 DEF ReadBounds
<1>9. CASE ReadFinished
  <2>1. /\ finishing.step = "read" /\ finishing' = NoPiece /\ UNCHANGED m_have_pieces
        /\ reads' = [reads EXCEPT ![finishing.piece] = @ + 1]
    BY <1>9 DEF ReadFinished
  <2>2. PICK p \in Piece : p = finishing.piece
    BY <2>1 DEF RequestTypes
  <2>3. finishing'.step = "no" /\ p \in m_have_pieces /\ reads[p] <= c
    BY <1>5, <2>1, <2>2 DEF ReadBounds, AlertAbout, NoPiece
  <2>4. reads'[p] = reads[p] + 1 /\ \A q \in Piece : q # p => reads'[q] = reads[q]
    BY <2>1, <2>2 DEF RequestTypes
  <2>5. ASSUME NEW q \in Piece
        PROVE  reads'[q] <= c + 1 /\ (q \notin m_have_pieces => reads'[q] <= c)
    BY <1>5, <2>3, <2>4
  <2>. QED
    BY <1>2, <1>3, <1>4, <2>1, <2>3, <2>5 DEF ReadBounds, AlertAbout
<1>. QED
  BY <1>3, <1>6, <1>7, <1>8, <1>9 DEF AlertStep

\* All that wait for a piece that was read are given it, and taken out.
LEMMA PieceReadPromised ==
  ASSUME RequestTypes, PromiseTypes, ReadBounds, NEW p \in Piece, PieceRead(p)
  PROVE  PromiseTypes' /\ ReadBounds'
<1>1. PICK range : range = equal_range(p) /\ range \subseteq m_requests
  BY DEF equal_range
<1>2. /\ answers' = [r \in Asked |-> IF r \in range THEN answers[r] + 1 ELSE answers[r]]
      /\ m_next_timeout' = NextTimeout(range) /\ m_requests' = m_requests \ range
      /\ reads[p] > 0 /\ reads' = [reads EXCEPT ![p] = @ - 1]
      /\ UNCHANGED <<m_have_pieces, asked, asking, finishing, late>>
  BY <1>1 DEF PieceRead
<1>3. Seen' = Seen /\ Asked' = Asked
  BY <1>2 DEF Seen, Asked
<1>4. ASSUME NEW r \in Asked PROVE answers'[r] \in 0..1 /\ (r \in m_requests' => answers'[r] = 0)
  <2>1. CASE r \in range
    BY <1>1, <1>2, <2>1 DEF PromiseTypes
  <2>2. CASE r \notin range
    BY <1>2, <2>2 DEF PromiseTypes
  <2>. QED
    BY <2>1, <2>2
<1>5. m_next_timeout' \in m_requests' \cup {End}
  BY <1>2, AfterIsOne DEF NextTimeout, PromiseTypes
<1>6. PromiseTypes'
  BY <1>2, <1>3, <1>4, <1>5 DEF PromiseTypes, RequestTypes
<1>7. ASSUME NEW q \in Piece PROVE reads[q] \in Nat /\ reads'[q] \in Nat /\ reads'[q] <= reads[q]
  <2>1. reads[p] \in Nat /\ reads'[p] = reads[p] - 1 /\ (q # p => reads'[q] = reads[q]) /\ reads[q] \in Nat
    BY <1>2 DEF RequestTypes
  <2>. QED
    BY <1>2, <2>1
<1>8. PICK c \in Nat : c = Cardinality(Seen)
  BY SeenFinite
<1>9. ASSUME NEW q \in Piece
      PROVE  reads'[q] <= c + 1 /\ (q \notin m_have_pieces \/ AlertAbout(q) => reads'[q] <= c)
  <2>1. reads[q] <= c + 1 /\ (q \notin m_have_pieces \/ AlertAbout(q) => reads[q] <= c)
    BY <1>8 DEF ReadBounds
  <2>. QED
    BY <1>7, <2>1
<1>10. ReadBounds'
  BY <1>2, <1>3, <1>8, <1>9 DEF ReadBounds, AlertAbout
<1>. QED
  BY <1>6, <1>10

\* A tick looks at a request there is, and goes on to another.
LEMMA OnTickPromised ==
  ASSUME RequestTypes, PromiseTypes, OnTick
  PROVE  PromiseTypes'
<1>1. PICK at : at = (IF m_next_timeout = End THEN First(m_requests) ELSE m_next_timeout)
  OBVIOUS
<1>2. /\ m_requests' \in {m_requests, m_requests \ {at}} /\ m_next_timeout' = After(at, {at})
      /\ UNCHANGED <<asked, answers, late>>
  BY <1>1 DEF OnTick, Ticked
<1>3. m_next_timeout' \in m_requests' \cup {End}
  BY <1>2, AfterIsOne
<1>. QED
  BY <1>2, <1>3 DEF PromiseTypes, Asked

\* Every step keeps the promises answered at most once, and the reads bounded.
LEMMA RequestsTyped ==
  RequestTypes /\ PromiseTypes /\ ReadBounds /\ [Next]_servicesVars => PromiseTypes' /\ ReadBounds'
<1>. SUFFICES ASSUME RequestTypes, PromiseTypes, ReadBounds, [Next]_servicesVars PROVE PromiseTypes' /\ ReadBounds'
  OBVIOUS
<1>1. ASSUME UNCHANGED <<m_have_pieces, asked, asking, finishing, reads>> PROVE ReadBounds'
  BY <1>1 DEF ReadBounds, AlertAbout, Seen, Asked
<1>2. CASE UNCHANGED requestVars
  BY <1>1, <1>2 DEF requestVars, PromiseTypes, Asked
<1>3. CASE OnTick
  BY <1>1, <1>3, OnTickPromised DEF OnTick
<1>4. CASE TorrentPaused
  BY <1>1, <1>4 DEF TorrentPaused, PromiseTypes, Asked
<1>5. ASSUME NEW r \in Asked, TimePasses(r) PROVE PromiseTypes' /\ ReadBounds'
  BY <1>1, <1>5 DEF TimePasses, PromiseTypes, Asked
<1>6. CASE FileRequestsNext
  BY <1>3, <1>4, <1>5, <1>6, ReadPiecePromised, ReadNowBounded, AlertBounded, PieceReadPromised
     DEF FileRequestsNext
<1>. QED
  BY <1>2, <1>6 DEF Next, servicesVars, OfAutoLoad, OfFileRequests

\* No request was made at first.
LEMMA RequestsBegin == Init => PromiseTypes /\ ReadBounds
<1>. SUFFICES ASSUME FileRequestsInit PROVE PromiseTypes /\ ReadBounds
  BY DEF Init
<1>1. /\ m_requests = {} /\ m_next_timeout = End /\ asked = <<>> /\ answers = <<>> /\ late = {} /\ m_have_pieces = {}
      /\ finishing.step = "no" /\ \A p \in Piece : reads[p] = 0
  BY DEF FileRequestsInit, NoPiece
<1>2. Asked = {} /\ Len(asked) = 0
  BY <1>1 DEF Asked
<1>3. answers \in [Asked -> 0..1]
  <2>1. <<>> \in [{} -> 0..1]
    OBVIOUS
  <2>. QED
    BY <1>1, <1>2, <2>1
<1>4. Cardinality(Seen) = 0
  BY <1>2, FS_EmptySet DEF Seen
<1>. QED
  BY <1>1, <1>2, <1>3, <1>4, FileRequestsAssumption DEF PromiseTypes, ReadBounds, AlertAbout

\* The state of the file requests has its type.
LEMMA RequestsAreTyped == RequestTypes /\ PromiseTypes /\ ReadBounds => FileRequestsTypeOK
<1>. SUFFICES ASSUME RequestTypes, PromiseTypes, ReadBounds PROVE FileRequestsTypeOK
  OBVIOUS
<1>1. PICK m \in Nat : m = MaxRequests
  BY FileRequestsAssumption
<1>2. PICK c \in Nat : c = Cardinality(Seen) /\ c <= m
  <2>1. Len(asked) \in Nat /\ Len(asked) <= m
    BY <1>1 DEF PromiseTypes, RequestTypes
  <2>2. PICK d \in Nat : d = Cardinality(Seen) /\ d <= Len(asked)
    BY SeenFinite
  <2>. QED
    BY <2>1, <2>2
<1>3. ASSUME NEW p \in Piece PROVE reads[p] \in 0..m + 1
  <2>1. reads[p] \in Nat /\ reads[p] <= c + 1
    BY <1>2 DEF RequestTypes, ReadBounds
  <2>. QED
    BY <1>2, <2>1
<1>4. reads \in [Piece -> 0..MaxRequests + 1]
  BY <1>1, <1>3 DEF RequestTypes
<1>. QED
  BY <1>4 DEF FileRequestsTypeOK, RequestTypes, PromiseTypes

-----------------------------------------------------------------------------
(* AutoLoad                                                                *)

Submitted == [path: Path, id: Nat]
Alert == [path: Path, id: Nat, error: BOOLEAN]

ScanTypes ==
  /\ scan \in [step: {"no", "list", "next", "add", "arm"}, dir: Dir, remove: BOOLEAN,
               todo: SUBSET Name, file: Name \cup {""}]
  /\ scan.step = "add" => scan.file \in Name

RemovingTypes ==
  /\ removing \in [step: {"no", "remove", "erase"}, path: (Dir \X Name) \cup {<<Dir0, "">>}]
  /\ removing.step # "no" => removing.path \in Path

LoadTypes ==
  /\ ScanTypes /\ RemovingTypes
  /\ files \in [Path -> {"absent", "partial", "whole"}]
  /\ submitted \subseteq Submitted
  /\ added \in Seq(Alert)
  /\ m_next_pending_id \in Nat
  /\ DOMAIN m_pending_files \subseteq 1..m_next_pending_id
  /\ m_dir \in Dir /\ m_remove_files \in BOOLEAN

\* What an alert says was added, was; and only that is removed.
AddedFirst ==
  /\ \A i \in DOMAIN added : ~added[i].error => added[i].path \in loaded
  /\ removing.step # "no" => removing.path \in loaded

\* A torrent that libtorrent has not answered for: its name is known, and its id,
\* if it has one, is that of its file.
Underway(a) ==
  /\ a.path[2] \in m_already_loaded
  /\ a.id <= m_next_pending_id
  /\ a.id \in DOMAIN m_pending_files => m_pending_files[a.id] = a.path

\* A name is known for a reason: its torrent was added, is kept, or is asked for.
Reason(n, p) ==
  p[2] = n /\ (p \in loaded \cup kept \/ \E id \in DOMAIN m_pending_files : m_pending_files[id] = p)

\* Names are under way once, and not while their file is added or removed.
OneEach ==
  /\ scan.step = "add" => scan.file \notin m_already_loaded
  /\ \A a \in submitted : Underway(a)
  /\ \A i \in DOMAIN added : Underway(added[i])
  /\ \A a, b \in submitted : a.path[2] = b.path[2] => a = b
  /\ \A a \in submitted : \A i \in DOMAIN added : a.path[2] # added[i].path[2]
  /\ \A i, j \in DOMAIN added : added[i].path[2] = added[j].path[2] => i = j
  /\ removing.step # "no" =>
       /\ removing.path[2] \in m_already_loaded
       /\ \A a \in submitted : a.path[2] # removing.path[2]
       /\ \A i \in DOMAIN added : added[i].path[2] # removing.path[2]
  /\ \A n \in m_already_loaded : \E p \in Path : Reason(n, p)

LoadInv == LoadTypes /\ AddedFirst /\ OneEach

\* Steps of others, and of a scan that adds nothing.
LEMMA ScanKept ==
  ASSUME LoadInv, UNCHANGED <<loadVars, sessionVars>>,
         files' \in [Path -> {"absent", "partial", "whole"}],
         m_dir' \in Dir, m_remove_files' \in BOOLEAN,
         ScanTypes', scan'.step = "add" => scan'.file \notin m_already_loaded
  PROVE  LoadInv'
<1>1. RemovingTypes'
  BY DEF LoadInv, LoadTypes, RemovingTypes, sessionVars
<1>2. LoadTypes'
  BY <1>1 DEF LoadInv, LoadTypes, loadVars, sessionVars
<1>3. AddedFirst'
  BY DEF LoadInv, AddedFirst, sessionVars
<1>4. /\ \A a : Underway(a) => Underway(a)'
      /\ \A n, q : Reason(n, q) => Reason(n, q)'
  BY DEF Underway, Reason, loadVars, sessionVars
<1>5. UNCHANGED <<m_already_loaded, submitted, added, removing>>
  BY DEF loadVars, sessionVars
<1>6. OneEach'
  BY <1>4, <1>5 DEF LoadInv, OneEach
<1>. QED
  BY <1>2, <1>3, <1>6 DEF LoadInv

\* Handing a file to the session gives it an identifier no other file has and marks its name as
\* loaded.
LEMMA AddFileKept ==
  ASSUME LoadInv, AddFile
  PROVE  LoadInv'
<1>1. PICK p \in Path, n \in Name, m \in Nat :
        p = <<scan.dir, scan.file>> /\ n = scan.file /\ m = m_next_pending_id /\ p[2] = n
  <2>1. scan.dir \in Dir /\ scan.file \in Name /\ m_next_pending_id \in Nat
    BY DEF AddFile, LoadInv, LoadTypes, ScanTypes
  <2>2. <<scan.dir, scan.file>> \in Path /\ <<scan.dir, scan.file>>[2] = scan.file
    BY <2>1 DEF Path
  <2>. QED
    BY <2>1, <2>2
<1>2. PICK id \in Nat : id = IF scan.remove THEN m + 1 ELSE 0
  BY <1>1
<1>3. PICK a : a = [path |-> p, id |-> id]
  OBVIOUS
<1>4. a \in Submitted /\ a.path = p /\ a.id = id
  BY <1>3 DEF Submitted
<1>5. /\ m_already_loaded' = m_already_loaded \cup {n} /\ submitted' = submitted \cup {a}
      /\ scan' = [scan EXCEPT !.step = "next", !.file = ""]
      /\ UNCHANGED <<files, settingsVars, added, removing, loaded>>
      /\ n \notin m_already_loaded
  BY <1>1, <1>2, <1>3 DEF AddFile, LoadInv, OneEach, NoId
<1>6. \/ /\ id = m + 1 /\ m_next_pending_id' = m + 1 /\ kept' = kept
         /\ m_pending_files' = [i \in DOMAIN m_pending_files \cup {id} |->
                                 IF i = id THEN p ELSE m_pending_files[i]]
      \/ /\ id = 0 /\ m_next_pending_id' = m /\ m_pending_files' = m_pending_files
         /\ kept' = kept \cup {p}
  <2>1. scan.remove \in BOOLEAN
    BY DEF LoadInv, LoadTypes, ScanTypes
  <2>2. CASE scan.remove
    BY <1>1, <1>2, <2>2 DEF AddFile
  <2>3. CASE ~scan.remove
    BY <1>1, <1>2, <2>3 DEF AddFile
  <2>. QED
    BY <2>2, <2>3
<1>7. \A i \in DOMAIN m_pending_files : i \in Nat /\ 1 <= i /\ i <= m
  <2>1. DOMAIN m_pending_files \subseteq 1..m
    BY <1>1 DEF LoadInv, LoadTypes
  <2>. QED
    BY <2>1
<1>8. /\ m_next_pending_id' \in Nat /\ m <= m_next_pending_id'
      /\ DOMAIN m_pending_files' \subseteq 1..m_next_pending_id'
      /\ \A i \in DOMAIN m_pending_files : i \in DOMAIN m_pending_files' /\ m_pending_files'[i] = m_pending_files[i]
      /\ \A i \in DOMAIN m_pending_files' : i <= m => i \in DOMAIN m_pending_files
  BY <1>6, <1>7
<1>9. LoadTypes'
  <2>1. ScanTypes' /\ scan'.step = "next"
    BY <1>5 DEF LoadInv, LoadTypes, ScanTypes
  <2>2. RemovingTypes'
    BY <1>5 DEF LoadInv, LoadTypes, RemovingTypes
  <2>. QED
    BY <1>4, <1>5, <1>8, <2>1, <2>2 DEF LoadInv, LoadTypes, settingsVars
<1>10. AddedFirst'
  BY <1>5 DEF LoadInv, AddedFirst
<1>11. ASSUME NEW b, b.id \in Nat, Underway(b) PROVE Underway(b)'
  BY <1>1, <1>5, <1>8, <1>11 DEF Underway
<1>12. Underway(a)'
  BY <1>1, <1>4, <1>5, <1>6, <1>7 DEF Underway
<1>13. (\A b \in submitted : b.id \in Nat) /\ \A i \in DOMAIN added : added[i].id \in Nat
  <2>1. submitted \subseteq Submitted /\ added \in Seq(Alert)
    BY DEF LoadInv, LoadTypes
  <2>2. \A i \in DOMAIN added : added[i] \in Alert
    BY <2>1
  <2>. QED
    BY <2>1, <2>2 DEF Submitted, Alert
<1>14. (\A b \in submitted : b.path[2] # n) /\ \A i \in DOMAIN added : added[i].path[2] # n
  BY <1>5 DEF LoadInv, OneEach, Underway
<1>15. removing.step # "no" => removing.path[2] \in m_already_loaded
  BY DEF LoadInv, OneEach
<1>16. ASSUME NEW k \in m_already_loaded' PROVE \E q \in Path : Reason(k, q)'
  <2>1. CASE k = n
    <3>1. Reason(n, p)'
      BY <1>1, <1>6 DEF Reason
    <3>. QED
      BY <2>1, <3>1
  <2>2. CASE k \in m_already_loaded
    <3>1. PICK q \in Path : Reason(k, q)
      BY <2>2 DEF LoadInv, OneEach
    <3>2. Reason(k, q)'
      BY <1>5, <1>6, <1>8, <3>1 DEF Reason
    <3>. QED
      BY <3>2
  <2>. QED
    BY <1>5, <2>1, <2>2
<1>17. scan'.step # "add"
  BY <1>5 DEF LoadInv, LoadTypes, ScanTypes
<1>18. UNCHANGED <<added, removing>>
  BY <1>5
<1>19. OneEach'
  <2>1. \A b, c \in submitted' : b.path[2] = c.path[2] => b = c
    BY <1>1, <1>4, <1>5, <1>14 DEF LoadInv, OneEach
  <2>2. \A b \in submitted' : Underway(b)' /\ \A i \in DOMAIN added : b.path[2] # added[i].path[2]
    BY <1>1, <1>4, <1>5, <1>11, <1>12, <1>13, <1>14 DEF LoadInv, OneEach
  <2>3. \A i \in DOMAIN added : Underway(added[i])'
    <3>1. ASSUME NEW i \in DOMAIN added PROVE Underway(added[i])'
      <4>1. PICK b : b = added[i]
        OBVIOUS
      <4>2. Underway(b)'
        BY <1>11, <1>13, <4>1 DEF LoadInv, OneEach
      <4>. QED
        BY <1>18, <4>1, <4>2
    <3>. QED
      BY <3>1
  <2>4. removing'.step # "no" =>
          /\ removing'.path[2] \in m_already_loaded'
          /\ \A b \in submitted' : b.path[2] # removing'.path[2]
          /\ \A i \in DOMAIN added : added[i].path[2] # removing'.path[2]
    BY <1>1, <1>4, <1>5, <1>15, <1>18 DEF LoadInv, OneEach
  <2>. QED
    BY <1>16, <1>17, <1>18, <2>1, <2>2, <2>3, <2>4 DEF LoadInv, OneEach
<1>. QED
  BY <1>9, <1>10, <1>19 DEF LoadInv

\* The session answers for one handed-over file, whose identifier the answer carries.
LEMMA SessionAddsKept ==
  ASSUME LoadInv, NEW a \in submitted, SessionAdds(a)
  PROVE  LoadInv'
<1>1. PICK t \in Seq(Alert) : t = added
  BY DEF LoadInv, LoadTypes
<1>2. PICK error \in BOOLEAN :
        /\ added' = Append(added, [path |-> a.path, id |-> a.id, error |-> error])
        /\ loaded' = IF error THEN loaded ELSE loaded \cup {a.path}
  BY DEF SessionAdds
<1>3. PICK e : e = [path |-> a.path, id |-> a.id, error |-> error]
  OBVIOUS
<1>4. a.path \in Path /\ a.id \in Nat
  BY DEF LoadInv, LoadTypes, Submitted
<1>5. e \in Alert /\ e.path = a.path /\ e.id = a.id /\ e.error = error
  BY <1>3, <1>4 DEF Alert
<1>6. /\ Append(t, e) \in Seq(Alert)
      /\ \A i \in DOMAIN Append(t, e) :
           (i \in DOMAIN t /\ Append(t, e)[i] = t[i]) \/ (i = Len(t) + 1 /\ Append(t, e)[i] = e)
  BY <1>5, AppendProperties
<1>7. /\ added' = Append(t, e) /\ submitted' = submitted \ {a}
      /\ UNCHANGED <<files, settingsVars, loadVars, scan, removing>>
      /\ loaded \subseteq loaded'
  BY <1>1, <1>2, <1>3 DEF SessionAdds
<1>8. LoadTypes'
  BY <1>6, <1>7 DEF LoadInv, LoadTypes, ScanTypes, RemovingTypes, loadVars, settingsVars
<1>9. ASSUME NEW i \in DOMAIN added' PROVE ~added'[i].error => added'[i].path \in loaded'
  <2>1. CASE i \in DOMAIN t /\ added'[i] = t[i]
    BY <1>1, <1>7, <2>1 DEF LoadInv, AddedFirst
  <2>2. CASE added'[i] = e
    BY <1>2, <1>5, <2>2
  <2>. QED
    BY <1>6, <1>7, <1>9, <2>1, <2>2
<1>10. AddedFirst'
  BY <1>7, <1>9 DEF LoadInv, AddedFirst
<1>11. \A b : Underway(b) => Underway(b)'
  BY <1>7 DEF Underway, loadVars
<1>12. \A n, q : Reason(n, q) => Reason(n, q)'
  BY <1>7 DEF Reason, loadVars
<1>13. Underway(e)'
  BY <1>5, <1>11 DEF LoadInv, OneEach, Underway
<1>14. ASSUME NEW i \in DOMAIN added'
       PROVE  /\ Underway(added[i])'
              /\ \A b \in submitted' : b.path[2] # added'[i].path[2]
              /\ removing.step # "no" => added'[i].path[2] # removing.path[2]
  <2>1. CASE i \in DOMAIN t /\ added'[i] = t[i]
    <3>1. PICK b : b = t[i]
      OBVIOUS
    <3>2. Underway(b)'
      BY <1>1, <1>11, <2>1, <3>1 DEF LoadInv, OneEach
    <3>3. Underway(added[i])'
      BY <2>1, <3>1, <3>2
    <3>. QED
      BY <1>1, <1>7, <2>1, <3>3 DEF LoadInv, OneEach
  <2>2. CASE added'[i] = e
    BY <1>5, <1>7, <1>13, <2>2 DEF LoadInv, OneEach
  <2>. QED
    BY <1>6, <1>7, <1>14, <2>1, <2>2
<1>15. ASSUME NEW i \in DOMAIN added', NEW j \in DOMAIN added', added'[i].path[2] = added'[j].path[2]
       PROVE  i = j
  <2>1. \A k \in DOMAIN t : t[k].path[2] # e.path[2]
    BY <1>1, <1>5 DEF LoadInv, OneEach
  <2>. QED
    BY <1>1, <1>6, <1>7, <1>15, <2>1 DEF LoadInv, OneEach
<1>16. OneEach'
  <2>1. \A b \in submitted' : Underway(b)'
    BY <1>7, <1>11 DEF LoadInv, OneEach
  <2>2. \A n \in m_already_loaded : \E q \in Path : Reason(n, q)'
    BY <1>12 DEF LoadInv, OneEach
  <2>3. m_already_loaded' = m_already_loaded
    BY <1>7 DEF loadVars
  <2>. QED
    BY <1>7, <1>14, <1>15, <2>1, <2>2, <2>3 DEF LoadInv, OneEach
<1>. QED
  BY <1>8, <1>10, <1>16 DEF LoadInv

\* The head of the alerts, and the others.
LEMMA AlertsTail ==
  ASSUME NEW t \in Seq(Alert), t # <<>>
  PROVE  /\ Head(t) \in Alert /\ Head(t) = t[1] /\ 1 \in DOMAIN t
         /\ Tail(t) \in Seq(Alert)
         /\ \A i \in DOMAIN Tail(t) :
              i \in Nat /\ i + 1 # 1 /\ i + 1 \in DOMAIN t /\ Tail(t)[i] = t[i + 1]
<1>1. /\ Len(t) \in Nat /\ Len(t) >= 1 /\ Len(Tail(t)) = Len(t) - 1
      /\ Tail(t) \in Seq(Alert) /\ DOMAIN t = 1..Len(t) /\ DOMAIN Tail(t) = 1..Len(Tail(t))
      /\ Head(t) = t[1]
      /\ \A i \in 1..Len(Tail(t)) : Tail(t)[i] = t[i + 1]
  BY HeadTailProperties, EmptySeq, LenProperties
<1>. QED
  BY <1>1

\* Each answer is handled once: it takes its identifier out of those that wait for one.
LEMMA HandleAlertKept ==
  ASSUME LoadInv, HandleAlert
  PROVE  LoadInv'
<1>1. PICK t \in Seq(Alert) : t = added /\ t # <<>>
  BY DEF LoadInv, LoadTypes, HandleAlert
<1>2. PICK a \in Alert : a = Head(t) /\ a = t[1] /\ 1 \in DOMAIN t
  BY <1>1, AlertsTail
<1>3. a.path \in Path /\ a.id \in Nat /\ a.error \in BOOLEAN
  BY DEF Alert
<1>4. /\ added' = Tail(t) /\ removing.step = "no"
      /\ UNCHANGED <<files, settingsVars, m_next_pending_id, kept, scan, submitted, loaded>>
  BY <1>1 DEF HandleAlert
<1>5. ASSUME NEW i \in DOMAIN added'
      PROVE  /\ added'[i].path[2] # a.path[2]
             /\ \E j \in DOMAIN t : j # 1 /\ j = i + 1 /\ added'[i] = t[j]
  <2>1. PICK j : j = i + 1
    OBVIOUS
  <2>2. i \in Nat /\ j \in DOMAIN t /\ j # 1 /\ added'[i] = t[j]
    BY <1>1, <1>4, <2>1, AlertsTail
  <2>. QED
    BY <1>1, <1>2, <2>1, <2>2 DEF LoadInv, OneEach
<1>6. added' \in Seq(Alert)
  BY <1>1, <1>4, AlertsTail
<1>7. AddedFirst' \/ removing' # removing
  BY <1>1, <1>4, <1>5 DEF LoadInv, AddedFirst
<1>8. \A b \in submitted : b.path[2] # a.path[2]
  BY <1>1, <1>2 DEF LoadInv, OneEach
<1>9. ASSUME \A b : b.path[2] # a.path[2] /\ Underway(b) => Underway(b)',
             removing' = removing \/ (removing'.step = "remove" /\ removing'.path = a.path
                                     /\ a.path[2] \in m_already_loaded'),
             m_already_loaded' \subseteq m_already_loaded,
             \A n \in m_already_loaded' : \E q \in Path : Reason(n, q)'
      PROVE  OneEach'
  <2>1. \A b \in submitted : Underway(b)'
    BY <1>8, <1>9 DEF LoadInv, OneEach
  <2>2. ASSUME NEW i \in DOMAIN added'
        PROVE  Underway(added[i])' /\ \A b \in submitted : b.path[2] # added'[i].path[2]
    <3>1. PICK j \in DOMAIN t : j = i + 1 /\ added'[i] = t[j]
      BY <1>5, <2>2
    <3>2. PICK b : b = t[j]
      OBVIOUS
    <3>3. Underway(b) /\ b.path[2] # a.path[2] /\ \A c \in submitted : c.path[2] # b.path[2]
      BY <1>1, <1>5, <2>2, <3>1, <3>2 DEF LoadInv, OneEach
    <3>4. Underway(b)'
      BY <1>9, <3>3
    <3>. QED
      BY <3>1, <3>2, <3>3, <3>4
  <2>3. ASSUME NEW i \in DOMAIN added', NEW j \in DOMAIN added', added'[i].path[2] = added'[j].path[2]
        PROVE  i = j
    <3>1. PICK k, l \in DOMAIN t : k = i + 1 /\ l = j + 1 /\ added'[i] = t[k] /\ added'[j] = t[l]
      BY <1>5, <2>3
    <3>2. k = l
      BY <1>1, <2>3, <3>1 DEF LoadInv, OneEach
    <3>3. i \in Nat /\ j \in Nat
      BY <1>1, <1>4, <2>3, AlertsTail
    <3>. QED
      BY <3>1, <3>2, <3>3
  <2>4. scan'.step = "add" => scan'.file \notin m_already_loaded'
    BY <1>4, <1>9 DEF LoadInv, OneEach
  <2>5. \A b, c \in submitted' : b.path[2] = c.path[2] => b = c
    BY <1>4 DEF LoadInv, OneEach
  <2>6. removing'.step # "no" =>
          /\ removing'.path[2] \in m_already_loaded'
          /\ \A b \in submitted : b.path[2] # removing'.path[2]
          /\ \A i \in DOMAIN added' : added'[i].path[2] # removing'.path[2]
    BY <1>4, <1>5, <1>8, <1>9
  <2>. QED
    BY <1>4, <1>9, <2>1, <2>2, <2>3, <2>4, <2>5, <2>6 DEF OneEach
<1>10. CASE a.id \notin DOMAIN m_pending_files
  <2>1. UNCHANGED <<m_already_loaded, m_pending_files, removing>>
    BY <1>1, <1>2, <1>10 DEF HandleAlert
  <2>2. LoadTypes'
    BY <1>4, <1>6, <2>1 DEF LoadInv, LoadTypes, ScanTypes, RemovingTypes, settingsVars
  <2>3. \A n \in m_already_loaded' : \E q \in Path : Reason(n, q)'
    BY <1>4, <2>1 DEF LoadInv, OneEach, Reason
  <2>4. \A b : Underway(b) => Underway(b)'
    BY <1>4, <2>1 DEF Underway
  <2>. QED
    BY <1>7, <1>9, <2>1, <2>2, <2>3, <2>4 DEF LoadInv
<1>11. CASE a.id \in DOMAIN m_pending_files
  <2>1. m_pending_files[a.id] = a.path /\ a.path[2] \in m_already_loaded
    BY <1>1, <1>2, <1>11 DEF LoadInv, OneEach, Underway
  <2>2. /\ m_pending_files' = [i \in DOMAIN m_pending_files \ {a.id} |-> m_pending_files[i]]
        /\ removing' = IF Removes(a) THEN [step |-> "remove", path |-> a.path] ELSE removing
        /\ m_already_loaded' = IF a.error THEN m_already_loaded \ {a.path[2]} ELSE m_already_loaded
    BY <1>1, <1>2, <1>11, <2>1 DEF HandleAlert, NamesLeft
  <2>3. a.error \/ a.path \in loaded
    BY <1>1, <1>2 DEF LoadInv, AddedFirst
  <2>4. LoadTypes' /\ AddedFirst'
    <3>1. RemovingTypes'
      BY <1>3, <2>2 DEF LoadInv, LoadTypes, RemovingTypes, Path
    <3>2. ScanTypes'
      BY <1>4 DEF LoadInv, LoadTypes, ScanTypes
    <3>3. LoadTypes'
      BY <1>4, <1>6, <2>2, <3>1, <3>2 DEF LoadInv, LoadTypes, settingsVars
    <3>4. \A i \in DOMAIN added' : ~added'[i].error => added'[i].path \in loaded
      BY <1>1, <1>5 DEF LoadInv, AddedFirst
    <3>5. removing'.step # "no" => removing'.path \in loaded
      BY <1>4, <2>2, <2>3 DEF Removes
    <3>. QED
      BY <1>4, <3>3, <3>4, <3>5 DEF AddedFirst
  <2>5. /\ m_already_loaded' \subseteq m_already_loaded
        /\ \A n \in m_already_loaded : n # a.path[2] \/ ~a.error => n \in m_already_loaded'
        /\ \A n \in m_already_loaded' : n # a.path[2] \/ ~a.error
    BY <2>2
  <2>6. \A b : b.path[2] # a.path[2] /\ Underway(b) => Underway(b)'
    BY <1>4, <2>2, <2>5 DEF Underway
  <2>7. ASSUME NEW n \in m_already_loaded' PROVE \E q \in Path : Reason(n, q)'
    <3>1. PICK q \in Path : Reason(n, q)
      BY <2>5 DEF LoadInv, OneEach
    <3>2. CASE q \in loaded \cup kept
      <4>1. Reason(n, q)'
        BY <1>4, <3>1, <3>2 DEF Reason
      <4>. QED
        BY <4>1
    <3>3. ASSUME NEW id \in DOMAIN m_pending_files, m_pending_files[id] = q
          PROVE  \E r \in Path : Reason(n, r)'
      <4>1. CASE id = a.id
        <5>1. q = a.path /\ q[2] = n
          BY <2>1, <3>1, <3>3, <4>1 DEF Reason
        <5>2. a.path[2] = n
          BY <5>1
        <5>3. ~a.error
          BY <2>5, <5>2
        <5>4. Reason(n, a.path)'
          BY <1>4, <2>3, <5>2, <5>3 DEF Reason
        <5>. QED
          BY <1>3, <5>4
      <4>2. CASE id # a.id
        <5>1. Reason(n, q)'
          BY <2>2, <3>1, <3>3, <4>2 DEF Reason
        <5>. QED
          BY <5>1
      <4>. QED
        BY <4>1, <4>2
    <3>. QED
      BY <3>1, <3>2, <3>3 DEF Reason
  <2>8. removing' = removing \/ (removing'.step = "remove" /\ removing'.path = a.path
                                /\ a.path[2] \in m_already_loaded')
    BY <2>1, <2>2, <2>5 DEF Removes
  <2>9. OneEach'
    BY <1>9, <2>5, <2>6, <2>7, <2>8
  <2>. QED
    BY <2>4, <2>9 DEF LoadInv
<1>. QED
  BY <1>10, <1>11

\* The file is removed, or cannot be.
LEMMA RemoveFileKept ==
  ASSUME LoadInv, RemoveFile
  PROVE  LoadInv'
<1>1. /\ removing.step = "remove" /\ removing.path \in Path
      /\ UNCHANGED <<settingsVars, loadVars, scan, submitted, added, loaded>>
  BY DEF RemoveFile, LoadInv, LoadTypes, RemovingTypes
<1>2. files' \in [Path -> {"absent", "partial", "whole"}]
  BY <1>1 DEF RemoveFile, LoadInv, LoadTypes
<1>3. RemovingTypes' /\ (removing'.step # "no" => removing'.path = removing.path)
  <2>1. removing' = [removing EXCEPT !.step = "erase"] \/ removing' = [step |-> "no", path |-> <<Dir0, "">>]
    BY DEF RemoveFile, NotRemoving
  <2>2. RemovingTypes
    BY DEF LoadInv, LoadTypes
  <2>3. CASE removing' = [removing EXCEPT !.step = "erase"]
    BY <1>1, <2>2, <2>3 DEF RemovingTypes
  <2>4. CASE removing' = [step |-> "no", path |-> <<Dir0, "">>]
    BY <2>4 DEF RemovingTypes
  <2>. QED
    BY <2>1, <2>3, <2>4
<1>4. LoadTypes'
  BY <1>1, <1>2, <1>3 DEF LoadInv, LoadTypes, ScanTypes, settingsVars, loadVars
<1>5. AddedFirst'
  BY <1>1, <1>3 DEF LoadInv, AddedFirst
<1>6. /\ \A b : Underway(b) => Underway(b)'
      /\ \A n, q : Reason(n, q) => Reason(n, q)'
  BY <1>1 DEF Underway, Reason, loadVars
<1>7. m_already_loaded' = m_already_loaded
  BY <1>1 DEF loadVars
<1>8. OneEach'
  BY <1>1, <1>3, <1>6, <1>7 DEF LoadInv, OneEach
<1>. QED
  BY <1>4, <1>5, <1>8 DEF LoadInv

\* Its name is free again.
LEMMA EraseNameKept ==
  ASSUME LoadInv, EraseName
  PROVE  LoadInv'
<1>1. PICK n : n = removing.path[2]
  OBVIOUS
<1>2. /\ removing.step = "erase" /\ removing' = NotRemoving /\ m_already_loaded' = m_already_loaded \ {n}
      /\ UNCHANGED <<files, settingsVars, m_pending_files, m_next_pending_id, kept, scan, submitted, added, loaded>>
  BY <1>1 DEF EraseName
<1>3. removing'.step = "no" /\ RemovingTypes'
  BY <1>2 DEF RemovingTypes, NotRemoving
<1>4. LoadTypes' /\ AddedFirst'
  BY <1>2, <1>3 DEF LoadInv, LoadTypes, ScanTypes, settingsVars, AddedFirst
<1>5. /\ \A b : Underway(b) /\ b.path[2] # n => Underway(b)'
      /\ \A k, q : Reason(k, q) => Reason(k, q)'
  BY <1>2 DEF Underway, Reason
<1>6. (\A a \in submitted : a.path[2] # n) /\ \A i \in DOMAIN added : added[i].path[2] # n
  BY <1>1, <1>2 DEF LoadInv, OneEach
<1>7. OneEach'
  BY <1>2, <1>3, <1>5, <1>6 DEF LoadInv, OneEach
<1>. QED
  BY <1>4, <1>7 DEF LoadInv

\* Between two scans.
LEMMA NotScanningTypes ==
  /\ NotScanning \in [step: {"no", "list", "next", "add", "arm"}, dir: Dir, remove: BOOLEAN,
                     todo: SUBSET Name, file: Name \cup {""}]
  /\ NotScanning.step = "no"
BY AutoLoadAssumption DEF NotScanning

\* Every step of auto_load and of the session keeps its invariant, one step of the proof per action.
LEMMA LoadStep ==
  ASSUME LoadInv, AutoLoadNext
  PROVE  LoadInv'
<1>1. /\ ScanTypes /\ m_dir \in Dir /\ m_remove_files \in BOOLEAN
      /\ files \in [Path -> {"absent", "partial", "whole"}]
      /\ scan.step = "add" => scan.file \notin m_already_loaded
  BY DEF LoadInv, LoadTypes, OneEach
<1>2. ASSUME UNCHANGED <<loadVars, sessionVars, scan>>,
             files' \in [Path -> {"absent", "partial", "whole"}], m_dir' \in Dir, m_remove_files' \in BOOLEAN
      PROVE  LoadInv'
  BY <1>1, <1>2, ScanKept DEF ScanTypes
<1>3. ASSUME NEW p \in Path, FileWritten(p) PROVE LoadInv'
  BY <1>1, <1>2, <1>3 DEF FileWritten, settingsVars
<1>4. CASE Expires \/ JoinThread \/ Abort \/ \E s \in Setter : LookAgain(s) \/ SetTimer(s)
  <2>1. UNCHANGED <<loadVars, sessionVars, scan, files, settingsVars>>
    BY <1>4 DEF Expires, JoinThread, Abort, LookAgain, SetTimer
  <2>. QED
    BY <1>1, <1>2, <2>1 DEF settingsVars
<1>5. ASSUME NEW s \in Setter,
             \/ \E r \in BOOLEAN : SetRemoveFiles(s, r)
             \/ \E dir \in Dir : SetAutoLoadDir(s, dir)
             \/ \E v \in {0, 20} : SetScanInterval(s, v)
      PROVE  LoadInv'
  BY <1>1, <1>2, <1>5 DEF SetRemoveFiles, SetAutoLoadDir, SetScanInterval
<1>6. ASSUME UNCHANGED <<files, settingsVars, loadVars, sessionVars>>, ScanTypes',
             scan'.step = "add" => scan'.file \notin m_already_loaded
      PROVE  LoadInv'
  BY <1>1, <1>6, ScanKept DEF settingsVars
<1>7. CASE OnScan
  <2>1. scan' = scan \/ scan' = [NotScanning EXCEPT !.step = "list", !.dir = m_dir, !.remove = m_remove_files]
    BY <1>7 DEF OnScan
  <2>2. PICK d \in Dir, r \in BOOLEAN : d = m_dir /\ r = m_remove_files
    BY <1>1
  <2>3. PICK e : e = NotScanning
    OBVIOUS
  <2>4. e \in [step: {"no", "list", "next", "add", "arm"}, dir: Dir, remove: BOOLEAN,
              todo: SUBSET Name, file: Name \cup {""}]
    BY <2>3, NotScanningTypes
  <2>5. scan' = scan \/ scan' = [e EXCEPT !.step = "list", !.dir = d, !.remove = r]
    BY <2>1, <2>2, <2>3
  <2>6. CASE scan' = scan
    BY <1>1, <1>6, <1>7, <2>6 DEF OnScan, ScanTypes
  <2>7. CASE scan' = [e EXCEPT !.step = "list", !.dir = d, !.remove = r]
    <3>1. ScanTypes' /\ scan'.step = "list"
      BY <2>4, <2>7 DEF ScanTypes
    <3>. QED
      BY <1>6, <1>7, <3>1 DEF OnScan
  <2>. QED
    BY <2>5, <2>6, <2>7
<1>8. CASE ListDir
  <2>1. PICK e \in SUBSET Name : scan' = [scan EXCEPT !.step = "next", !.todo = e]
    BY <1>8 DEF ListDir
  <2>2. ScanTypes' /\ scan'.step = "next"
    BY <1>1, <2>1 DEF ScanTypes
  <2>. QED
    BY <1>6, <1>8, <2>2 DEF ListDir
<1>9. CASE NextFile
  <2>1. PICK n \in scan.todo : scan' = IF Found(n) THEN [scan EXCEPT !.todo = @ \ {n}, !.file = n, !.step = "add"]
                                     ELSE [scan EXCEPT !.todo = @ \ {n}]
    BY <1>9 DEF NextFile
  <2>2. n \in Name /\ scan.step = "next"
    BY <1>1, <1>9 DEF ScanTypes, NextFile
  <2>3. CASE Found(n)
    <3>1. scan' = [scan EXCEPT !.todo = scan.todo \ {n}, !.file = n, !.step = "add"]
      BY <2>1, <2>3
    <3>2. ScanTypes' /\ scan'.file = n
      BY <1>1, <2>2, <3>1 DEF ScanTypes
    <3>. QED
      BY <1>6, <1>9, <2>3, <3>2 DEF NextFile, Found
  <2>4. CASE ~Found(n)
    <3>1. scan' = [scan EXCEPT !.todo = scan.todo \ {n}]
      BY <2>1, <2>4
    <3>2. ScanTypes' /\ scan'.step = "next"
      BY <1>1, <2>2, <3>1 DEF ScanTypes
    <3>. QED
      BY <1>6, <1>9, <3>2 DEF NextFile
  <2>. QED
    BY <2>3, <2>4
<1>10. CASE EndScan \/ Rearm
  <2>1. scan' = NotScanning \/ scan' = [scan EXCEPT !.step = "arm"]
    BY <1>10 DEF EndScan, Rearm
  <2>2. PICK e : e = NotScanning
    OBVIOUS
  <2>3. ScanTypes' /\ scan'.step # "add"
    <3>1. CASE scan' = e
      BY <2>2, <3>1, NotScanningTypes DEF ScanTypes
    <3>2. CASE scan' = [scan EXCEPT !.step = "arm"]
      BY <1>1, <3>2 DEF ScanTypes
    <3>. QED
      BY <2>1, <2>2, <3>1, <3>2
  <2>. QED
    BY <1>6, <1>10, <2>3 DEF EndScan, Rearm
<1>. QED
  BY <1>3, <1>4, <1>5, <1>7, <1>8, <1>9, <1>10, AddFileKept, SessionAddsKept, HandleAlertKept,
     RemoveFileKept, EraseNameKept DEF AutoLoadNext, ThreadStep

\* auto_load keeps what it knows of files, names and adds consistent.
THEOREM AutoLoadInvariant == Spec => []LoadInv
<1>1. Init => LoadInv
  <2>. SUFFICES ASSUME Init PROVE LoadInv
    OBVIOUS
  <2>1. <<>> \in Seq(Alert) /\ DOMAIN <<>> = {}
    OBVIOUS
  <2>2. ScanTypes /\ RemovingTypes /\ scan.step = "no" /\ removing.step = "no"
    BY AutoLoadAssumption
       DEF Init, AutoLoadInit, ScanTypes, RemovingTypes, NotScanning, NotRemoving
  <2>3. LoadTypes
    BY <2>1, <2>2, AutoLoadAssumption DEF Init, AutoLoadInit, LoadTypes, NoId
  <2>. QED
    BY <2>1, <2>2, <2>3 DEF Init, AutoLoadInit, LoadInv, AddedFirst, OneEach
<1>2. LoadInv /\ [Next]_servicesVars => LoadInv'
  <2>1. ASSUME LoadInv, UNCHANGED autoLoadVars PROVE LoadInv'
    <3>1. UNCHANGED <<loadVars, sessionVars, scan, files, settingsVars>>
      BY <2>1 DEF autoLoadVars, loadVars, sessionVars, settingsVars
    <3>2. ScanTypes' /\ (scan'.step = "add" => scan'.file \notin m_already_loaded)
      BY <2>1, <3>1 DEF LoadInv, LoadTypes, OneEach, ScanTypes
    <3>. QED
      BY <2>1, <3>1, <3>2, ScanKept DEF LoadInv, LoadTypes, settingsVars
  <2>. QED
    BY <2>1, LoadStep DEF Next, servicesVars, OfAutoLoad, OfFileRequests
<1>. QED
  BY <1>1, <1>2, PTL DEF Spec, Safety

\* libtorrent is asked once for each file, however many scans, changes of the
\* directory and alerts there are before it answers; and a name stays known only
\* for a reason.
THEOREM AskedOnce == Spec => []LoadedOnce
<1>1. LoadInv => LoadedOnce
  <2>. SUFFICES ASSUME LoadInv PROVE LoadedOnce
    OBVIOUS
  <2>. DEFINE A == {[path |-> added[i].path, id |-> added[i].id] : i \in DOMAIN added}
  <2>1. ASSUME NEW a \in submitted \cup A, NEW b \in submitted \cup A, a.path = b.path PROVE a = b
    <3>1. ASSUME NEW c \in A PROVE \E i \in DOMAIN added :
            c = [path |-> added[i].path, id |-> added[i].id] /\ c.path = added[i].path
      OBVIOUS
    <3>2. CASE a \in submitted /\ b \in submitted
      BY <2>1, <3>2 DEF LoadInv, OneEach
    <3>3. CASE a \in submitted /\ b \in A
      BY <2>1, <3>1, <3>3 DEF LoadInv, OneEach
    <3>4. CASE a \in A /\ b \in submitted
      BY <2>1, <3>1, <3>4 DEF LoadInv, OneEach
    <3>5. CASE a \in A /\ b \in A
      <4>1. PICK i \in DOMAIN added : a = [path |-> added[i].path, id |-> added[i].id] /\ a.path = added[i].path
        BY <3>1, <3>5
      <4>2. PICK j \in DOMAIN added : b = [path |-> added[j].path, id |-> added[j].id] /\ b.path = added[j].path
        BY <3>1, <3>5
      <4>3. i = j
        BY <2>1, <4>1, <4>2 DEF LoadInv, OneEach
      <4>. QED
        BY <4>1, <4>2, <4>3
    <3>. QED
      BY <3>2, <3>3, <3>4, <3>5
  <2>2. \A n \in m_already_loaded : \E p \in Path : Reason(n, p)
    BY DEF LoadInv, OneEach
  <2>. QED
    BY <2>1, <2>2 DEF LoadedOnce, Reason
<1>. QED
  BY <1>1, AutoLoadInvariant, PTL

\* Only the file of a torrent that was added is removed, also when other alerts and
\* changes come between.
THEOREM OnlyAddedRemoved == Spec => RemovedWasAdded
<1>1. LoadInv /\ [Next]_servicesVars
        => [\A p \in Path : files[p] # "absent" /\ files'[p] = "absent" => p \in loaded]_autoLoadVars
  <2>. SUFFICES ASSUME LoadInv, AutoLoadNext, NEW p \in Path, files[p] # "absent", files'[p] = "absent"
                PROVE  p \in loaded
    BY DEF Next, servicesVars, OfAutoLoad, OfFileRequests, autoLoadVars
  <2>1. files \in [Path -> {"absent", "partial", "whole"}]
    BY DEF LoadInv, LoadTypes
  <2>2. ASSUME NEW q \in Path, FileWritten(q) PROVE FALSE
    BY <2>1, <2>2 DEF FileWritten
  <2>3. CASE RemoveFile
    <3>1. removing.step = "remove" /\ removing.path \in loaded
      BY <2>3 DEF RemoveFile, LoadInv, AddedFirst
    <3>2. p = removing.path
      BY <2>1, <2>3 DEF RemoveFile
    <3>. QED
      BY <3>1, <3>2
  <2>4. files' # files
    OBVIOUS
  <2>5. ~(ThreadStep \/ Expires \/ HandleAlert \/ EraseName \/ Abort)
    BY <2>4 DEF ThreadStep, OnScan, ListDir, NextFile, AddFile, EndScan, Rearm, JoinThread, Expires,
                HandleAlert, EraseName, Abort
  <2>6. ~\E s \in Setter :
           \/ \E r \in BOOLEAN : SetRemoveFiles(s, r)
           \/ \E dir \in Dir : SetAutoLoadDir(s, dir)
           \/ \E v \in {0, 20} : SetScanInterval(s, v)
           \/ LookAgain(s) \/ SetTimer(s)
    BY <2>4 DEF SetRemoveFiles, SetAutoLoadDir, SetScanInterval, LookAgain, SetTimer
  <2>7. ~\E a \in submitted : SessionAdds(a)
    BY <2>4 DEF SessionAdds
  <2>. QED
    BY <2>2, <2>3, <2>5, <2>6, <2>7 DEF AutoLoadNext
<1>. QED
  BY <1>1, AutoLoadInvariant, PTL DEF Spec, Safety, RemovedWasAdded

TimerTypes == armed \in Nat /\ expired \in Nat
SetterTypes == setting \in [Setter -> {"no", "look", "cancel", "arm", "scan now"}]

DueTypes == TimerTypes /\ SetterTypes

\* What a step leaves of the next scan: it is still to come, but for a stale cancel.
GoesOn == DueTypes' /\ (Scheduled => Scheduled' \/ StaleCancel)

\* A step that touches neither the timer, nor the setters, nor the scan leaves the next scan
\* as due as it was.
LEMMA DueSame ==
  ASSUME DueTypes, UNCHANGED <<armed, expired, setting, m_scan_interval, m_abort, scan>>
  PROVE  GoesOn
BY DEF DueTypes, GoesOn, Scheduled, ScanToCome, TimerTypes, SetterTypes

\* The thread: between two scans, and in one.
LEMMA DueThreadStep ==
  ASSUME LoadInv, DueTypes, ThreadStep
  PROVE  GoesOn
<1>1. TimerTypes /\ ScanTypes
  BY DEF DueTypes, LoadInv, LoadTypes
<1>2. ASSUME UNCHANGED <<armed, expired, setting, m_scan_interval, m_abort>>, scan.step # "no",
             scan'.step # "no" \/ m_scan_interval = 0
      PROVE  GoesOn
  BY <1>2 DEF DueTypes, GoesOn, Scheduled, ScanToCome, TimerTypes, SetterTypes
<1>3. CASE OnScan
  <2>1. expired \in Nat /\ expired > 0 /\ expired' = expired - 1 /\ armed' = armed
        /\ UNCHANGED <<m_scan_interval, setting, m_abort>>
    BY <1>1, <1>3 DEF OnScan, TimerTypes, settingsVars
  <2>2. TimerTypes'
    BY <1>1, <2>1 DEF TimerTypes
  <2>3. m_abort \/ m_scan_interval = 0 \/ scan'.step = "list"
    <3>1. PICK e : e = NotScanning
      OBVIOUS
    <3>2. e \in [step: {"no", "list", "next", "add", "arm"}, dir: Dir, remove: BOOLEAN,
                todo: SUBSET Name, file: Name \cup {""}]
      BY <3>1, NotScanningTypes
    <3>3. ~(m_abort \/ m_scan_interval = 0) => scan' = [e EXCEPT !.step = "list", !.dir = m_dir, !.remove = m_remove_files]
      BY <1>3, <3>1 DEF OnScan
    <3>. QED
      BY <3>2, <3>3
  <2>. QED
    BY <2>1, <2>2, <2>3 DEF DueTypes, GoesOn, Scheduled, ScanToCome, SetterTypes
<1>4. CASE ListDir
  <2>1. PICK e : scan' = [scan EXCEPT !.step = "next", !.todo = e]
    BY <1>4 DEF ListDir
  <2>. QED
    BY <1>1, <1>2, <1>4, <2>1 DEF ListDir, ScanTypes, settingsVars, timerVars
<1>5. CASE NextFile
  <2>1. PICK n : scan' = [scan EXCEPT !.todo = @ \ {n}, !.file = n, !.step = "add"]
                 \/ scan' = [scan EXCEPT !.todo = @ \ {n}]
    BY <1>5 DEF NextFile
  <2>2. scan'.step # "no" /\ scan.step # "no"
    BY <1>1, <1>5, <2>1 DEF NextFile, ScanTypes
  <2>. QED
    BY <1>2, <1>5, <2>2 DEF NextFile, settingsVars, timerVars
<1>6. CASE AddFile
  <2>1. scan' = [scan EXCEPT !.step = "next", !.file = ""] /\ scan.step = "add"
    BY <1>6 DEF AddFile
  <2>2. scan'.step # "no" /\ scan.step # "no"
    BY <1>1, <2>1 DEF ScanTypes
  <2>. QED
    BY <1>2, <1>6, <2>2 DEF AddFile, settingsVars, timerVars
<1>7. CASE EndScan
  <2>1. scan.step = "next" /\ (m_scan_interval = 0 \/ scan' = [scan EXCEPT !.step = "arm"])
    BY <1>7 DEF EndScan
  <2>2. m_scan_interval = 0 \/ scan'.step # "no"
    BY <1>1, <2>1 DEF ScanTypes
  <2>. QED
    BY <1>2, <1>7, <2>1, <2>2 DEF EndScan, settingsVars, timerVars
<1>8. CASE Rearm
  <2>1. armed' = 1 /\ expired' = expired /\ UNCHANGED <<setting, m_scan_interval, m_abort>>
    BY <1>8 DEF Rearm, Arm, settingsVars
  <2>2. TimerTypes' /\ armed' + expired' > 0
    BY <1>1, <2>1 DEF TimerTypes
  <2>. QED
    BY <2>1, <2>2 DEF DueTypes, GoesOn, Scheduled, ScanToCome, SetterTypes
<1>9. CASE JoinThread
  <2>1. UNCHANGED <<armed, expired, setting, m_scan_interval, m_abort, scan>>
    BY <1>9 DEF JoinThread, settingsVars, timerVars
  <2>. QED
    BY <2>1, DueSame
<1>. QED
  BY <1>3, <1>4, <1>5, <1>6, <1>7, <1>8, <1>9 DEF ThreadStep

\* Every step but a stale cancel leaves a scan due: armed, expired, asked for or under way,
\* whatever the other callers are at.
LEMMA DueStep ==
  ASSUME LoadInv, DueTypes, AutoLoadNext
  PROVE  GoesOn
<1>1. TimerTypes /\ SetterTypes
  BY DEF DueTypes
<1>2. ASSUME UNCHANGED <<armed, expired, setting, m_scan_interval, m_abort, scan>> PROVE GoesOn
  BY <1>2, DueSame
<1>3. CASE Expires
  <2>1. armed' + expired' = armed + expired /\ TimerTypes'
    BY <1>1, <1>3 DEF Expires, TimerTypes
  <2>. QED
    BY <1>3, <2>1 DEF Expires, DueTypes, GoesOn, Scheduled, ScanToCome, SetterTypes, settingsVars
<1>4. ASSUME NEW p \in Path, FileWritten(p) PROVE GoesOn
  BY <1>2, <1>4 DEF FileWritten, settingsVars, timerVars
<1>5. CASE HandleAlert \/ RemoveFile \/ EraseName
  BY <1>2, <1>5 DEF HandleAlert, RemoveFile, EraseName, settingsVars, timerVars
<1>6. ASSUME NEW a \in submitted, SessionAdds(a) PROVE GoesOn
  BY <1>2, <1>6 DEF SessionAdds, settingsVars, timerVars
<1>7. CASE Abort
  BY <1>1, <1>7 DEF Abort, DueTypes, GoesOn, Scheduled, ScanToCome, TimerTypes, SetterTypes, settingsVars
<1>8. ASSUME NEW s \in Setter, NEW r \in BOOLEAN, SetRemoveFiles(s, r) PROVE GoesOn
  BY <1>2, <1>8 DEF SetRemoveFiles, timerVars
<1>9. ASSUME NEW s \in Setter, NEW dir \in Dir, SetAutoLoadDir(s, dir) PROVE GoesOn
  <2>1. setting' = [setting EXCEPT ![s] = "scan now"] /\ UNCHANGED <<armed, expired, m_scan_interval, m_abort, scan>>
    BY <1>9 DEF SetAutoLoadDir, timerVars
  <2>2. TimerTypes' /\ SetterTypes' /\ setting'[s] = "scan now"
    BY <1>1, <2>1 DEF TimerTypes, SetterTypes
  <2>. QED
    BY <2>1, <2>2 DEF DueTypes, GoesOn, Scheduled, ScanToCome
<1>10. ASSUME NEW s \in Setter, NEW v \in {0, 20}, SetScanInterval(s, v) PROVE GoesOn
  <2>1. CASE m_scan_interval = v
    BY <1>2, <1>10, <2>1 DEF SetScanInterval, timerVars
  <2>2. CASE m_scan_interval # v
    <3>1. setting' = [setting EXCEPT ![s] = "look"] /\ UNCHANGED <<armed, expired, m_abort, scan>>
      BY <1>10, <2>2 DEF SetScanInterval, timerVars
    <3>2. TimerTypes' /\ SetterTypes' /\ setting'[s] = "look"
      BY <1>1, <3>1 DEF TimerTypes, SetterTypes
    <3>. QED
      BY <3>2 DEF DueTypes, GoesOn, Scheduled, ScanToCome
  <2>. QED
    BY <2>1, <2>2
<1>11. ASSUME NEW s \in Setter, LookAgain(s) PROVE GoesOn
  <2>1. setting' = [setting EXCEPT ![s] = IF m_scan_interval = 0 THEN "cancel" ELSE "arm"]
        /\ UNCHANGED <<armed, expired, m_scan_interval, m_abort, scan>>
    BY <1>11 DEF LookAgain, timerVars, settingsVars
  <2>2. TimerTypes' /\ SetterTypes' /\ (m_scan_interval # 0 => setting'[s] = "arm")
    BY <1>1, <2>1 DEF TimerTypes, SetterTypes
  <2>. QED
    BY <2>1, <2>2 DEF DueTypes, GoesOn, Scheduled, ScanToCome
<1>12. ASSUME NEW s \in Setter, SetTimer(s) PROVE GoesOn
  <2>1. /\ setting' = [setting EXCEPT ![s] = "no"] /\ expired' = expired
        /\ UNCHANGED <<m_scan_interval, m_abort, scan>>
        /\ IF setting[s] = "cancel" THEN armed' = 0 ELSE armed' = 1
    BY <1>12 DEF SetTimer, Arm, settingsVars
  <2>2. TimerTypes'
    BY <1>1, <2>1 DEF TimerTypes
  <2>3. SetterTypes' /\ setting'[s] = "no"
    BY <1>1, <2>1 DEF SetterTypes
  <2>4. CASE setting[s] = "cancel"
    <3>1. m_scan_interval # 0 => StaleCancel
      BY <2>3, <2>4 DEF StaleCancel
    <3>. QED
      BY <2>1, <2>2, <2>3, <3>1 DEF GoesOn, DueTypes, Scheduled
  <2>5. CASE setting[s] # "cancel"
    <3>1. armed' + expired' > 0
      BY <1>1, <2>1, <2>5 DEF TimerTypes
    <3>. QED
      BY <2>2, <2>3, <3>1 DEF GoesOn, DueTypes, Scheduled, ScanToCome
  <2>. QED
    BY <2>4, <2>5
<1>. QED
  BY <1>3, <1>4, <1>5, <1>6, <1>7, <1>8, <1>9, <1>10, <1>11, <1>12, DueThreadStep DEF AutoLoadNext

\* While scans are on there is one under way or to come, over every order of the scan, the
\* timer and the steps of any number of callers, but for the cancel that comes after another
\* call has enabled scans.
THEOREM ScansGoOn == Spec => ScanScheduled
<1>1. Init => DueTypes /\ Scheduled
  BY DEF Init, AutoLoadInit, DueTypes, TimerTypes, SetterTypes, Scheduled, ScanToCome
<1>2. LoadInv /\ DueTypes /\ [Next]_servicesVars => DueTypes' /\ [Scheduled => Scheduled' \/ StaleCancel]_autoLoadVars
  <2>1. CASE DueTypes /\ UNCHANGED autoLoadVars
    BY <2>1, DueSame DEF autoLoadVars, GoesOn
  <2>2. CASE LoadInv /\ DueTypes /\ AutoLoadNext
    BY <2>2, DueStep DEF GoesOn
  <2>. QED
    BY <2>1, <2>2 DEF Next, servicesVars, OfAutoLoad, OfFileRequests
<1>. QED
  BY <1>1, <1>2, AutoLoadInvariant, PTL DEF Spec, Safety, ScanScheduled

\* What is kept of the settings and of the names.
NameTypes ==
  /\ m_scan_interval \in {0, 20} /\ m_already_loaded \subseteq Name
  /\ loaded \subseteq Path /\ kept \subseteq Path
  /\ joined => m_abort

\* An id is that of one torrent that libtorrent has not answered for, or of one alert.
IdsApart ==
  /\ \A a, b \in submitted : a.id = b.id => a = b \/ a.id = NoId
  /\ \A a \in submitted : \A i \in DOMAIN added : a.id = added[i].id => a.id = NoId
  /\ \A i, j \in DOMAIN added : added[i].id = added[j].id => i = j \/ added[i].id = NoId
  /\ \A id \in DOMAIN m_pending_files :
       (\E a \in submitted : a.id = id) \/ \E i \in DOMAIN added : added[i].id = id

\* Whose timer it is: the one that waits, those that expired, the scan, and those that are
\* going to set it.  Each but the first is there for a change of the settings.
Callers == {s \in Setter : setting[s] # "no"}
ScanBusy == IF scan.step = "no" THEN 0 ELSE 1
TimerBounds ==
  /\ armed \in 0..1 /\ expired \in Nat /\ sets \in Nat /\ sets <= MaxSets
  /\ setting \in [Setter -> {"no", "look", "cancel", "arm", "scan now"}]
  /\ IsFiniteSet(Callers)
Spare == armed + expired + ScanBusy + Cardinality(Callers) <= 1 + sets
Timers == TimerBounds /\ Spare

\* Files of torrents that were added under this name are gone.
GoneIn(L, F, n, but) == \A p \in L : p[2] = n /\ p \notin but => F[p] = "absent"
Gone(n, but) == GoneIn(loaded, files, n, but)

\* A file whose torrent was added is not looked at again: its name is known as long as it
\* is there.
NotAgain ==
  /\ \A p \in loaded : files[p] # "absent" => p[2] \in m_already_loaded
  /\ scan.step = "add" => files[<<scan.dir, scan.file>>] = "whole"
  /\ \A a \in submitted : Gone(a.path[2], {})
  /\ \A i \in DOMAIN added : Gone(added[i].path[2], IF added[i].error THEN {} ELSE {added[i].path})
  /\ removing.step = "remove" => Gone(removing.path[2], {removing.path})
  /\ removing.step = "erase" => Gone(removing.path[2], {})

\* There are ids left for the files that are not asked for.
Unasked == Path \ (loaded \cup {a.path : a \in submitted})
IdsLeft == m_next_pending_id + Cardinality(Unasked) <= MaxAdds

\* Steps that only look, or that others take.
LEMMA NamesKept ==
  ASSUME LoadInv, NameTypes, AutoLoadNext
  PROVE  NameTypes'
<1>1. ASSUME UNCHANGED <<m_already_loaded, kept, loaded, joined, m_abort>>, m_scan_interval' \in {0, 20} PROVE NameTypes'
  BY <1>1 DEF NameTypes
<1>2. m_scan_interval \in {0, 20} /\ (joined => m_abort)
  BY DEF NameTypes
<1>3. ASSUME NEW p \in Path, FileWritten(p) PROVE NameTypes'
  BY <1>1, <1>2, <1>3 DEF FileWritten, settingsVars, loadVars, sessionVars
<1>4. CASE Expires \/ RemoveFile
  BY <1>1, <1>2, <1>4 DEF Expires, RemoveFile, settingsVars, loadVars, sessionVars
<1>5. ASSUME NEW s \in Setter,
             \/ \E r \in BOOLEAN : SetRemoveFiles(s, r)
             \/ \E dir \in Dir : SetAutoLoadDir(s, dir)
             \/ \E v \in {0, 20} : SetScanInterval(s, v)
             \/ LookAgain(s) \/ SetTimer(s)
      PROVE  NameTypes'
  BY <1>1, <1>2, <1>5 DEF SetRemoveFiles, SetAutoLoadDir, SetScanInterval, LookAgain, SetTimer,
                          settingsVars, loadVars, sessionVars
<1>6. CASE OnScan \/ ListDir \/ NextFile \/ EndScan \/ Rearm
  BY <1>1, <1>2, <1>6 DEF OnScan, ListDir, NextFile, EndScan, Rearm, settingsVars, loadVars, sessionVars
<1>7. CASE JoinThread \/ Abort
  BY <1>2, <1>7 DEF JoinThread, Abort, NameTypes, settingsVars, loadVars, sessionVars
<1>8. CASE AddFile
  <2>1. scan.file \in Name /\ <<scan.dir, scan.file>> \in Path
    BY <1>8 DEF AddFile, LoadInv, LoadTypes, ScanTypes, Path
  <2>2. /\ m_already_loaded' = m_already_loaded \cup {scan.file}
        /\ (kept' = kept \/ kept' = kept \cup {<<scan.dir, scan.file>>})
        /\ UNCHANGED <<m_scan_interval, loaded, joined, m_abort>>
    BY <1>8 DEF AddFile, settingsVars
  <2>. QED
    BY <1>2, <2>1, <2>2 DEF NameTypes
<1>9. ASSUME NEW a \in submitted, SessionAdds(a) PROVE NameTypes'
  <2>1. a.path \in Path
    BY DEF LoadInv, LoadTypes, Submitted
  <2>2. /\ (loaded' = loaded \/ loaded' = loaded \cup {a.path})
        /\ UNCHANGED <<m_scan_interval, m_already_loaded, kept, joined, m_abort>>
    BY <1>9 DEF SessionAdds, settingsVars, loadVars
  <2>. QED
    BY <1>2, <2>1, <2>2 DEF NameTypes
<1>10. CASE HandleAlert \/ EraseName
  <2>1. m_already_loaded' \subseteq m_already_loaded /\ UNCHANGED <<m_scan_interval, kept, loaded, joined, m_abort>>
    BY <1>10 DEF HandleAlert, EraseName, NamesLeft, settingsVars
  <2>. QED
    BY <1>2, <2>1 DEF NameTypes
<1>. QED
  BY <1>3, <1>4, <1>5, <1>6, <1>7, <1>8, <1>9, <1>10 DEF AutoLoadNext, ThreadStep

\* What does not touch the torrents that are asked for, nor their ids.
LEMMA IdsSame ==
  ASSUME IdsApart, UNCHANGED <<submitted, added, m_pending_files>>
  PROVE  IdsApart'
BY DEF IdsApart

\* A file gets an id that none had before, or none.
LEMMA AddFileIds ==
  ASSUME LoadInv, IdsApart, AddFile
  PROVE  IdsApart'
<1>1. PICK m \in Nat : m = m_next_pending_id
  BY DEF LoadInv, LoadTypes
<1>2. PICK id \in Nat : id = IF scan.remove THEN m + 1 ELSE 0
  BY <1>1
<1>3. PICK a : a = [path |-> <<scan.dir, scan.file>>, id |-> id]
  OBVIOUS
<1>4. a.id = id
  BY <1>3
<1>5. submitted' = submitted \cup {a} /\ added' = added
  BY <1>1, <1>2, <1>3 DEF AddFile, NoId
<1>6. \/ id = m + 1 /\ DOMAIN m_pending_files' = DOMAIN m_pending_files \cup {id}
      \/ id = 0 /\ m_pending_files' = m_pending_files
  <2>1. CASE scan.remove
    BY <1>1, <1>2, <2>1 DEF AddFile
  <2>2. CASE ~scan.remove
    BY <1>1, <1>2, <2>2 DEF AddFile
  <2>. QED
    BY <2>1, <2>2
<1>7. (\A b \in submitted : b.id \in Nat /\ b.id <= m) /\ \A i \in DOMAIN added : added[i].id \in Nat /\ added[i].id <= m
  <2>1. submitted \subseteq Submitted /\ added \in Seq(Alert)
    BY DEF LoadInv, LoadTypes
  <2>2. \A i \in DOMAIN added : added[i] \in Alert
    BY <2>1
  <2>. QED
    BY <1>1, <2>1, <2>2 DEF LoadInv, OneEach, Underway, Submitted, Alert
<1>8. (\A b \in submitted : b.id = id => id = 0) /\ \A i \in DOMAIN added : added[i].id = id => id = 0
  BY <1>6, <1>7
<1>9. ASSUME NEW k \in DOMAIN m_pending_files'
      PROVE  (\E b \in submitted' : b.id = k) \/ \E i \in DOMAIN added' : added'[i].id = k
  BY <1>4, <1>5, <1>6 DEF IdsApart
<1>10. \A b, c \in submitted' : b.id = c.id => b = c \/ b.id = NoId
  BY <1>4, <1>5, <1>8 DEF IdsApart, NoId
<1>11. \A b \in submitted' : \A i \in DOMAIN added' : b.id = added'[i].id => b.id = NoId
  BY <1>4, <1>5, <1>8 DEF IdsApart, NoId
<1>. QED
  BY <1>5, <1>9, <1>10, <1>11 DEF IdsApart

\* An alert has the id of its torrent.
LEMMA SessionAddsIds ==
  ASSUME LoadInv, IdsApart, NEW a \in submitted, SessionAdds(a)
  PROVE  IdsApart'
<1>1. PICK t \in Seq(Alert) : t = added
  BY DEF LoadInv, LoadTypes
<1>2. PICK error \in BOOLEAN : added' = Append(added, [path |-> a.path, id |-> a.id, error |-> error])
  BY DEF SessionAdds
<1>3. PICK e : e = [path |-> a.path, id |-> a.id, error |-> error]
  OBVIOUS
<1>4. e \in Alert /\ e.id = a.id
  BY <1>3 DEF Alert, Submitted, LoadInv, LoadTypes
<1>5. PICK n \in Nat : n = Len(t)
  OBVIOUS
<1>6. /\ added' = Append(t, e) /\ DOMAIN t = 1..n /\ DOMAIN added' = 1..(n + 1)
      /\ added'[n + 1] = e /\ \A i \in 1..n : added'[i] = t[i]
  BY <1>1, <1>2, <1>3, <1>4, <1>5, AppendProperties
<1>7. \A i : i \in 1..(n + 1) <=> i \in 1..n \/ i = n + 1
  OBVIOUS
<1>8. submitted' = submitted \ {a} /\ m_pending_files' = m_pending_files
  BY DEF SessionAdds, loadVars
<1>9. \A i, j \in DOMAIN added' : added'[i].id = added'[j].id => i = j \/ added'[i].id = NoId
  BY <1>1, <1>4, <1>6, <1>7 DEF IdsApart
<1>10. \A b \in submitted' : \A i \in DOMAIN added' : b.id = added'[i].id => b.id = NoId
  BY <1>1, <1>4, <1>6, <1>7, <1>8 DEF IdsApart
<1>11. ASSUME NEW k \in DOMAIN m_pending_files
       PROVE  (\E b \in submitted' : b.id = k) \/ \E i \in DOMAIN added' : added'[i].id = k
  <2>1. CASE a.id = k
    BY <1>4, <1>6, <1>7, <2>1
  <2>2. CASE \E b \in submitted : b.id = k /\ b # a
    BY <1>8, <2>2
  <2>3. CASE \E i \in DOMAIN added : added[i].id = k
    BY <1>1, <1>6, <1>7, <2>3
  <2>. QED
    BY <2>1, <2>2, <2>3 DEF IdsApart
<1>. QED
  BY <1>8, <1>9, <1>10, <1>11 DEF IdsApart

\* The id of an alert that is handled is not waited for any more.
LEMMA HandleAlertIds ==
  ASSUME LoadInv, IdsApart, HandleAlert
  PROVE  IdsApart'
<1>1. PICK t \in Seq(Alert) : t = added /\ t # <<>>
  BY DEF LoadInv, LoadTypes, HandleAlert
<1>2. PICK n \in Nat : n = Len(t) /\ 1 <= n
  BY <1>1, EmptySeq
<1>3. /\ added' = Tail(t) /\ DOMAIN t = 1..n /\ DOMAIN added' = 1..(n - 1)
      /\ \A i \in 1..(n - 1) : added'[i] = t[i + 1]
  BY <1>1, <1>2, HeadTailProperties DEF HandleAlert
<1>4. ASSUME NEW i \in DOMAIN added' PROVE i \in Nat /\ i + 1 \in DOMAIN t /\ added'[i] = t[i + 1]
  BY <1>2, <1>3
<1>5. submitted' = submitted
  BY DEF HandleAlert
<1>6. ASSUME NEW k \in DOMAIN m_pending_files' PROVE k \in DOMAIN m_pending_files /\ k # t[1].id
  BY <1>1, <1>6 DEF HandleAlert
<1>7. ASSUME NEW k \in DOMAIN m_pending_files', NEW j \in DOMAIN t, t[j].id = k
      PROVE  \E i \in DOMAIN added' : added'[i].id = k
  <2>1. j \in 1..n /\ j # 1
    BY <1>3, <1>6, <1>7
  <2>2. PICK i : i = j - 1
    OBVIOUS
  <2>3. i \in 1..(n - 1) /\ i + 1 = j
    BY <1>2, <2>1, <2>2
  <2>. QED
    BY <1>3, <1>7, <2>3
<1>8. \A k \in DOMAIN m_pending_files' :
        (\E a \in submitted' : a.id = k) \/ \E i \in DOMAIN added' : added'[i].id = k
  BY <1>1, <1>5, <1>6, <1>7 DEF IdsApart
<1>9. ASSUME NEW i \in DOMAIN added', NEW j \in DOMAIN added', added'[i].id = added'[j].id
      PROVE  i = j \/ added'[i].id = NoId
  <2>1. i + 1 = j + 1 \/ t[i + 1].id = NoId
    BY <1>1, <1>4, <1>9 DEF IdsApart
  <2>. QED
    BY <1>4, <2>1
<1>10. \A a \in submitted' : \A i \in DOMAIN added' : a.id = added'[i].id => a.id = NoId
  BY <1>1, <1>4, <1>5 DEF IdsApart
<1>. QED
  BY <1>5, <1>8, <1>9, <1>10 DEF IdsApart

\* No step gives one id to two files.
LEMMA IdsStep ==
  ASSUME LoadInv, IdsApart, AutoLoadNext
  PROVE  IdsApart'
<1>1. ASSUME NEW p \in Path, FileWritten(p) PROVE IdsApart'
  BY <1>1, IdsSame DEF FileWritten, loadVars, sessionVars
<1>2. CASE Expires \/ RemoveFile \/ EraseName \/ Abort
  BY <1>2, IdsSame DEF Expires, RemoveFile, EraseName, Abort, loadVars, sessionVars
<1>3. ASSUME NEW s \in Setter,
             \/ \E r \in BOOLEAN : SetRemoveFiles(s, r)
             \/ \E dir \in Dir : SetAutoLoadDir(s, dir)
             \/ \E v \in {0, 20} : SetScanInterval(s, v)
             \/ LookAgain(s) \/ SetTimer(s)
      PROVE  IdsApart'
  BY <1>3, IdsSame DEF SetRemoveFiles, SetAutoLoadDir, SetScanInterval, LookAgain, SetTimer, loadVars, sessionVars
<1>4. CASE OnScan \/ ListDir \/ NextFile \/ EndScan \/ Rearm \/ JoinThread
  BY <1>4, IdsSame DEF OnScan, ListDir, NextFile, EndScan, Rearm, JoinThread, loadVars, sessionVars
<1>. QED
  BY <1>1, <1>2, <1>3, <1>4, AddFileIds, SessionAddsIds, HandleAlertIds DEF AutoLoadNext, ThreadStep

\* The numbers, and what they are when a step changed them.
LEMMA TimersNow ==
  ASSUME Timers
  PROVE  \E b, a \in 0..1 : \E c, e, n, m \in Nat :
           /\ b = ScanBusy /\ a = armed /\ c = Cardinality(Callers) /\ e = expired /\ n = sets /\ m = MaxSets
           /\ a + e + b + c <= 1 + n /\ n <= m
<1>1. ScanBusy \in 0..1
  BY DEF ScanBusy
<1>2. Cardinality(Callers) \in Nat
  BY FS_CardinalityType DEF Timers, TimerBounds
<1>3. armed \in 0..1 /\ expired \in Nat /\ sets \in Nat /\ sets <= MaxSets
  BY DEF Timers, TimerBounds
<1>4. MaxSets \in Nat
  BY AutoLoadAssumption
<1>. QED
  BY <1>1, <1>2, <1>3, <1>4 DEF Timers, Spare

\* The account of the timers, of numbers that are those of the next state.
LEMMA TimersThen ==
  ASSUME NEW a \in 0..1, NEW b \in 0..1, NEW c \in Nat, NEW e \in Nat, NEW n \in Nat, NEW m \in Nat,
         b = ScanBusy', a = armed', c = Cardinality(Callers'), e = expired', n = sets', m = MaxSets,
         a + e + b + c <= 1 + n, n <= m, IsFiniteSet(Callers'),
         setting' \in [Setter -> {"no", "look", "cancel", "arm", "scan now"}]
  PROVE  Timers'
BY DEF Timers, TimerBounds, Spare

\* The number of those that call.
LEMMA CallersSame ==
  ASSUME Timers, setting' = setting
  PROVE  /\ Callers' = Callers /\ IsFiniteSet(Callers')
         /\ setting' \in [Setter -> {"no", "look", "cancel", "arm", "scan now"}]
BY DEF Timers, TimerBounds, Callers

\* A step that touches no timer and starts no scan keeps the account.
LEMMA TimersSame ==
  ASSUME Timers, UNCHANGED <<armed, expired, setting>>, sets' \in Nat, sets <= sets', sets' <= MaxSets,
         scan.step # "no" \/ scan'.step = "no"
  PROVE  Timers'
<1>1. PICK a, b \in 0..1, c, e, n, m \in Nat :
        /\ b = ScanBusy /\ a = armed /\ c = Cardinality(Callers) /\ e = expired /\ n = sets /\ m = MaxSets
        /\ a + e + b + c <= 1 + n /\ n <= m
  BY TimersNow
<1>2. PICK d \in 0..1, k \in Nat : d = ScanBusy' /\ d <= b /\ k = sets' /\ n <= k /\ k <= m
  BY <1>1 DEF ScanBusy
<1>3. a + e + d + c <= 1 + k
  BY <1>1, <1>2
<1>. QED
  BY <1>1, <1>2, <1>3, CallersSame, TimersThen

\* One more that is going to set the timer, and one fewer.
Comes(s) ==
  /\ setting[s] = "no" /\ \E to \in {"look", "scan now"} : setting' = [setting EXCEPT ![s] = to]
  /\ sets < MaxSets /\ sets' = sets + 1
  /\ UNCHANGED <<armed, expired, scan>>

\* A change of the settings pays for the call it makes.
LEMMA CallerComes ==
  ASSUME Timers, NEW s \in Setter, Comes(s)
  PROVE  Timers'
<1>1. PICK a, b \in 0..1, c, e, n, m \in Nat :
        /\ b = ScanBusy /\ a = armed /\ c = Cardinality(Callers) /\ e = expired /\ n = sets /\ m = MaxSets
        /\ a + e + b + c <= 1 + n /\ n <= m
  BY TimersNow
<1>2. Callers' = Callers \cup {s} /\ s \notin Callers /\ setting' \in [Setter -> {"no", "look", "cancel", "arm", "scan now"}]
  BY DEF Callers, Timers, TimerBounds, Comes
<1>3. IsFiniteSet(Callers') /\ Cardinality(Callers') = Cardinality(Callers) + 1
  BY <1>2, FS_AddElement DEF Timers, TimerBounds
<1>4. n < m /\ sets' = n + 1 /\ Cardinality(Callers') = c + 1
  BY <1>1, <1>3 DEF Comes
<1>5. PICK k, x \in Nat : k = n + 1 /\ x = c + 1
  OBVIOUS
<1>6. a + e + b + x <= 1 + k /\ k <= m
  <2>1. a + e + b + c <= 1 + n
    BY <1>1
  <2>2. a \in Nat /\ b \in Nat
    OBVIOUS
  <2>. QED
    BY <1>4, <1>5, <2>1, <2>2
<1>7. ScanBusy' = b /\ armed' = a /\ expired' = e
  BY <1>1 DEF ScanBusy, Comes
<1>. QED
  BY <1>1, <1>2, <1>3, <1>4, <1>5, <1>6, <1>7, TimersThen

\* A call that sets the timer leaves it armed at most once.
LEMMA CallerGoes ==
  ASSUME Timers, NEW s \in Setter, SetTimer(s)
  PROVE  Timers'
<1>1. PICK a, b \in 0..1, c, e, n, m \in Nat :
        /\ b = ScanBusy /\ a = armed /\ c = Cardinality(Callers) /\ e = expired /\ n = sets /\ m = MaxSets
        /\ a + e + b + c <= 1 + n /\ n <= m
  BY TimersNow
<1>2. /\ setting[s] \in {"cancel", "arm", "scan now"} /\ setting' = [setting EXCEPT ![s] = "no"]
      /\ UNCHANGED <<expired, scan, sets>>
  BY DEF SetTimer, Arm
<1>3. armed' = 0 \/ armed' = 1
  BY DEF SetTimer, Arm
<1>4. Callers' = Callers \ {s} /\ s \in Callers /\ setting' \in [Setter -> {"no", "look", "cancel", "arm", "scan now"}]
  BY <1>2 DEF Callers, Timers, TimerBounds
<1>5. IsFiniteSet(Callers') /\ Cardinality(Callers') = Cardinality(Callers) - 1
  BY <1>4, FS_RemoveElement DEF Timers, TimerBounds
<1>6. PICK x \in Nat : x = Cardinality(Callers') /\ x = c - 1
  BY <1>1, <1>5, FS_CardinalityType
<1>7. PICK y \in 0..1 : y = armed'
  BY <1>3
<1>8. y + e + b + x <= 1 + n
  BY <1>1, <1>6, <1>7
<1>9. ScanBusy' = b
  BY <1>1, <1>2 DEF ScanBusy
<1>. QED
  BY <1>1, <1>2, <1>4, <1>5, <1>6, <1>7, <1>8, <1>9, TimersThen

\* The handler of a timer begins a scan, or does not.
LEMMA OnScanTimers ==
  ASSUME Timers, OnScan
  PROVE  Timers'
<1>1. PICK a, b \in 0..1, c, e, n, m \in Nat :
        /\ b = ScanBusy /\ a = armed /\ c = Cardinality(Callers) /\ e = expired /\ n = sets /\ m = MaxSets
        /\ a + e + b + c <= 1 + n /\ n <= m
  BY TimersNow
<1>2. /\ scan.step = "no" /\ expired > 0 /\ expired' = expired - 1 /\ UNCHANGED <<armed, setting, sets>>
  BY DEF OnScan
<1>3. b = 0
  BY <1>1, <1>2 DEF ScanBusy
<1>4. PICK d \in 0..1 : d = ScanBusy'
  BY DEF ScanBusy
<1>5. PICK x \in Nat : x = expired' /\ x = e - 1
  BY <1>1, <1>2
<1>6. a + x + d + c <= 1 + n
  BY <1>1, <1>3, <1>5
<1>. QED
  BY <1>1, <1>2, <1>4, <1>5, <1>6, CallersSame, TimersThen

\* At its end it waits for the timer again.
LEMMA RearmTimers ==
  ASSUME Timers, Rearm
  PROVE  Timers'
<1>1. PICK a, b \in 0..1, c, e, n, m \in Nat :
        /\ b = ScanBusy /\ a = armed /\ c = Cardinality(Callers) /\ e = expired /\ n = sets /\ m = MaxSets
        /\ a + e + b + c <= 1 + n /\ n <= m
  BY TimersNow
<1>2. scan.step = "arm" /\ scan'.step = "no" /\ armed' = 1 /\ UNCHANGED <<expired, setting, sets>>
  BY DEF Rearm, Arm, NotScanning
<1>3. PICK y, d \in 0..1 : y = 1 /\ d = 0 /\ y = armed' /\ b = 1 /\ d = ScanBusy'
  BY <1>1, <1>2 DEF ScanBusy
<1>4. y + e + d + c <= 1 + n
  BY <1>1, <1>3
<1>. QED
  BY <1>1, <1>2, <1>3, <1>4, CallersSame, TimersThen

\* The timer expires, or is canceled.
LEMMA TimerFires ==
  ASSUME Timers, Expires \/ Abort
  PROVE  Timers'
<1>1. PICK a, b \in 0..1, c, e, n, m \in Nat :
        /\ b = ScanBusy /\ a = armed /\ c = Cardinality(Callers) /\ e = expired /\ n = sets /\ m = MaxSets
        /\ a + e + b + c <= 1 + n /\ n <= m
  BY TimersNow
<1>2. /\ armed' = 0 /\ (expired' = expired + armed \/ expired' = expired)
      /\ UNCHANGED <<scan, setting, sets>>
  BY DEF Expires, Abort
<1>3. ScanBusy' = b
  BY <1>1, <1>2 DEF ScanBusy
<1>4. PICK x \in Nat : x = expired' /\ x <= e + a
  BY <1>1, <1>2
<1>6. PICK y \in 0..1 : y = 0 /\ y = armed'
  BY <1>2
<1>5. y + x + b + c <= 1 + n
  BY <1>1, <1>4, <1>6
<1>. QED
  BY <1>1, <1>2, <1>3, <1>4, <1>5, <1>6, CallersSame, TimersThen

\* A call that looks at the directory again touches no timer.
LEMMA LookAgainTimers ==
  ASSUME Timers, NEW s \in Setter, LookAgain(s)
  PROVE  Timers'
<1>1. PICK to \in {"cancel", "arm"} : setting' = [setting EXCEPT ![s] = to]
  BY DEF LookAgain
<1>2. setting[s] = "look" /\ UNCHANGED <<armed, expired, scan, sets>>
  BY DEF LookAgain, timerVars
<1>3. Callers' = Callers /\ setting' \in [Setter -> {"no", "look", "cancel", "arm", "scan now"}]
  BY <1>1, <1>2 DEF Callers, Timers, TimerBounds
<1>. QED
  BY <1>2, <1>3 DEF Timers, TimerBounds, Spare, ScanBusy

\* No step arms more timers than there were changes of the settings.
LEMMA TimersStep ==
  ASSUME LoadInv, Timers, AutoLoadNext
  PROVE  Timers'
<1>1. MaxSets \in Nat /\ sets \in Nat /\ sets <= MaxSets
  BY AutoLoadAssumption DEF Timers, TimerBounds
<1>2. ASSUME UNCHANGED <<armed, expired, setting, sets>>, scan.step # "no" \/ scan'.step = "no" PROVE Timers'
  BY <1>1, <1>2, TimersSame
<1>3. ASSUME NEW p \in Path, FileWritten(p) PROVE Timers'
  BY <1>2, <1>3 DEF FileWritten, timerVars
<1>4. CASE RemoveFile \/ HandleAlert \/ EraseName
  BY <1>2, <1>4 DEF RemoveFile, HandleAlert, EraseName, timerVars
<1>5. ASSUME NEW a \in submitted, SessionAdds(a) PROVE Timers'
  BY <1>2, <1>5 DEF SessionAdds, timerVars
<1>6. CASE ListDir \/ NextFile \/ AddFile \/ EndScan
  BY <1>2, <1>6 DEF ListDir, NextFile, AddFile, EndScan, timerVars
<1>7. CASE JoinThread
  BY <1>2, <1>7 DEF JoinThread, timerVars
<1>8. ASSUME sets' = sets + 1, sets < MaxSets PROVE sets' \in Nat /\ sets <= sets' /\ sets' <= MaxSets
  BY <1>1, <1>8
<1>9. ASSUME NEW s \in Setter, NEW r \in BOOLEAN, SetRemoveFiles(s, r) PROVE Timers'
  BY <1>8, <1>9, TimersSame DEF SetRemoveFiles, MaySet, timerVars
<1>10. ASSUME NEW s \in Setter, NEW dir \in Dir, SetAutoLoadDir(s, dir) PROVE Timers'
  BY <1>10, CallerComes DEF SetAutoLoadDir, MaySet, timerVars, Comes
<1>11. ASSUME NEW s \in Setter, NEW v \in {0, 20}, SetScanInterval(s, v) PROVE Timers'
  <2>1. CASE m_scan_interval = v
    BY <1>8, <1>11, <2>1, TimersSame DEF SetScanInterval, MaySet, timerVars
  <2>2. CASE m_scan_interval # v
    BY <1>11, <2>2, CallerComes DEF SetScanInterval, MaySet, timerVars, Comes
  <2>. QED
    BY <2>1, <2>2
<1>. QED
  BY <1>3, <1>4, <1>5, <1>6, <1>7, <1>9, <1>10, <1>11, OnScanTimers, RearmTimers, TimerFires, LookAgainTimers,
     CallerGoes DEF AutoLoadNext, ThreadStep

\* What leaves the names, the torrents and the files.
LEMMA NotAgainSame ==
  ASSUME NotAgain, UNCHANGED <<m_already_loaded, loaded, submitted, added, removing, files>>,
         scan'.step = "add" => files[<<scan'.dir, scan'.file>>] = "whole"
  PROVE  NotAgain'
BY DEF NotAgain, Gone, GoneIn

\* A file that is written is not one of those that were loaded.
LEMMA FileWrittenOther ==
  ASSUME LoadInv, NotAgain, NEW p \in Path, FileWritten(p)
  PROVE  NotAgain'
<1>1. /\ p \notin loaded /\ files[p] # "whole"
      /\ \A q : q # p => files'[q] = files[q]
      /\ UNCHANGED <<m_already_loaded, loaded, submitted, added, removing, scan>>
  BY DEF FileWritten, loadVars, sessionVars, LoadInv, LoadTypes
<1>2. \A n, but : Gone(n, but) => Gone(n, but)'
  BY <1>1 DEF Gone, GoneIn
<1>3. \A q \in loaded : files'[q] = files[q]
  BY <1>1
<1>4. scan.step = "add" => files'[<<scan.dir, scan.file>>] = "whole"
  BY <1>1 DEF NotAgain
<1>. QED
  BY <1>1, <1>2, <1>3, <1>4 DEF NotAgain

\* A file whose name is not known is of no torrent that was added.
LEMMA AddFileNew ==
  ASSUME LoadInv, NotAgain, AddFile
  PROVE  /\ NotAgain'
         /\ <<scan.dir, scan.file>> \in Path /\ <<scan.dir, scan.file>> \notin loaded
<1>1. PICK p, n : p = <<scan.dir, scan.file>> /\ n = scan.file /\ p \in Path /\ p[2] = n
  <2>1. scan.dir \in Dir /\ scan.file \in Name
    BY DEF AddFile, LoadInv, LoadTypes, ScanTypes
  <2>2. <<scan.dir, scan.file>> \in Path /\ <<scan.dir, scan.file>>[2] = scan.file
    BY <2>1 DEF Path
  <2>. QED
    BY <2>2
<1>2. PICK a : submitted' = submitted \cup {a} /\ a.path = p
  <2>1. PICK id : id = IF scan.remove THEN m_next_pending_id + 1 ELSE NoId
    OBVIOUS
  <2>2. PICK a : a = [path |-> p, id |-> id]
    OBVIOUS
  <2>3. submitted' = submitted \cup {a}
    BY <1>1, <2>1, <2>2 DEF AddFile
  <2>. QED
    BY <2>2, <2>3
<1>3. /\ scan.step = "add" /\ n \notin m_already_loaded /\ files[p] = "whole"
      /\ m_already_loaded' = m_already_loaded \cup {n}
      /\ scan' = [scan EXCEPT !.step = "next", !.file = ""]
      /\ UNCHANGED <<loaded, added, removing, files>>
  BY <1>1 DEF AddFile, LoadInv, OneEach, NotAgain
<1>4. scan'.step # "add"
  BY <1>3 DEF LoadInv, LoadTypes, ScanTypes
<1>5. Gone(n, {})
  BY <1>3 DEF NotAgain, Gone, GoneIn
<1>6. p \notin loaded
  BY <1>1, <1>3, <1>5 DEF Gone, GoneIn
<1>7. \A k, but : Gone(k, but)' <=> Gone(k, but)
  BY <1>3 DEF Gone, GoneIn
<1>8. \A b \in submitted' : Gone(b.path[2], {})
  BY <1>1, <1>2, <1>5 DEF NotAgain
<1>9. NotAgain'
  BY <1>3, <1>4, <1>7, <1>8 DEF NotAgain
<1>. QED
  BY <1>1, <1>6, <1>9

\* One torrent is added: the only one of its name there is a file of.
LEMMA SessionAddsNew ==
  ASSUME LoadInv, NotAgain, NEW a \in submitted, SessionAdds(a)
  PROVE  NotAgain'
<1>1. PICK t \in Seq(Alert) : t = added
  BY DEF LoadInv, LoadTypes
<1>2. PICK error \in BOOLEAN :
        /\ added' = Append(added, [path |-> a.path, id |-> a.id, error |-> error])
        /\ loaded' = IF error THEN loaded ELSE loaded \cup {a.path}
  BY DEF SessionAdds
<1>3. PICK e : e = [path |-> a.path, id |-> a.id, error |-> error]
  OBVIOUS
<1>4. e \in Alert /\ e.path = a.path /\ e.error = error
  BY <1>3 DEF Alert, Submitted, LoadInv, LoadTypes
<1>5. \A i \in DOMAIN Append(t, e) : (i \in DOMAIN t /\ Append(t, e)[i] = t[i]) \/ Append(t, e)[i] = e
  BY <1>4, AppendProperties
<1>6. /\ added' = Append(t, e) /\ submitted' = submitted \ {a}
      /\ UNCHANGED <<files, m_already_loaded, scan, removing>>
  BY <1>1, <1>2, <1>3 DEF SessionAdds, loadVars
<1>7. \A n, but : Gone(n, but) /\ (n # a.path[2] \/ error \/ a.path \in but) => GoneIn(loaded', files', n, but)
  BY <1>2, <1>6 DEF Gone, GoneIn
<1>8. \A b \in submitted' : GoneIn(loaded', files', b.path[2], {})
  BY <1>6, <1>7 DEF NotAgain, LoadInv, OneEach
<1>9. ASSUME NEW i \in DOMAIN added', NEW x, x = added'[i]
      PROVE  GoneIn(loaded', files', x.path[2], IF x.error THEN {} ELSE {x.path})
  <2>1. CASE i \in DOMAIN t /\ x = t[i]
    <3>1. x.path[2] # a.path[2] /\ Gone(x.path[2], IF x.error THEN {} ELSE {x.path})
      BY <1>1, <2>1 DEF NotAgain, LoadInv, OneEach
    <3>. QED
      BY <1>7, <3>1
  <2>2. CASE x = e
    <3>1. PICK but : but = IF error THEN {} ELSE {a.path}
      OBVIOUS
    <3>2. Gone(a.path[2], but)
      BY <3>1 DEF NotAgain, Gone, GoneIn
    <3>3. GoneIn(loaded', files', a.path[2], but)
      BY <1>7, <3>1, <3>2
    <3>. QED
      BY <1>4, <2>2, <3>1, <3>3
  <2>. QED
    BY <1>5, <1>6, <1>9, <2>1, <2>2
<1>10. ASSUME removing.step # "no" PROVE removing.path[2] # a.path[2]
  BY <1>10 DEF LoadInv, OneEach
<1>11. /\ removing.step = "remove" => GoneIn(loaded', files', removing.path[2], {removing.path})
       /\ removing.step = "erase" => GoneIn(loaded', files', removing.path[2], {})
  BY <1>7, <1>10 DEF NotAgain
<1>12. \A p \in loaded' : files[p] # "absent" => p[2] \in m_already_loaded
  BY <1>2 DEF NotAgain, LoadInv, OneEach, Underway
<1>. QED
  BY <1>6, <1>8, <1>9, <1>11, <1>12 DEF NotAgain, Gone

\* A name is forgotten when its torrent was not added: then there is no file of a torrent
\* that was.
LEMMA HandleAlertNew ==
  ASSUME LoadInv, NotAgain, HandleAlert
  PROVE  NotAgain'
<1>1. PICK t \in Seq(Alert) : t = added /\ t # <<>>
  BY DEF LoadInv, LoadTypes, HandleAlert
<1>2. PICK a \in Alert : a = Head(t) /\ a = t[1] /\ 1 \in DOMAIN t
  BY <1>1, AlertsTail
<1>3. /\ added' = Tail(t) /\ removing.step = "no" /\ UNCHANGED <<files, scan, submitted, loaded>>
  BY <1>1 DEF HandleAlert
<1>4. Gone(a.path[2], IF a.error THEN {} ELSE {a.path})
  BY <1>1, <1>2 DEF NotAgain
<1>5. \A n, but : Gone(n, but)' <=> Gone(n, but)
  BY <1>3 DEF Gone, GoneIn
<1>6. ASSUME NEW i \in DOMAIN added'
      PROVE  Gone(added'[i].path[2], IF added'[i].error THEN {} ELSE {added'[i].path})
  <2>1. PICK j : j = i + 1 /\ j \in DOMAIN t /\ added'[i] = t[j]
    BY <1>1, <1>3, AlertsTail
  <2>2. PICK x : x = t[j]
    OBVIOUS
  <2>3. Gone(x.path[2], IF x.error THEN {} ELSE {x.path})
    BY <1>1, <2>1, <2>2 DEF NotAgain
  <2>. QED
    BY <2>1, <2>2, <2>3
<1>7. a.id \in DOMAIN m_pending_files => m_pending_files[a.id] = a.path
  BY <1>1, <1>2 DEF LoadInv, OneEach, Underway
<1>8. \/ m_already_loaded' = m_already_loaded
      \/ a.error /\ m_already_loaded' = m_already_loaded \ {a.path[2]}
  BY <1>1, <1>2, <1>7 DEF HandleAlert, NamesLeft
<1>9. \/ removing' = removing
      \/ ~a.error /\ removing' = [step |-> "remove", path |-> a.path]
  BY <1>1, <1>2, <1>7 DEF HandleAlert, Removes
<1>10. \A p \in loaded : files[p] # "absent" => p[2] \in m_already_loaded'
  <2>1. CASE m_already_loaded' = m_already_loaded
    BY <2>1 DEF NotAgain
  <2>2. CASE a.error /\ m_already_loaded' = m_already_loaded \ {a.path[2]}
    BY <1>4, <2>2 DEF NotAgain, Gone, GoneIn
  <2>. QED
    BY <1>8, <2>1, <2>2
<1>11. PICK r : r = [step |-> "remove", path |-> a.path]
  OBVIOUS
<1>12. r.step = "remove" /\ r.path = a.path
  BY <1>11
<1>13. /\ removing'.step = "remove" => Gone(removing'.path[2], {removing'.path})
       /\ removing'.step # "erase"
  BY <1>3, <1>4, <1>9, <1>12, <1>11
<1>. QED
  BY <1>3, <1>5, <1>6, <1>10, <1>13 DEF NotAgain

\* A file is removed, and then its name: there is no other file of a torrent that was added.
LEMMA RemovedNew ==
  ASSUME LoadInv, NotAgain, RemoveFile \/ EraseName
  PROVE  NotAgain'
<1>1. UNCHANGED <<loaded, submitted, added, scan>> /\ removing.step # "no" /\ removing.path \in Path
  BY DEF RemoveFile, EraseName, LoadInv, LoadTypes, RemovingTypes
<1>2. files = [q \in Path |-> files[q]]
  BY DEF LoadInv, LoadTypes
<1>3. CASE RemoveFile /\ files' = files
  <2>1. UNCHANGED <<files, m_already_loaded>> /\ removing.step = "remove"
        /\ (removing' = NotRemoving \/ removing' = [removing EXCEPT !.step = "erase"])
    BY <1>3 DEF RemoveFile, loadVars
  <2>2. CASE removing' = NotRemoving
    BY <1>1, <2>1, <2>2 DEF NotAgain, Gone, GoneIn, NotRemoving
  <2>3. CASE removing' = [removing EXCEPT !.step = "erase"] /\ files' = [files EXCEPT ![removing.path] = "absent"]
    <3>1. removing'.step = "erase" /\ removing'.path = removing.path
      BY <2>3 DEF LoadInv, LoadTypes, RemovingTypes
    <3>2. files[removing.path] = "absent"
      BY <1>1, <1>2, <2>1, <2>3
    <3>3. Gone(removing.path[2], {})
      BY <2>1, <3>2 DEF NotAgain, Gone, GoneIn
    <3>. QED
      BY <1>1, <2>1, <3>1, <3>3 DEF NotAgain, Gone, GoneIn
  <2>. QED
    BY <1>3, <2>1, <2>2, <2>3 DEF RemoveFile
<1>4. CASE RemoveFile /\ files' # files
  <2>1. /\ files' = [files EXCEPT ![removing.path] = "absent"] /\ removing' = [removing EXCEPT !.step = "erase"]
        /\ removing.step = "remove" /\ UNCHANGED m_already_loaded
    BY <1>4 DEF RemoveFile, loadVars
  <2>2. removing'.step = "erase" /\ removing'.path = removing.path
    BY <2>1 DEF LoadInv, LoadTypes, RemovingTypes
  <2>3. /\ \A q \in Path : q # removing.path => files'[q] = files[q]
        /\ files'[removing.path] = "absent"
    BY <1>1, <1>2, <2>1
  <2>4. loaded \subseteq Path \/ \A q : q # removing.path => files'[q] = files[q]
    BY <1>2, <2>1
  <2>5. \A q : files'[q] = files[q] \/ q = removing.path
    BY <1>2, <2>1
  <2>6. \A n, but : Gone(n, but) => Gone(n, but)'
    BY <1>1, <2>3, <2>5 DEF Gone, GoneIn
  <2>7. Gone(removing.path[2], {})'
    BY <1>1, <2>1, <2>3, <2>5 DEF NotAgain, Gone, GoneIn
  <2>8. scan.step = "add" => files'[<<scan.dir, scan.file>>] = "whole"
    <3>1. SUFFICES ASSUME scan.step = "add" PROVE <<scan.dir, scan.file>> # removing.path
      BY <2>5 DEF NotAgain
    <3>2. scan.file \notin m_already_loaded /\ removing.path[2] \in m_already_loaded
      BY <1>1, <3>1 DEF LoadInv, OneEach
    <3>. QED
      BY <3>2
  <2>9. \A p \in loaded : files'[p] # "absent" => p[2] \in m_already_loaded
    BY <2>3, <2>5 DEF NotAgain
  <2>. QED
    BY <1>1, <2>1, <2>2, <2>6, <2>7, <2>8, <2>9 DEF NotAgain
<1>5. CASE EraseName
  <2>1. /\ removing.step = "erase" /\ removing' = NotRemoving
        /\ m_already_loaded' = m_already_loaded \ {removing.path[2]} /\ UNCHANGED files
    BY <1>5 DEF EraseName
  <2>2. \A p \in loaded : files[p] # "absent" => p[2] \in m_already_loaded'
    BY <2>1 DEF NotAgain, Gone, GoneIn
  <2>3. removing'.step = "no"
    BY <2>1 DEF NotRemoving
  <2>4. \A n, but : Gone(n, but)' <=> Gone(n, but)
    BY <1>1, <2>1 DEF Gone, GoneIn
  <2>. QED
    BY <1>1, <2>1, <2>2, <2>3, <2>4 DEF NotAgain
<1>. QED
  BY <1>3, <1>4, <1>5

\* No step makes a file that was loaded one to be loaded.
LEMMA NotAgainStep ==
  ASSUME LoadInv, NotAgain, AutoLoadNext
  PROVE  NotAgain'
<1>1. scan.step = "add" => files[<<scan.dir, scan.file>>] = "whole"
  BY DEF NotAgain
<1>2. CASE Expires \/ Abort \/ JoinThread
  BY <1>1, <1>2, NotAgainSame DEF Expires, Abort, JoinThread, loadVars, sessionVars
<1>3. ASSUME NEW s \in Setter,
             \/ \E r \in BOOLEAN : SetRemoveFiles(s, r)
             \/ \E dir \in Dir : SetAutoLoadDir(s, dir)
             \/ \E v \in {0, 20} : SetScanInterval(s, v)
             \/ LookAgain(s) \/ SetTimer(s)
      PROVE  NotAgain'
  BY <1>1, <1>3, NotAgainSame DEF SetRemoveFiles, SetAutoLoadDir, SetScanInterval, LookAgain, SetTimer,
                                  loadVars, sessionVars
<1>4. ASSUME UNCHANGED <<loadVars, sessionVars, files>>,
             scan'.step = "add" => files[<<scan'.dir, scan'.file>>] = "whole"
      PROVE  NotAgain'
  BY <1>4, NotAgainSame DEF loadVars, sessionVars
<1>5. ScanTypes
  BY DEF LoadInv, LoadTypes
<1>6. CASE OnScan
  <2>1. PICK d, r : d = m_dir /\ r = m_remove_files
    OBVIOUS
  <2>2. PICK e : e = NotScanning /\ e.step = "no"
    BY NotScanningTypes
  <2>3. scan' = scan \/ scan' = [e EXCEPT !.step = "list", !.dir = d, !.remove = r]
    BY <1>6, <2>1, <2>2 DEF OnScan
  <2>4. DOMAIN e = {"step", "dir", "remove", "todo", "file"}
    BY <2>2 DEF NotScanning
  <2>5. scan'.step # "add" \/ scan' = scan
    BY <2>3, <2>4
  <2>. QED
    BY <1>1, <1>4, <1>6, <2>5 DEF OnScan
<1>7. CASE ListDir
  <2>1. PICK e : scan' = [scan EXCEPT !.step = "next", !.todo = e]
    BY <1>7 DEF ListDir
  <2>2. scan'.step # "add"
    BY <1>5, <2>1 DEF ScanTypes
  <2>. QED
    BY <1>4, <1>7, <2>2 DEF ListDir
<1>8. CASE NextFile
  <2>1. PICK n \in scan.todo : scan' = IF Found(n) THEN [scan EXCEPT !.todo = @ \ {n}, !.file = n, !.step = "add"]
                                     ELSE [scan EXCEPT !.todo = @ \ {n}]
    BY <1>8 DEF NextFile
  <2>2. scan.step = "next"
    BY <1>8 DEF NextFile
  <2>3. CASE Found(n)
    <3>1. scan' = [scan EXCEPT !.todo = scan.todo \ {n}, !.file = n, !.step = "add"]
      BY <2>1, <2>3
    <3>2. scan'.file = n /\ scan'.dir = scan.dir
      BY <1>5, <3>1 DEF ScanTypes
    <3>. QED
      BY <1>4, <1>8, <2>3, <3>2 DEF NextFile, Found
  <2>4. CASE ~Found(n)
    <3>1. scan' = [scan EXCEPT !.todo = scan.todo \ {n}]
      BY <2>1, <2>4
    <3>2. scan'.step = "next"
      BY <1>5, <2>2, <3>1 DEF ScanTypes
    <3>. QED
      BY <1>4, <1>8, <3>2 DEF NextFile
  <2>. QED
    BY <2>3, <2>4
<1>9. CASE EndScan \/ Rearm
  <2>1. PICK e : e = NotScanning /\ e.step = "no"
    BY NotScanningTypes
  <2>2. scan' = e \/ scan' = [scan EXCEPT !.step = "arm"]
    BY <1>9, <2>1 DEF EndScan, Rearm
  <2>3. scan'.step # "add"
    BY <1>5, <2>1, <2>2 DEF ScanTypes
  <2>. QED
    BY <1>4, <1>9, <2>3 DEF EndScan, Rearm
<1>. QED
  BY <1>2, <1>3, <1>6, <1>7, <1>8, <1>9, FileWrittenOther, AddFileNew, SessionAddsNew, HandleAlertNew, RemovedNew
     DEF AutoLoadNext, ThreadStep

\* The files that are not asked for are finitely many, and fewer with each that is.
LEMMA UnaskedFinite ==
  /\ IsFiniteSet(Path) /\ Cardinality(Path) \in Nat /\ Cardinality(Path) <= MaxAdds /\ MaxAdds \in Nat
  /\ IsFiniteSet(Unasked) /\ Cardinality(Unasked) \in Nat
<1>1. IsFiniteSet(Path) /\ MaxAdds \in Nat /\ MaxAdds >= Cardinality(Path)
  BY AutoLoadAssumption DEF Path
<1>2. Cardinality(Path) \in Nat
  BY <1>1, FS_CardinalityType
<1>3. IsFiniteSet(Unasked)
  BY <1>1, FS_Subset DEF Unasked
<1>. QED
  BY <1>1, <1>2, <1>3, FS_CardinalityType

\* Every id given is for a file not asked for before.
LEMMA IdsLeftStep ==
  ASSUME LoadInv, NotAgain, IdsLeft, AutoLoadNext
  PROVE  IdsLeft'
<1>1. PICK m, k, c, mx \in Nat :
        /\ m = m_next_pending_id /\ k = Cardinality(Unasked) /\ c = Cardinality(Path) /\ mx = MaxAdds
        /\ m + k <= mx
  BY UnaskedFinite DEF LoadInv, LoadTypes, IdsLeft
<1>2. ASSUME m_next_pending_id' = m, Unasked' \subseteq Unasked PROVE IdsLeft'
  <2>1. PICK x \in Nat : x = Cardinality(Unasked') /\ x <= k
    BY <1>1, <1>2, UnaskedFinite, FS_Subset, FS_CardinalityType
  <2>2. m + x <= mx
    BY <1>1, <2>1
  <2>. QED
    BY <1>1, <1>2, <2>1, <2>2 DEF IdsLeft
<1>3. ASSUME UNCHANGED <<m_next_pending_id, submitted, loaded>> PROVE IdsLeft'
  BY <1>1, <1>2, <1>3 DEF Unasked
<1>4. CASE AddFile
  <2>1. PICK p \in Path : p = <<scan.dir, scan.file>> /\ p \notin loaded
    BY <1>4, AddFileNew
  <2>2. PICK a : a = [path |-> p, id |-> IF scan.remove THEN m_next_pending_id + 1 ELSE NoId]
    OBVIOUS
  <2>3. a.path = p /\ submitted' = submitted \cup {a} /\ loaded' = loaded
    BY <1>4, <2>1, <2>2 DEF AddFile
  <2>4. Unasked' = Unasked \ {p}
    BY <2>3 DEF Unasked
  <2>5. p \in Unasked
    <3>1. p[2] \notin m_already_loaded
      BY <1>4, <2>1 DEF AddFile, LoadInv, OneEach
    <3>2. \A b \in submitted : b.path[2] \in m_already_loaded
      BY DEF LoadInv, OneEach, Underway
    <3>3. \A b \in submitted : b.path # p
      BY <3>1, <3>2
    <3>. QED
      BY <2>1, <3>3 DEF Unasked
  <2>6. PICK x \in Nat : x = Cardinality(Unasked') /\ x = k - 1
    BY <1>1, <2>4, <2>5, UnaskedFinite, FS_RemoveElement, FS_CardinalityType
  <2>7. m_next_pending_id' = m \/ m_next_pending_id' = m + 1
    BY <1>1, <1>4 DEF AddFile
  <2>8. m + x <= mx /\ (m + 1) + x <= mx
    BY <1>1, <2>6
  <2>. QED
    BY <1>1, <2>6, <2>7, <2>8 DEF IdsLeft
<1>5. ASSUME NEW a \in submitted, SessionAdds(a) PROVE IdsLeft'
  <2>1. PICK error \in BOOLEAN :
          /\ error => m_next_pending_id + Cardinality(Path) <= MaxAdds
          /\ loaded' = IF error THEN loaded ELSE loaded \cup {a.path}
    BY <1>5 DEF SessionAdds
  <2>2. submitted' = submitted \ {a} /\ m_next_pending_id' = m
    BY <1>1, <1>5 DEF SessionAdds, loadVars
  <2>3. CASE error
    <3>1. PICK x \in Nat : x = Cardinality(Unasked') /\ x <= c
      <4>1. Unasked' \subseteq Path
        BY DEF Unasked
      <4>. QED
        BY <1>1, <4>1, UnaskedFinite, FS_Subset, FS_CardinalityType
    <3>2. m + c <= mx
      BY <1>1, <2>1, <2>3
    <3>3. m + x <= mx
      BY <3>1, <3>2
    <3>. QED
      BY <1>1, <2>2, <3>1, <3>3 DEF IdsLeft
  <2>4. CASE ~error
    <3>1. Unasked' \subseteq Unasked
      BY <2>1, <2>2, <2>4 DEF Unasked
    <3>. QED
      BY <1>2, <2>2, <3>1
  <2>. QED
    BY <2>3, <2>4
<1>6. ASSUME NEW p \in Path, FileWritten(p) PROVE IdsLeft'
  BY <1>3, <1>6 DEF FileWritten, loadVars, sessionVars
<1>7. CASE Expires \/ HandleAlert \/ RemoveFile \/ EraseName \/ Abort
  BY <1>3, <1>7 DEF Expires, HandleAlert, RemoveFile, EraseName, Abort, loadVars, sessionVars
<1>8. ASSUME NEW s \in Setter,
             \/ \E r \in BOOLEAN : SetRemoveFiles(s, r)
             \/ \E dir \in Dir : SetAutoLoadDir(s, dir)
             \/ \E v \in {0, 20} : SetScanInterval(s, v)
             \/ LookAgain(s) \/ SetTimer(s)
      PROVE  IdsLeft'
  BY <1>3, <1>8 DEF SetRemoveFiles, SetAutoLoadDir, SetScanInterval, LookAgain, SetTimer, loadVars, sessionVars
<1>9. CASE OnScan \/ ListDir \/ NextFile \/ EndScan \/ Rearm \/ JoinThread
  BY <1>3, <1>9 DEF OnScan, ListDir, NextFile, EndScan, Rearm, JoinThread, loadVars, sessionVars
<1>. QED
  BY <1>4, <1>5, <1>6, <1>7, <1>8, <1>9 DEF AutoLoadNext, ThreadStep

\* All of it.
NamesInv == NameTypes /\ IdsApart /\ Timers /\ NotAgain /\ IdsLeft

\* No name was given at first.
LEMMA NamesBegin == Init => NamesInv
<1>. SUFFICES ASSUME AutoLoadInit PROVE NamesInv
  BY DEF Init
<1>1. NameTypes
  BY DEF AutoLoadInit, NameTypes
<1>2. IdsApart
  <2>1. DOMAIN added = {} /\ DOMAIN m_pending_files = {} /\ submitted = {}
    BY DEF AutoLoadInit
  <2>. QED
    BY <2>1 DEF IdsApart
<1>3. Timers
  <2>1. Callers = {} /\ setting \in [Setter -> {"no", "look", "cancel", "arm", "scan now"}]
    BY DEF AutoLoadInit, Callers
  <2>2. IsFiniteSet(Callers) /\ Cardinality(Callers) = 0
    BY <2>1, FS_EmptySet
  <2>3. ScanBusy = 0 /\ armed = 1 /\ expired = 0 /\ sets = 0
    BY DEF AutoLoadInit, NotScanning, ScanBusy
  <2>5. MaxSets \in Nat
    BY AutoLoadAssumption
  <2>6. armed \in 0..1 /\ expired \in Nat /\ sets \in Nat /\ sets <= MaxSets
    BY <2>3, <2>5
  <2>4. TimerBounds
    BY <2>1, <2>2, <2>6 DEF TimerBounds
  <2>. QED
    BY <2>2, <2>3, <2>4 DEF Timers, Spare
<1>4. NotAgain
  <2>1. added = <<>> /\ submitted = {} /\ loaded = {} /\ scan = NotScanning /\ removing = NotRemoving
    BY DEF AutoLoadInit
  <2>2. scan.step = "no"
    BY <2>1, NotScanningTypes
  <2>3. removing.step = "no"
    BY <2>1 DEF NotRemoving
  <2>4. DOMAIN added = {}
    BY <2>1
  <2>. QED
    BY <2>1, <2>2, <2>3, <2>4 DEF NotAgain
<1>5. IdsLeft
  <2>1. m_next_pending_id = 0
    BY DEF AutoLoadInit, NoId
  <2>2. Cardinality(Unasked) <= Cardinality(Path)
    BY UnaskedFinite, FS_Subset DEF Unasked
  <2>3. PICK k, c, mx \in Nat : k = Cardinality(Unasked) /\ c = Cardinality(Path) /\ mx = MaxAdds /\ k <= c /\ c <= mx
    BY <2>2, UnaskedFinite
  <2>4. 0 + k <= mx
    BY <2>3
  <2>. QED
    BY <2>1, <2>3, <2>4 DEF IdsLeft
<1>. QED
  BY <1>1, <1>2, <1>3, <1>4, <1>5 DEF NamesInv

\* Every step keeps the names, ids and timers.
LEMMA NamesTyped == LoadInv /\ NamesInv /\ [Next]_servicesVars => NamesInv'
<1>1. ASSUME NamesInv, UNCHANGED autoLoadVars PROVE NamesInv'
  BY <1>1 DEF autoLoadVars, NamesInv, NameTypes, IdsApart, Timers, TimerBounds, Spare, ScanBusy, Callers, NotAgain, Gone,
              IdsLeft, Unasked
<1>2. ASSUME LoadInv, NamesInv, AutoLoadNext PROVE NamesInv'
  BY <1>2, NamesKept, IdsStep, TimersStep, NotAgainStep, IdsLeftStep DEF NamesInv
<1>. QED
  BY <1>1, <1>2 DEF Next, servicesVars, OfAutoLoad, OfFileRequests

\* The state of the automatic loading has its type.
LEMMA AutoLoadIsTyped == LoadInv /\ NamesInv => AutoLoadTypeOK
<1>. SUFFICES ASSUME LoadInv, NamesInv PROVE AutoLoadTypeOK
  OBVIOUS
<1>1. m_next_pending_id \in 0..MaxAdds
  <2>1. PICK m, k, mx \in Nat : m = m_next_pending_id /\ k = Cardinality(Unasked) /\ mx = MaxAdds /\ m + k <= mx
    BY UnaskedFinite DEF LoadInv, LoadTypes, NamesInv, IdsLeft
  <2>. QED
    BY <2>1
<1>2. armed \in 0..1 /\ expired \in 0..1 + MaxSets /\ setting \in [Setter -> {"no", "look", "cancel", "arm", "scan now"}]
  <2>1. PICK a, b \in 0..1, c, e, n, m \in Nat :
          /\ b = ScanBusy /\ a = armed /\ c = Cardinality(Callers) /\ e = expired /\ n = sets /\ m = MaxSets
          /\ a + e + b + c <= 1 + n /\ n <= m
    BY TimersNow DEF NamesInv
  <2>2. e \in 0..1 + m
    BY <2>1
  <2>. QED
    BY <2>1, <2>2 DEF NamesInv, Timers, TimerBounds
<1>3. ASSUME NEW id \in DOMAIN m_pending_files
      PROVE  /\ m_pending_files[id] \in Path
             /\ IF \E a \in submitted : a.id = id
                THEN \A i \in DOMAIN added : added[i].id # id
                ELSE \E i \in DOMAIN added : \A j \in DOMAIN added : added[j].id = id <=> j = i
  <2>1. id # NoId
    BY DEF LoadInv, LoadTypes, NoId
  <2>2. m_pending_files[id] \in Path
    <3>1. CASE \E a \in submitted : a.id = id
      BY <3>1 DEF LoadInv, LoadTypes, OneEach, Underway, Submitted
    <3>2. CASE \E i \in DOMAIN added : added[i].id = id
      <4>1. PICK i \in DOMAIN added : added[i].id = id
        BY <3>2
      <4>2. added[i] \in Alert /\ Underway(added[i])
        BY DEF LoadInv, LoadTypes, OneEach
      <4>. QED
        BY <4>1, <4>2 DEF Underway, Alert
    <3>. QED
      BY <3>1, <3>2 DEF NamesInv, IdsApart
  <2>3. CASE \E a \in submitted : a.id = id
    BY <2>1, <2>2, <2>3 DEF NamesInv, IdsApart
  <2>4. CASE ~\E a \in submitted : a.id = id
    <3>1. PICK i \in DOMAIN added : added[i].id = id
      BY <2>4 DEF NamesInv, IdsApart
    <3>2. \A j \in DOMAIN added : added[j].id = id <=> j = i
      BY <2>1, <3>1 DEF NamesInv, IdsApart
    <3>. QED
      BY <2>2, <2>4, <3>2
  <2>. QED
    BY <2>3, <2>4
<1>4. scan.step \in {"no", "list", "next", "add", "arm"} /\ scan.todo \subseteq Name
  BY DEF LoadInv, LoadTypes, ScanTypes
<1>. QED
  BY <1>1, <1>2, <1>3, <1>4 DEF LoadInv, LoadTypes, NamesInv, NameTypes, IdsApart, AutoLoadTypeOK

-----------------------------------------------------------------------------
(* All of them                                                             *)

\* What each of the services keeps, beside what was shown of it above.
ServicesInv ==
  /\ part \in Part
  /\ SettingTypes /\ SavedTypes /\ StatsBounds /\ PromiseTypes /\ ReadBounds /\ NamesInv

\* Everything the services keep has its type, for any number of connections, torrents,
\* settings, files, pieces and counters; and what is bounded stays in its bounds: a promise
\* is given one value, a piece is read once for each request and once for its alert, no more
\* timers expire than the changes of the settings account for, and the identifiers of the
\* torrents that are asked for are different.
THEOREM ServicesTyped == Spec => []TypeOK
<1>1. Init => ServicesInv
  <2>. SUFFICES ASSUME Init PROVE ServicesInv
    OBVIOUS
  <2>1. StatsBounds
    <3>1. posting = FALSE /\ posts = 0 /\ m_stats_frame = 0 /\ \A p \in Page : requests[p] = <<>> /\ responses[p] = <<>>
      BY DEF Init, SessionStatsInit
    <3>2. MaxPosts \in Nat /\ MaxAsked \in Nat
      BY SessionStatsAssumption
    <3>3. Len(<<>>) + Len(<<>>) <= MaxAsked /\ 0 \in 0..MaxPosts
      BY <3>2
    <3>. QED
      BY <3>1, <3>3 DEF StatsBounds
  <2>2. part \in Part
    BY DEF Init
  <2>. QED
    BY <2>1, <2>2, SettingsBegin, RequestsBegin, NamesBegin DEF ServicesInv
<1>2. SaveInv /\ StatsInv /\ ReadInv /\ LoadInv /\ ServicesInv /\ [Next]_servicesVars => ServicesInv'
  <2>. SUFFICES ASSUME SaveInv, StatsInv, ReadInv, LoadInv, ServicesInv, [Next]_servicesVars PROVE ServicesInv'
    OBVIOUS
  <2>1. part' = part
    BY DEF Next, servicesVars, OfAutoLoad, OfFileRequests
  <2>2. SettingTypes' /\ SavedTypes'
    BY SettingsTyped DEF ServicesInv
  <2>3. StatsBounds'
    BY StatsBounded DEF ServicesInv
  <2>4. PromiseTypes' /\ ReadBounds'
    BY RequestsTyped DEF ServicesInv, ReadInv
  <2>5. NamesInv'
    BY NamesTyped DEF ServicesInv
  <2>. QED
    BY <2>1, <2>2, <2>3, <2>4, <2>5 DEF ServicesInv
<1>3. AnswerInv /\ TorrentTypes /\ SaveInv /\ StatsInv /\ ReadInv /\ LoadInv /\ ServicesInv => TypeOK
  BY TorrentCallsAreTyped, SettingsAreTyped, StatsAreTyped, RequestsAreTyped, AutoLoadIsTyped
     DEF ServicesInv, ReadInv, TypeOK
<1>. QED
  BY <1>1, <1>2, <1>3, AnswersOwed, TorrentsTyped, SavesInvariant, StatsInvariant, ReadsInvariant,
     AutoLoadInvariant, PTL DEF Spec, Safety
=============================================================================
