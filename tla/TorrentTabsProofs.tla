------------------------- MODULE TorrentTabsProofs -------------------------
(***************************************************************************)
(* Theorems about the pages of one torrent, for any number of clients and  *)
(* torrents, any sizes of the caches and of the queues of tombstones, and  *)
(* however often a history is dropped and started again.                   *)
(***************************************************************************)
EXTENDS TorrentTabs, FiniteSetTheorems, SequenceTheorems, WellFoundedInduction, TLAPS

-----------------------------------------------------------------------------
(* Sets of numbers, and parts of sequences.                                *)

\* A set of numbers has a least one.
LEMMA LeastNat ==
  ASSUME NEW T \in SUBSET Nat, T # {}
  PROVE  \E n \in T : \A m \in T : n <= m
<1>1. IsWellFoundedOn(OpToRel(<, Nat), Nat)
  BY NatLessThanWellFounded
<1>2. PICK R : R = OpToRel(<, Nat)
  OBVIOUS
<1>3. PICK n \in T : \A m \in T : ~(<<m, n>> \in R)
  BY <1>1, <1>2, WFMin
<1>4. ASSUME NEW x \in Nat, NEW y \in Nat, x < y PROVE <<x, y>> \in R
  BY <1>2, <1>4 DEF OpToRel
<1>5. \A m \in T : ~(m < n)
  BY <1>3, <1>4
<1>. QED
  BY <1>5

Ascends(s) == \A i, j \in DOMAIN s : i < j => s[i] < s[j]

\* A finite set of numbers can be put in order: the least one goes before the others.
LEMMA Sortable ==
  \A n \in Nat : \A S \in SUBSET Nat :
    IsFiniteSet(S) /\ Cardinality(S) = n => \E s \in [1 .. n -> S] : Ascends(s)
<1>1. DEFINE Fails(n) == \E S \in SUBSET Nat :
               IsFiniteSet(S) /\ Cardinality(S) = n /\ \A s \in [1 .. n -> S] : ~Ascends(s)
<1>2. SUFFICES ASSUME NEW n \in Nat, Fails(n), \A m \in Nat : Fails(m) => n <= m PROVE FALSE
  <2>1. CASE {n \in Nat : Fails(n)} = {}
    BY <2>1
  <2>2. CASE {n \in Nat : Fails(n)} # {}
    BY <2>2, LeastNat
  <2>. QED
    BY <2>1, <2>2
<1>3. PICK S \in SUBSET Nat : IsFiniteSet(S) /\ Cardinality(S) = n /\ \A s \in [1 .. n -> S] : ~Ascends(s)
  BY <1>2
<1>4. CASE n = 0
  <2>1. <<>> \in [1 .. 0 -> S] /\ Ascends(<<>>)
    BY DEF Ascends
  <2>. QED
    BY <1>3, <1>4, <2>1
<1>5. CASE n # 0
  <2>1. S # {}
    BY <1>3, <1>5, FS_EmptySet
  <2>2. PICK m \in S : \A x \in S : m <= x
    BY <2>1, LeastNat
  <2>3. IsFiniteSet(S \ {m}) /\ Cardinality(S \ {m}) = n - 1
    BY <1>3, FS_RemoveElement
  <2>4. ~Fails(n - 1)
    BY <1>2, <1>5
  <2>5. PICK s \in [1 .. n - 1 -> S \ {m}] : Ascends(s)
    BY <2>3, <2>4
  <2>6. PICK t : t = [i \in 1 .. n |-> IF i = 1 THEN m ELSE s[i - 1]]
    OBVIOUS
  <2>7. t \in [1 .. n -> S]
    BY <2>6
  <2>8. Ascends(t)
    <3>. SUFFICES ASSUME NEW i \in 1 .. n, NEW j \in 1 .. n, i < j PROVE t[i] < t[j]
      BY <2>7 DEF Ascends
    <3>1. j # 1 /\ j - 1 \in 1 .. n - 1 /\ t[j] = s[j - 1] /\ t[j] \in S \ {m}
      BY <2>5, <2>6
    <3>2. CASE i = 1
      <4>1. t[i] = m
        BY <2>6, <3>2
      <4>2. m <= t[j] /\ m # t[j] /\ t[j] \in Nat /\ m \in Nat
        BY <2>2, <3>1
      <4>. QED
        BY <4>1, <4>2
    <3>3. CASE i # 1
      <4>1. i - 1 \in 1 .. n - 1 /\ t[i] = s[i - 1] /\ i - 1 < j - 1
        BY <2>6, <3>3
      <4>2. s[i - 1] < s[j - 1]
        BY <2>5, <3>1, <4>1 DEF Ascends
      <4>. QED
        BY <3>1, <4>1, <4>2
    <3>. QED
      BY <3>2, <3>3
  <2>. QED
    BY <1>3, <2>7, <2>8
<1>. QED
  BY <1>4, <1>5

\* Ascending() lists the set, each number once.
LEMMA AscendingLists ==
  ASSUME NEW S \in SUBSET Nat, IsFiniteSet(S)
  PROVE  /\ Cardinality(S) \in Nat
         /\ Ascending(S) \in [1 .. Cardinality(S) -> S]
         /\ Ascends(Ascending(S))
         /\ \A x \in S : \E i \in 1 .. Cardinality(S) : Ascending(S)[i] = x
<1>1. PICK n \in Nat : n = Cardinality(S)
  BY FS_CardinalityType
<1>2. PICK a : a = Ascending(S)
  OBVIOUS
<1>3. a \in [1 .. n -> S] /\ Ascends(a)
  <2>1. \E s \in [1 .. n -> S] : Ascends(s)
    BY <1>1, Sortable
  <2>2. a = CHOOSE s \in [1 .. n -> S] : Ascends(s)
    BY <1>1, <1>2 DEF Ascending, Ascends
  <2>. QED
    BY <2>1, <2>2
<1>4. a \in Injection(1 .. n, S)
  <2>1. ASSUME NEW i \in 1 .. n, NEW j \in 1 .. n, a[i] = a[j] PROVE i = j
    <3>1. a[i] \in Nat /\ a[j] \in Nat
      BY <1>3
    <3>2. ~(i < j) /\ ~(j < i)
      BY <1>3, <2>1, <3>1 DEF Ascends
    <3>. QED
      BY <3>2
  <2>. QED
    BY <1>3, <2>1 DEF Injection, IsInjective
<1>5. Cardinality(1 .. n) = n
  BY FS_Interval
<1>6. a \in Surjection(1 .. n, S)
  BY <1>1, <1>4, <1>5, FS_Injection
<1>. QED
  BY <1>1, <1>2, <1>3, <1>6 DEF Surjection

\* What is picked of a sequence is in it, in its order.
LEMMA PickedElements ==
  ASSUME NEW S, NEW seq \in Seq(S), NEW places \in SUBSET DOMAIN seq
  PROVE  /\ Picked(seq, places) \in Seq(S)
         /\ \A i \in DOMAIN Picked(seq, places) : \E p \in places : Picked(seq, places)[i] = seq[p]
         /\ \A p \in places : \E i \in DOMAIN Picked(seq, places) : Picked(seq, places)[i] = seq[p]
         /\ \A i, j \in DOMAIN Picked(seq, places) : i < j =>
              \E p, q \in places : p < q /\ Picked(seq, places)[i] = seq[p] /\ Picked(seq, places)[j] = seq[q]
<1>. DEFINE Good(r) == /\ r \in Seq(S)
                       /\ \A i \in DOMAIN r : \E p \in places : r[i] = seq[p]
                       /\ \A p \in places : \E i \in DOMAIN r : r[i] = seq[p]
                       /\ \A i, j \in DOMAIN r : i < j =>
                            \E p, q \in places : p < q /\ r[i] = seq[p] /\ r[j] = seq[q]
<1>1. places \in SUBSET Nat /\ IsFiniteSet(places)
  BY FS_Interval, FS_Subset
<1>2. PICK a : a = Ascending(places)
  OBVIOUS
<1>3. PICK n \in Nat : n = Cardinality(places)
  BY <1>1, AscendingLists
<1>4. a \in [1 .. n -> places] /\ Ascends(a) /\ \A x \in places : \E i \in 1 .. n : a[i] = x
  BY <1>1, <1>2, <1>3, AscendingLists
<1>5. PICK r : r = Picked(seq, places)
  OBVIOUS
<1>6. r = [i \in 1 .. n |-> seq[a[i]]]
  BY <1>2, <1>4, <1>5 DEF Picked
<1>7. r \in [1 .. n -> S] /\ \A i \in 1 .. n : a[i] \in places /\ r[i] = seq[a[i]]
  BY <1>4, <1>6
<1>8. r \in Seq(S) /\ DOMAIN r = 1 .. n
  BY <1>7
<1>9. \A i, j \in 1 .. n : i < j => a[i] < a[j]
  BY <1>4 DEF Ascends
<1>10. \A p \in places : \E i \in 1 .. n : r[i] = seq[p]
  BY <1>4, <1>7
<1>11. \A i, j \in 1 .. n : i < j => \E p, q \in places : p < q /\ r[i] = seq[p] /\ r[j] = seq[q]
  BY <1>7, <1>9
<1>12. \A i \in DOMAIN r : \E p \in places : r[i] = seq[p]
  BY <1>7, <1>8
<1>13. \A p \in places : \E i \in DOMAIN r : r[i] = seq[p]
  BY <1>8, <1>10
<1>14. \A i, j \in DOMAIN r : i < j => \E p, q \in places : p < q /\ r[i] = seq[p] /\ r[j] = seq[q]
  BY <1>8, <1>11
<1>. HIDE DEF Good
<1>15. Good(r)
  BY <1>8, <1>12, <1>13, <1>14 DEF Good
<1>16. Good(Picked(seq, places))
  BY <1>5, <1>15
<1>. QED
  BY <1>16 DEF Good

\* The lesser of two numbers.
LEMMA MinOfTwo ==
  ASSUME NEW a \in Nat, NEW b \in Nat
  PROVE  Min({a, b}) \in {a, b} /\ Min({a, b}) <= a /\ Min({a, b}) <= b
<1>1. \E x \in {a, b} : \A y \in {a, b} : x =< y
  <2>1. CASE a <= b
    BY <2>1
  <2>2. CASE b <= a
    BY <2>2
  <2>. QED
    BY <2>1, <2>2
<1>2. PICK m : m = Min({a, b})
  OBVIOUS
<1>3. m \in {a, b} /\ \A y \in {a, b} : m =< y
  BY <1>1, <1>2 DEF Min
<1>. QED
  BY <1>2, <1>3

-----------------------------------------------------------------------------
(* HistoryCache                                                            *)

\* The history of a torrent is the one in the cache, if there is one.
LEMMA HistoryFound ==
  ASSUME NEW cache, NEW t, NEW new
  PROVE  /\ Known(cache, t) =>
              /\ PlaceOf(cache, t) \in DOMAIN cache /\ cache[PlaceOf(cache, t)].m_ih = t
              /\ HistoryOf(cache, t, new) = cache[PlaceOf(cache, t)]
         /\ ~Known(cache, t) => HistoryOf(cache, t, new) = new
  BY DEF Known, HistoryOf, PlaceOf

\* Dropping the history of a torrent leaves those of the others.
LEMMA DroppedOne ==
  ASSUME NEW S, NEW cache \in Seq(S), IsCache(cache), NEW t
  PROVE  /\ Dropped(cache, t) \in Seq(S) /\ IsCache(Dropped(cache, t))
         /\ Len(Dropped(cache, t)) = IF Known(cache, t) THEN Len(cache) - 1 ELSE Len(cache)
         /\ \A i \in DOMAIN Dropped(cache, t) :
              \E j \in DOMAIN cache : Dropped(cache, t)[i] = cache[j] /\ cache[j].m_ih # t
<1>. DEFINE Good(r) == /\ r \in Seq(S) /\ IsCache(r)
                       /\ Len(r) = IF Known(cache, t) THEN Len(cache) - 1 ELSE Len(cache)
                       /\ \A i \in DOMAIN r : \E j \in DOMAIN cache : r[i] = cache[j] /\ cache[j].m_ih # t
<1>1. PICK r : r = Dropped(cache, t)
  OBVIOUS
<1>2. CASE ~Known(cache, t)
  <2>1. r = cache
    BY <1>1, <1>2 DEF Dropped
  <2>2. \A i \in DOMAIN cache : cache[i].m_ih # t
    BY <1>2 DEF Known
  <2>3. Good(r)
    BY <1>2, <2>1, <2>2
  <2>. QED
    BY <1>1, <2>3
<1>3. CASE Known(cache, t)
  <2>1. PICK k \in DOMAIN cache : k = PlaceOf(cache, t) /\ cache[k].m_ih = t
    BY <1>3 DEF Known, PlaceOf
  <2>2. r = SubSeq(cache, 1, k - 1) \o SubSeq(cache, k + 1, Len(cache))
    BY <1>1, <1>3, <2>1 DEF Dropped, RemoveAt
  <2>3. /\ r \in Seq(S) /\ Len(r) = Len(cache) - 1
        /\ \A i \in 1 .. Len(cache) - 1 : r[i] = cache[IF i < k THEN i ELSE i + 1]
    <3>1. PICK a, b : a = SubSeq(cache, 1, k - 1) /\ b = SubSeq(cache, k + 1, Len(cache))
      OBVIOUS
    <3>2. k \in 1 .. Len(cache)
      OBVIOUS
    <3>3. a \in Seq(S) /\ Len(a) = k - 1 /\ \A i \in 1 .. k - 1 : a[i] = cache[i]
      BY <3>1, <3>2
    <3>4. b \in Seq(S) /\ Len(b) = Len(cache) - k /\ \A i \in 1 .. Len(cache) - k : b[i] = cache[k + i]
      BY <3>1, <3>2
    <3>5. r = a \o b
      BY <2>2, <3>1
    <3>6. /\ r \in Seq(S) /\ Len(r) = Len(cache) - 1
          /\ \A i \in 1 .. Len(cache) - 1 : r[i] = IF i <= k - 1 THEN a[i] ELSE b[i - (k - 1)]
      <4>1. /\ a \o b \in Seq(S) /\ Len(a \o b) = Len(a) + Len(b)
            /\ \A i \in 1 .. Len(a) + Len(b) : (a \o b)[i] = IF i <= Len(a) THEN a[i] ELSE b[i - Len(a)]
        BY <3>3, <3>4, ConcatProperties
      <4>2. Len(a) = k - 1 /\ Len(a) + Len(b) = Len(cache) - 1
        BY <3>2, <3>3, <3>4
      <4>. QED
        BY <3>5, <4>1, <4>2
    <3>7. ASSUME NEW i \in 1 .. Len(cache) - 1 PROVE r[i] = cache[IF i < k THEN i ELSE i + 1]
      <4>1. CASE i < k
        BY <3>2, <3>3, <3>6, <4>1
      <4>2. CASE ~(i < k)
        <5>1. i - (k - 1) \in 1 .. Len(cache) - k /\ k + (i - (k - 1)) = i + 1
          BY <3>2, <4>2
        <5>2. b[i - (k - 1)] = cache[i + 1]
          BY <3>4, <5>1
        <5>. QED
          BY <3>2, <3>6, <4>2, <5>2
      <4>. QED
        BY <4>1, <4>2
    <3>. QED
      BY <3>6, <3>7
  <2>4. IsCache(r)
    <3>1. ASSUME NEW i \in DOMAIN r, NEW j \in DOMAIN r, r[i].m_ih = r[j].m_ih PROVE i = j
      <4>1. PICK m \in DOMAIN cache, n \in DOMAIN cache :
              /\ m = IF i < k THEN i ELSE i + 1
              /\ n = IF j < k THEN j ELSE j + 1
        BY <2>3
      <4>2. r[i] = cache[m] /\ r[j] = cache[n]
        BY <2>3, <4>1
      <4>3. m = n
        BY <3>1, <4>2 DEF IsCache
      <4>. QED
        BY <2>3, <4>1, <4>3
    <3>2. \A i \in DOMAIN r : r[i].m_ih \in Torrent
      BY <2>3 DEF IsCache
    <3>3. Len(r) <= CacheSize
      BY <2>3, HistoryCacheAssumption DEF IsCache
    <3>. QED
      BY <3>1, <3>2, <3>3 DEF IsCache
  <2>5. ASSUME NEW i \in DOMAIN r PROVE \E j \in DOMAIN cache : r[i] = cache[j] /\ cache[j].m_ih # t
    <3>1. PICK m \in DOMAIN cache : m = (IF i < k THEN i ELSE i + 1) /\ m # k
      BY <2>3
    <3>2. cache[m].m_ih # t
      BY <2>1, <3>1 DEF IsCache
    <3>. QED
      BY <2>3, <3>1, <3>2
  <2>6. Good(r)
    BY <1>3, <2>3, <2>4, <2>5
  <2>. QED
    BY <1>1, <2>6
<1>. QED
  BY <1>2, <1>3

\* The history that is used is in front, and what is behind it was there before.
LEMMA UsedFirst ==
  ASSUME NEW S, NEW cache \in Seq(S), IsCache(cache), NEW h \in S, h.m_ih \in Torrent
  PROVE  /\ Used(cache, h) \in Seq(S) /\ IsCache(Used(cache, h))
         /\ Used(cache, h) # <<>> /\ Used(cache, h)[1] = h
         /\ \A i \in DOMAIN Used(cache, h) :
              \/ Used(cache, h)[i] = h
              \/ \E j \in DOMAIN cache : Used(cache, h)[i] = cache[j] /\ cache[j].m_ih # h.m_ih
<1>. DEFINE Good(r) == /\ r \in Seq(S) /\ IsCache(r) /\ r # <<>> /\ r[1] = h
                       /\ \A i \in DOMAIN r :
                            r[i] = h \/ \E j \in DOMAIN cache : r[i] = cache[j] /\ cache[j].m_ih # h.m_ih
<1>1. PICK rest : rest = IF Known(cache, h.m_ih) THEN Dropped(cache, h.m_ih)
                         ELSE SubSeq(cache, 1, Min({CacheSize - 1, Len(cache)}))
  OBVIOUS
<1>2. PICK r : r = Used(cache, h)
  OBVIOUS
<1>3. r = <<h>> \o rest
  BY <1>1, <1>2 DEF Used
<1>4. /\ rest \in Seq(S) /\ Len(rest) <= CacheSize - 1
      /\ \A i, j \in DOMAIN rest : rest[i].m_ih = rest[j].m_ih => i = j
      /\ \A i \in DOMAIN rest : rest[i].m_ih \in Torrent
      /\ \A i \in DOMAIN rest : \E j \in DOMAIN cache : rest[i] = cache[j] /\ cache[j].m_ih # h.m_ih
  <2>1. CASE Known(cache, h.m_ih)
    <3>1. rest = Dropped(cache, h.m_ih)
      BY <1>1, <2>1
    <3>2. Len(Dropped(cache, h.m_ih)) <= CacheSize - 1
      BY <2>1, DroppedOne, HistoryCacheAssumption DEF IsCache
    <3>. QED
      BY <3>1, <3>2, DroppedOne DEF IsCache
  <2>2. CASE ~Known(cache, h.m_ih)
    <3>1. PICK n \in 0 .. Len(cache) : n = Min({CacheSize - 1, Len(cache)}) /\ n <= CacheSize - 1
      <4>1. CacheSize - 1 \in Nat /\ Len(cache) \in Nat
        BY HistoryCacheAssumption
      <4>. QED
        BY <4>1, MinOfTwo
    <3>2. rest = SubSeq(cache, 1, n)
      BY <1>1, <2>2, <3>1
    <3>3. rest \in Seq(S) /\ Len(rest) = n /\ \A i \in 1 .. n : rest[i] = cache[i]
      BY <3>2
    <3>4. \A i \in DOMAIN cache : cache[i].m_ih # h.m_ih
      BY <2>2 DEF Known
    <3>5. \A i \in DOMAIN rest : i \in DOMAIN cache /\ rest[i] = cache[i]
      <4>1. DOMAIN rest = 1 .. n /\ DOMAIN cache = 1 .. Len(cache)
        BY <3>3, LenProperties
      <4>2. \A i \in 1 .. n : i \in 1 .. Len(cache)
        BY <3>1
      <4>. QED
        BY <3>3, <4>1, <4>2
    <3>6. \A i, j \in DOMAIN rest : rest[i].m_ih = rest[j].m_ih => i = j
      BY <3>5 DEF IsCache
    <3>7. \A i \in DOMAIN rest : rest[i].m_ih \in Torrent
      BY <3>5 DEF IsCache
    <3>8. Len(rest) <= CacheSize - 1
      BY <3>1, <3>3
    <3>. QED
      BY <3>3, <3>4, <3>5, <3>6, <3>7, <3>8
  <2>. QED
    BY <2>1, <2>2
<1>5. /\ r \in Seq(S) /\ Len(r) = Len(rest) + 1 /\ r[1] = h
      /\ \A i \in 1 .. Len(r) : i # 1 => i - 1 \in DOMAIN rest /\ r[i] = rest[i - 1]
  BY <1>3, <1>4
<1>6. IsCache(r)
  <2>1. Len(r) <= CacheSize
    BY <1>4, <1>5, HistoryCacheAssumption
  <2>2. ASSUME NEW i \in DOMAIN r, NEW j \in DOMAIN r, r[i].m_ih = r[j].m_ih PROVE i = j
    <3>1. \A k \in DOMAIN rest : rest[k].m_ih # h.m_ih
      BY <1>4
    <3>2. CASE i = 1 \/ j = 1
      BY <1>5, <2>2, <3>1, <3>2
    <3>3. CASE i # 1 /\ j # 1
      <4>1. i - 1 = j - 1
        BY <1>4, <1>5, <2>2, <3>3
      <4>. QED
        BY <1>5, <4>1
    <3>. QED
      BY <3>2, <3>3
  <2>3. \A i \in DOMAIN r : r[i].m_ih \in Torrent
    BY <1>4, <1>5
  <2>. QED
    BY <2>1, <2>2, <2>3 DEF IsCache
<1>7. r # <<>>
  BY <1>5
<1>8. ASSUME NEW i \in DOMAIN r
      PROVE  r[i] = h \/ \E j \in DOMAIN cache : r[i] = cache[j] /\ cache[j].m_ih # h.m_ih
  BY <1>4, <1>5
<1>9. Good(r)
  BY <1>5, <1>6, <1>7, <1>8
<1>. HIDE DEF Good
<1>10. Good(Used(cache, h))
  BY <1>2, <1>9
<1>. QED
  BY <1>10 DEF Good

\* A cache that nothing was asked of is not used: what is used has a history.
LEMMA UsedHasOne ==
  ASSUME NEW h
  PROVE  Used(<<>>, h) # <<>>
<1>1. ~Known(<<>>, h.m_ih)
  BY DEF Known
<1>2. Used(<<>>, h) = <<h>> \o SubSeq(<<>>, 1, Min({CacheSize - 1, Len(<<>>)}))
  BY <1>1 DEF Used
<1>3. PICK n \in {0, CacheSize - 1} : n = Min({CacheSize - 1, Len(<<>>)}) /\ n <= 0
  <2>1. CacheSize - 1 \in Nat /\ Len(<<>>) = 0
    BY HistoryCacheAssumption
  <2>. QED
    BY <2>1, MinOfTwo
<1>. QED
  BY <1>2, <1>3, HistoryCacheAssumption

\* No client has a snapshot of a history that was not started yet.
LifeBehind == \A c \in Client, t \in Torrent : life[c][t] <= lives[t]

\* What a poll does to the frames and lives, of the client that polls and of the others.
Polled(cache, c, t, f, is_snapshot) ==
  /\ frame'[c][t] = f
  /\ lives'[t] = IF Known(cache, t) THEN lives[t] ELSE lives[t] + 1
  /\ life'[c][t] = IF is_snapshot THEN lives'[t] ELSE life[c][t]
  /\ \A u \in Torrent : u # t => lives'[u] = lives[u]
  /\ \A d \in Client, u \in Torrent : d # c \/ u # t =>
       frame'[d][u] = frame[d][u] /\ life'[d][u] = life[d][u]

\* Answered() keeps the types, and no client is ahead of the lives.
LEMMA AnsweredStep ==
  ASSUME PollTypeOK, LifeBehind, NEW cache, NEW c \in Client, NEW t \in Torrent, NEW f \in Nat,
         NEW is_snapshot, Answered(cache, c, t, f, is_snapshot)
  PROVE  PollTypeOK' /\ LifeBehind' /\ Polled(cache, c, t, f, is_snapshot)
<1>1. /\ lives' \in [Torrent -> Nat] /\ lives'[t] = IF Known(cache, t) THEN lives[t] ELSE lives[t] + 1
      /\ \A u \in Torrent : u # t => lives'[u] = lives[u]
  BY DEF Answered, PollTypeOK
<1>2. /\ frame' \in [Client -> [Torrent -> Nat]] /\ frame'[c][t] = f
      /\ \A d \in Client, u \in Torrent : d # c \/ u # t => frame'[d][u] = frame[d][u]
  BY DEF Answered, PollTypeOK
<1>3. /\ life' \in [Client -> [Torrent -> Nat]]
      /\ life'[c][t] = IF is_snapshot THEN lives'[t] ELSE life[c][t]
      /\ \A d \in Client, u \in Torrent : d # c \/ u # t => life'[d][u] = life[d][u]
  BY <1>1 DEF Answered, PollTypeOK
<1>4. polls' \in [Torrent -> Nat]
  BY DEF Answered, PollTypeOK
<1>5. LifeBehind'
  <2>. SUFFICES ASSUME NEW d \in Client, NEW u \in Torrent PROVE life'[d][u] <= lives'[u]
    BY DEF LifeBehind
  <2>1. lives[u] \in Nat /\ lives'[u] \in Nat /\ lives[u] <= lives'[u] /\ life[d][u] \in Nat /\ life[d][u] <= lives[u]
    BY <1>1 DEF PollTypeOK, LifeBehind
  <2>2. life'[d][u] \in {life[d][u], lives'[u]}
    BY <1>3
  <2>. QED
    BY <2>1, <2>2
<1>. QED
  BY <1>1, <1>2, <1>3, <1>4, <1>5 DEF PollTypeOK, Polled

-----------------------------------------------------------------------------
(* PieceStates                                                             *)

StateHistory ==
  [m_ih: Torrent, m_bitfield: SUBSET HavePiece, m_queue: Seq(HavePiece), m_horizon: Nat \ {0}]

\* What is queued of a history is in its bitfield.
QueueFits(h) ==
  Len(h.m_queue) <= MaxQueue /\ \A k \in DOMAIN h.m_queue : h.m_queue[k] \in h.m_bitfield

StateTypes ==
  /\ have \in [Torrent -> SUBSET HavePiece] /\ checking \subseteq Torrent
  /\ pieceAlerts \in Seq(Alert)
  /\ m_piece_state_histories \in Seq(StateHistory) /\ IsCache(m_piece_state_histories)
  /\ bitfield \in [Client -> [Torrent -> SUBSET HavePiece]]

WillDrop(t) == \E k \in DOMAIN pieceAlerts : pieceAlerts[k].ih = t /\ Drops(pieceAlerts[k].type)
Awaits(t, p) == \E k \in DOMAIN pieceAlerts : pieceAlerts[k].ih = t /\ pieceAlerts[k].piece = p

\* An alert of a piece that was lost again is behind one that drops the history, or
\* there will be one at the end of the check.
AlertsHold ==
  \A k \in DOMAIN pieceAlerts :
    \/ pieceAlerts[k].ih \in checking \/ Drops(pieceAlerts[k].type)
    \/ pieceAlerts[k].piece \in have[pieceAlerts[k].ih]
    \/ \E j \in DOMAIN pieceAlerts :
         j > k /\ pieceAlerts[j].ih = pieceAlerts[k].ih /\ Drops(pieceAlerts[j].type)

\* A history will be dropped, or has the pieces of the torrent but for those whose
\* alerts are on their way.
UpToDate(h) ==
  \/ h.m_ih \in checking \/ WillDrop(h.m_ih)
  \/ \A p \in HavePiece : p \in have[h.m_ih] <=> p \in h.m_bitfield \/ Awaits(h.m_ih, p)

\* What is queued from place i on.
Behind(q, i) == {q[k] : k \in i .. Len(q)}

\* A view of frame f and what the next answer adds to it are the bitfield.
StateCovers(h, view, f) ==
  /\ f \in 1 .. StateFrame(h)
  /\ h.m_horizon <= f => h.m_bitfield = view \cup Behind(h.m_queue, f - h.m_horizon + 1)

StateCopy(c, h) ==
  life[c][h.m_ih] = lives[h.m_ih] => StateCovers(h, bitfield[c][h.m_ih], frame[c][h.m_ih])

StateGood(h) == QueueFits(h) /\ UpToDate(h) /\ \A c \in Client : StateCopy(c, h)

StatesGood == \A i \in DOMAIN m_piece_state_histories : StateGood(m_piece_state_histories[i])

StateInv ==
  /\ StateTypes /\ AlertsHold /\ StatesGood
  /\ IF tab = "states" THEN PollTypeOK /\ LifeBehind ELSE m_piece_state_histories = <<>>

\* An alert is of a torrent and one of its pieces.
LEMMA AlertFields ==
  ASSUME StateTypes
  PROVE  \A k \in DOMAIN pieceAlerts : pieceAlerts[k].ih \in Torrent /\ pieceAlerts[k].piece \in HavePiece
<1>1. \A k \in DOMAIN pieceAlerts : pieceAlerts[k] \in Alert
  <2>1. pieceAlerts \in Seq(Alert)
    BY DEF StateTypes
  <2>. QED
    BY <2>1
<1>2. \A a \in Alert : a.ih \in Torrent /\ a.piece \in HavePiece
  BY DEF Alert
<1>. QED
  BY <1>1, <1>2

\* An alert that is posted comes after the others.
LEMMA Posted ==
  ASSUME StateTypes, NEW a \in Alert, pieceAlerts' = Append(pieceAlerts, a)
  PROVE  /\ pieceAlerts' \in Seq(Alert)
         /\ \A k \in DOMAIN pieceAlerts : k \in DOMAIN pieceAlerts' /\ pieceAlerts'[k] = pieceAlerts[k]
         /\ \E n \in DOMAIN pieceAlerts' : pieceAlerts'[n] = a /\ \A k \in DOMAIN pieceAlerts : n > k
         /\ \A k \in DOMAIN pieceAlerts' : k \in DOMAIN pieceAlerts \/ pieceAlerts'[k] = a
<1>1. pieceAlerts \in Seq(Alert)
  BY DEF StateTypes
<1>2. /\ pieceAlerts' \in Seq(Alert) /\ Len(pieceAlerts') = Len(pieceAlerts) + 1
      /\ \A k \in 1 .. Len(pieceAlerts) : pieceAlerts'[k] = pieceAlerts[k]
      /\ pieceAlerts'[Len(pieceAlerts) + 1] = a
  BY <1>1, AppendProperties
<1>3. DOMAIN pieceAlerts = 1 .. Len(pieceAlerts) /\ DOMAIN pieceAlerts' = 1 .. Len(pieceAlerts) + 1
  BY <1>1, <1>2
<1>4. Len(pieceAlerts) \in Nat
  BY <1>1
<1>5. \E n \in DOMAIN pieceAlerts' : pieceAlerts'[n] = a /\ \A k \in DOMAIN pieceAlerts : n > k
  BY <1>2, <1>3, <1>4
<1>6. \A k \in DOMAIN pieceAlerts' : k \in DOMAIN pieceAlerts \/ k = Len(pieceAlerts) + 1
  BY <1>3, <1>4
<1>. QED
  BY <1>2, <1>3, <1>4, <1>5, <1>6

\* What is posted of torrent t is all that changes of what is on its way.
LEMMA PostedOf ==
  ASSUME StateTypes, NEW type \in {"piece_finished", "hash_failed", "torrent_checked"}, NEW t \in Torrent,
         NEW p \in HavePiece, Post(type, t, p)
  PROVE  /\ pieceAlerts' \in Seq(Alert)
         /\ \A u : WillDrop(u)' <=> WillDrop(u) \/ (u = t /\ Drops(type))
         /\ \A u, q : Awaits(u, q)' <=> Awaits(u, q) \/ (u = t /\ q = p)
<1>1. PICK a \in Alert : a = [type |-> type, ih |-> t, piece |-> p]
  BY DEF Alert
<1>2. a.type = type /\ a.ih = t /\ a.piece = p /\ pieceAlerts' = Append(pieceAlerts, a)
  BY <1>1 DEF Post
<1>. USE <1>2, Posted
<1>3. ASSUME NEW u PROVE WillDrop(u)' <=> WillDrop(u) \/ (u = t /\ Drops(type))
  BY DEF WillDrop, Drops
<1>4. ASSUME NEW u, NEW q PROVE Awaits(u, q)' <=> Awaits(u, q) \/ (u = t /\ q = p)
  BY DEF Awaits
<1>. QED
  BY <1>3, <1>4

\* Alerts hold when one is posted, if what changed is of its torrent and it says so.
LEMMA AlertsHoldPosted ==
  ASSUME StateTypes, AlertsHold, NEW type \in {"piece_finished", "hash_failed", "torrent_checked"},
         NEW t \in Torrent, NEW p \in HavePiece, Post(type, t, p),
         \A u \in Torrent : u # t => have'[u] = have[u] /\ (u \in checking => u \in checking'),
         Drops(type) \/ (p \in have'[t] /\ have[t] \subseteq have'[t] /\ checking' = checking)
  PROVE  AlertsHold'
<1>1. PICK a \in Alert : a = [type |-> type, ih |-> t, piece |-> p]
  BY DEF Alert
<1>2. a.type = type /\ a.ih = t /\ a.piece = p /\ pieceAlerts' = Append(pieceAlerts, a)
  BY <1>1 DEF Post
<1>3. /\ \A k \in DOMAIN pieceAlerts : k \in DOMAIN pieceAlerts' /\ pieceAlerts'[k] = pieceAlerts[k]
      /\ \A k \in DOMAIN pieceAlerts' : k \in DOMAIN pieceAlerts \/ pieceAlerts'[k] = a
  BY <1>2, Posted
<1>4. PICK n \in DOMAIN pieceAlerts' : pieceAlerts'[n] = a /\ \A k \in DOMAIN pieceAlerts : n > k
  BY <1>2, Posted
<1>5. \A k \in DOMAIN pieceAlerts : pieceAlerts[k].ih \in Torrent
  BY AlertFields
<1>. SUFFICES ASSUME NEW k \in DOMAIN pieceAlerts'
              PROVE  \/ pieceAlerts'[k].ih \in checking' \/ Drops(pieceAlerts'[k].type)
                     \/ pieceAlerts'[k].piece \in have'[pieceAlerts'[k].ih]
                     \/ \E j \in DOMAIN pieceAlerts' :
                          j > k /\ pieceAlerts'[j].ih = pieceAlerts'[k].ih /\ Drops(pieceAlerts'[j].type)
  BY DEF AlertsHold, Drops
<1>6. CASE pieceAlerts'[k] = a
  BY <1>2, <1>6
<1>7. CASE k \in DOMAIN pieceAlerts /\ pieceAlerts[k].ih = t /\ Drops(type)
  BY <1>2, <1>3, <1>4, <1>7
<1>8. CASE k \in DOMAIN pieceAlerts /\ ~(pieceAlerts[k].ih = t /\ Drops(type))
  <2>1. \/ pieceAlerts[k].ih \in checking \/ Drops(pieceAlerts[k].type)
        \/ pieceAlerts[k].piece \in have[pieceAlerts[k].ih]
        \/ \E j \in DOMAIN pieceAlerts :
             j > k /\ pieceAlerts[j].ih = pieceAlerts[k].ih /\ Drops(pieceAlerts[j].type)
    BY <1>8 DEF AlertsHold
  <2>2. pieceAlerts'[k] = pieceAlerts[k]
    BY <1>3, <1>8
  <2>3. CASE \E j \in DOMAIN pieceAlerts :
               j > k /\ pieceAlerts[j].ih = pieceAlerts[k].ih /\ Drops(pieceAlerts[j].type)
    BY <1>3, <2>2, <2>3
  <2>4. CASE pieceAlerts[k].ih \in checking
    BY <1>5, <1>8, <2>2, <2>4
  <2>5. CASE pieceAlerts[k].piece \in have[pieceAlerts[k].ih]
    BY <1>5, <1>8, <2>2, <2>5
  <2>. QED
    BY <2>1, <2>2, <2>3, <2>4, <2>5
<1>. QED
  BY <1>3, <1>6, <1>7, <1>8

StateEvent(t) ==
  \/ \E p \in HavePiece : PieceFinishes(t, p) \/ HashFails(t, p)
  \/ ForceRecheck(t)
  \/ \E found \in SUBSET HavePiece : TorrentChecked(t, found)

\* What happens to a torrent leaves the histories as good as they were.
LEMMA StateEventStep ==
  ASSUME StateTypes, AlertsHold, NEW t \in Torrent, StateEvent(t)
  PROVE  /\ StateTypes' /\ AlertsHold'
         /\ \A h \in StateHistory : UpToDate(h) => UpToDate(h)'
         /\ UNCHANGED <<m_piece_state_histories, bitfield, pollVars>>
<1>1. UNCHANGED <<m_piece_state_histories, bitfield, pollVars>>
  BY DEF StateEvent, PieceFinishes, HashFails, ForceRecheck, TorrentChecked, Happens
<1>2. ASSUME NEW p \in HavePiece, PieceFinishes(t, p)
      PROVE  StateTypes' /\ AlertsHold' /\ \A h \in StateHistory : UpToDate(h) => UpToDate(h)'
  <2>1. Post("piece_finished", t, p) /\ checking' = checking /\ have' = [have EXCEPT ![t] = @ \cup {p}]
    BY <1>2 DEF PieceFinishes
  <2>2. /\ have' \in [Torrent -> SUBSET HavePiece] /\ have'[t] = have[t] \cup {p}
        /\ \A u \in Torrent : u # t => have'[u] = have[u]
    BY <2>1 DEF StateTypes
  <2>3. /\ pieceAlerts' \in Seq(Alert)
        /\ \A u : WillDrop(u)' <=> WillDrop(u)
        /\ \A u, q : Awaits(u, q)' <=> Awaits(u, q) \/ (u = t /\ q = p)
    BY <2>1, PostedOf DEF Drops
  <2>4. AlertsHold'
    BY <2>1, <2>2, AlertsHoldPosted
  <2>5. ASSUME NEW h \in StateHistory, UpToDate(h) PROVE UpToDate(h)'
    <3>1. h.m_ih \in Torrent
      BY DEF StateHistory
    <3>2. CASE h.m_ih \in checking \/ WillDrop(h.m_ih)
      BY <2>1, <2>3, <3>2 DEF UpToDate
    <3>3. CASE \A q \in HavePiece : q \in have[h.m_ih] <=> q \in h.m_bitfield \/ Awaits(h.m_ih, q)
      <4>1. \A q \in HavePiece : q \in have'[h.m_ih] <=> q \in h.m_bitfield \/ Awaits(h.m_ih, q)'
        BY <2>2, <2>3, <3>1, <3>3
      <4>. QED
        BY <4>1 DEF UpToDate
    <3>. QED
      BY <2>5, <3>2, <3>3 DEF UpToDate
  <2>. QED
    BY <1>1, <2>1, <2>2, <2>3, <2>4, <2>5 DEF StateTypes
<1>3. ASSUME NEW p \in HavePiece, NEW type \in {"hash_failed", "torrent_checked"}, Post(type, t, p),
             NEW S \in SUBSET HavePiece, have' = [have EXCEPT ![t] = S],
             checking' = checking \/ checking' = checking \ {t}
      PROVE  StateTypes' /\ AlertsHold' /\ \A h \in StateHistory : UpToDate(h) => UpToDate(h)'
  <2>1. Drops(type) /\ type \in {"piece_finished", "hash_failed", "torrent_checked"}
    BY DEF Drops
  <2>2. /\ have' \in [Torrent -> SUBSET HavePiece] /\ checking' \subseteq Torrent
        /\ \A u \in Torrent : u # t => have'[u] = have[u] /\ (u \in checking => u \in checking')
    BY <1>3 DEF StateTypes
  <2>3. /\ pieceAlerts' \in Seq(Alert)
        /\ \A u : WillDrop(u)' <=> WillDrop(u) \/ u = t
        /\ \A u, q : Awaits(u, q)' <=> Awaits(u, q) \/ (u = t /\ q = p)
    BY <1>3, <2>1, PostedOf
  <2>4. AlertsHold'
    BY <1>3, <2>1, <2>2, AlertsHoldPosted
  <2>5. ASSUME NEW h \in StateHistory, UpToDate(h) PROVE UpToDate(h)'
    <3>1. CASE h.m_ih = t
      BY <2>3, <3>1 DEF UpToDate
    <3>2. CASE h.m_ih # t
      <4>1. h.m_ih \in Torrent
        BY DEF StateHistory
      <4>2. /\ have'[h.m_ih] = have[h.m_ih] /\ (h.m_ih \in checking => h.m_ih \in checking')
            /\ WillDrop(h.m_ih)' <=> WillDrop(h.m_ih)
            /\ \A q : Awaits(h.m_ih, q)' <=> Awaits(h.m_ih, q)
        BY <2>2, <2>3, <3>2, <4>1
      <4>. QED
        BY <2>5, <4>2 DEF UpToDate
    <3>. QED
      BY <3>1, <3>2
  <2>. QED
    BY <1>1, <2>2, <2>3, <2>4, <2>5 DEF StateTypes
<1>4. ASSUME NEW p \in HavePiece, HashFails(t, p)
      PROVE  StateTypes' /\ AlertsHold' /\ \A h \in StateHistory : UpToDate(h) => UpToDate(h)'
  <2>1. /\ Post("hash_failed", t, p) /\ checking' = checking
        /\ have' = [have EXCEPT ![t] = have[t] \ {p}] /\ have[t] \ {p} \in SUBSET HavePiece
    BY <1>4 DEF HashFails, StateTypes
  <2>. QED
    BY <1>3, <2>1
<1>5. ASSUME NEW found \in SUBSET HavePiece, TorrentChecked(t, found)
      PROVE  StateTypes' /\ AlertsHold' /\ \A h \in StateHistory : UpToDate(h) => UpToDate(h)'
  <2>1. /\ \E p \in HavePiece : Post("torrent_checked", t, p)
        /\ checking' = checking \ {t} /\ have' = [have EXCEPT ![t] = found]
    BY <1>5 DEF TorrentChecked
  <2>. QED
    BY <1>3, <2>1
<1>6. ASSUME ForceRecheck(t)
      PROVE  StateTypes' /\ AlertsHold' /\ \A h \in StateHistory : UpToDate(h) => UpToDate(h)'
  <2>1. /\ checking' = checking \cup {t} /\ have' = [have EXCEPT ![t] = {}] /\ pieceAlerts' = pieceAlerts
    BY <1>6 DEF ForceRecheck
  <2>2. /\ have' \in [Torrent -> SUBSET HavePiece] /\ checking' \subseteq Torrent
        /\ \A u \in Torrent : u # t => have'[u] = have[u]
    BY <2>1 DEF StateTypes
  <2>3. \A u : (WillDrop(u)' <=> WillDrop(u)) /\ \A q : Awaits(u, q)' <=> Awaits(u, q)
    BY <2>1 DEF WillDrop, Awaits, Drops
  <2>4. AlertsHold'
    <3>1. \A k \in DOMAIN pieceAlerts : pieceAlerts[k].ih \in Torrent
      BY AlertFields
    <3>. QED
      BY <2>1, <2>2, <3>1 DEF AlertsHold, Drops
  <2>5. ASSUME NEW h \in StateHistory, UpToDate(h) PROVE UpToDate(h)'
    <3>1. h.m_ih \in Torrent
      BY DEF StateHistory
    <3>2. CASE h.m_ih = t
      BY <2>1, <3>2 DEF UpToDate
    <3>3. CASE h.m_ih # t
      BY <2>1, <2>2, <2>3, <2>5, <3>1, <3>3 DEF UpToDate
    <3>. QED
      BY <3>2, <3>3
  <2>. QED
    BY <1>1, <2>1, <2>2, <2>4, <2>5 DEF StateTypes
<1>. QED
  BY <1>1, <1>2, <1>4, <1>5, <1>6 DEF StateEvent

\* A piece that finished goes into the bitfield and the queue, and what a view
\* lacks of the one it lacks of the other.
LEMMA FinishedCovers ==
  ASSUME NEW h \in StateHistory, QueueFits(h), NEW p \in HavePiece
  PROVE  /\ OnPieceFinished(h, p) \in StateHistory /\ QueueFits(OnPieceFinished(h, p))
         /\ OnPieceFinished(h, p).m_ih = h.m_ih
         /\ OnPieceFinished(h, p).m_bitfield = h.m_bitfield \cup {p}
         /\ \A view, f : StateCovers(h, view, f) => StateCovers(OnPieceFinished(h, p), view, f)
<1>. DEFINE Good(n) == /\ n \in StateHistory /\ QueueFits(n) /\ n.m_ih = h.m_ih
                       /\ n.m_bitfield = h.m_bitfield \cup {p}
                       /\ \A view, f : StateCovers(h, view, f) => StateCovers(n, view, f)
<1>1. PICK n : n = OnPieceFinished(h, p)
  OBVIOUS
<1>2. CASE p \in h.m_bitfield
  <2>1. n = h /\ h.m_bitfield = h.m_bitfield \cup {p}
    BY <1>1, <1>2 DEF OnPieceFinished
  <2>. QED
    BY <1>1, <2>1
<1>3. CASE p \notin h.m_bitfield /\ ~(Len(h.m_queue) >= MaxQueue)
  <2>1. n = [h EXCEPT !.m_bitfield = @ \cup {p}, !.m_queue = Append(@, p)]
    BY <1>1, <1>3 DEF OnPieceFinished, StateHistory
  <2>2. PICK q \in Seq(HavePiece) : q = h.m_queue
    BY DEF StateHistory
  <2>3. /\ n \in StateHistory /\ n.m_ih = h.m_ih /\ n.m_bitfield = h.m_bitfield \cup {p}
        /\ n.m_queue = Append(q, p) /\ n.m_horizon = h.m_horizon
    <3>1. n = [m_ih |-> h.m_ih, m_bitfield |-> h.m_bitfield \cup {p}, m_queue |-> Append(q, p),
               m_horizon |-> h.m_horizon]
      BY <2>1, <2>2 DEF StateHistory
    <3>2. /\ h.m_ih \in Torrent /\ h.m_bitfield \cup {p} \in SUBSET HavePiece
          /\ Append(q, p) \in Seq(HavePiece) /\ h.m_horizon \in Nat \ {0}
      BY DEF StateHistory
    <3>. QED
      BY <3>1, <3>2 DEF StateHistory
  <2>4. /\ Append(q, p) \in Seq(HavePiece) /\ Len(Append(q, p)) = Len(q) + 1 /\ Append(q, p)[Len(q) + 1] = p
        /\ \A k \in 1 .. Len(q) : Append(q, p)[k] = q[k]
    BY AppendProperties
  <2>5. QueueFits(n)
    <3>1. Len(Append(q, p)) <= MaxQueue
      BY <1>3, <2>2, <2>4, PieceStatesAssumption
    <3>2. ASSUME NEW k \in DOMAIN Append(q, p) PROVE Append(q, p)[k] \in h.m_bitfield \cup {p}
      <4>1. k \in 1 .. Len(q) \/ k = Len(q) + 1
        BY <2>4
      <4>. QED
        BY <2>2, <2>4, <4>1 DEF QueueFits
    <3>. QED
      BY <2>3, <3>1, <3>2 DEF QueueFits
  <2>6. ASSUME NEW view, NEW f, StateCovers(h, view, f) PROVE StateCovers(n, view, f)
    <3>1. f \in 1 .. h.m_horizon + Len(q)
      BY <2>2, <2>6 DEF StateCovers, StateFrame
    <3>2. h.m_horizon \in Nat \ {0}
      BY DEF StateHistory
    <3>3. f \in 1 .. StateFrame(n)
      BY <2>3, <2>4, <3>1, <3>2 DEF StateFrame
    <3>4. ASSUME h.m_horizon <= f
          PROVE  n.m_bitfield = view \cup Behind(n.m_queue, f - n.m_horizon + 1)
      <4>1. h.m_bitfield = view \cup Behind(q, f - h.m_horizon + 1)
        BY <2>2, <2>6, <3>4 DEF StateCovers
      <4>2. f - h.m_horizon + 1 \in 1 .. Len(q) + 1
        BY <3>1, <3>2, <3>4
      <4>3. Behind(Append(q, p), f - h.m_horizon + 1) = Behind(q, f - h.m_horizon + 1) \cup {p}
        <5>1. ASSUME NEW k \in f - h.m_horizon + 1 .. Len(q) + 1
              PROVE  Append(q, p)[k] \in {q[i] : i \in f - h.m_horizon + 1 .. Len(q)} \cup {p}
          BY <2>4, <4>2
        <5>2. ASSUME NEW k \in f - h.m_horizon + 1 .. Len(q)
              PROVE  q[k] \in {Append(q, p)[i] : i \in f - h.m_horizon + 1 .. Len(q) + 1}
          BY <2>4, <4>2
        <5>3. p \in {Append(q, p)[i] : i \in f - h.m_horizon + 1 .. Len(q) + 1}
          BY <2>4, <4>2
        <5>. QED
          BY <2>4, <5>1, <5>2, <5>3 DEF Behind
      <4>. QED
        BY <2>3, <4>1, <4>3
    <3>. QED
      BY <2>3, <3>3, <3>4 DEF StateCovers
  <2>7. Good(n)
    BY <2>3, <2>5, <2>6
  <2>. QED
    BY <1>1, <2>7
<1>4. CASE p \notin h.m_bitfield /\ Len(h.m_queue) >= MaxQueue
  <2>1. n = [h EXCEPT !.m_bitfield = @ \cup {p}, !.m_queue = Tail(Append(@, p)), !.m_horizon = @ + 1]
    BY <1>1, <1>4 DEF OnPieceFinished, StateHistory
  <2>2. PICK q \in Seq(HavePiece) : q = h.m_queue
    BY DEF StateHistory
  <2>3. PICK r : r = Tail(Append(q, p))
    OBVIOUS
  <2>4. /\ r \in Seq(HavePiece) /\ Len(r) = Len(q)
        /\ \A k \in 1 .. Len(q) : r[k] = IF k = Len(q) THEN p ELSE q[k + 1]
    <3>1. /\ Append(q, p) \in Seq(HavePiece) /\ Append(q, p) # <<>>
          /\ Len(Append(q, p)) = Len(q) + 1 /\ Append(q, p)[Len(q) + 1] = p
          /\ \A k \in 1 .. Len(q) : Append(q, p)[k] = q[k]
      BY AppendProperties
    <3>2. /\ r \in Seq(HavePiece) /\ Len(r) = Len(Append(q, p)) - 1
          /\ \A k \in 1 .. Len(r) : r[k] = Append(q, p)[k + 1]
      BY <2>3, <3>1, HeadTailProperties
    <3>3. Len(q) \in Nat
      OBVIOUS
    <3>4. Len(r) = Len(q)
      BY <3>1, <3>2, <3>3
    <3>5. \A k \in 1 .. Len(q) : k # Len(q) => k + 1 \in 1 .. Len(q)
      BY <3>3
    <3>. QED
      BY <3>1, <3>2, <3>4, <3>5
  <2>5. /\ n \in StateHistory /\ n.m_ih = h.m_ih /\ n.m_bitfield = h.m_bitfield \cup {p}
        /\ n.m_queue = r /\ n.m_horizon = h.m_horizon + 1
    <3>1. n = [m_ih |-> h.m_ih, m_bitfield |-> h.m_bitfield \cup {p}, m_queue |-> r,
               m_horizon |-> h.m_horizon + 1]
      BY <2>1, <2>2, <2>3 DEF StateHistory
    <3>2. /\ h.m_ih \in Torrent /\ h.m_bitfield \cup {p} \in SUBSET HavePiece
          /\ r \in Seq(HavePiece) /\ h.m_horizon + 1 \in Nat \ {0}
      BY <2>4 DEF StateHistory
    <3>. QED
      BY <3>1, <3>2 DEF StateHistory
  <2>6. QueueFits(n)
    <3>1. Len(r) <= MaxQueue
      BY <2>2, <2>4 DEF QueueFits
    <3>2. \A k \in 1 .. Len(q) : q[k] \in h.m_bitfield
      BY <2>2 DEF QueueFits
    <3>3. ASSUME NEW k \in DOMAIN r PROVE r[k] \in h.m_bitfield \cup {p}
      <4>1. k \in 1 .. Len(q) /\ (k # Len(q) => k + 1 \in 1 .. Len(q))
        BY <2>4
      <4>. QED
        BY <2>4, <3>2, <4>1
    <3>. QED
      BY <2>5, <3>1, <3>3 DEF QueueFits
  <2>7. ASSUME NEW view, NEW f, StateCovers(h, view, f) PROVE StateCovers(n, view, f)
    <3>1. f \in 1 .. h.m_horizon + Len(q)
      BY <2>2, <2>7 DEF StateCovers, StateFrame
    <3>2. h.m_horizon \in Nat \ {0} /\ Len(q) \in Nat
      BY DEF StateHistory
    <3>3. f \in 1 .. StateFrame(n)
      BY <2>4, <2>5, <3>1, <3>2 DEF StateFrame
    <3>4. ASSUME h.m_horizon + 1 <= f
          PROVE  n.m_bitfield = view \cup Behind(n.m_queue, f - n.m_horizon + 1)
      <4>1. h.m_bitfield = view \cup Behind(q, f - h.m_horizon + 1)
        BY <2>2, <2>7, <3>1, <3>2, <3>4 DEF StateCovers
      <4>2. PICK m \in 1 .. Len(q) : m = f - h.m_horizon
        BY <3>1, <3>2, <3>4
      <4>3. Behind(r, m) = Behind(q, m + 1) \cup {p}
        <5>1. ASSUME NEW k \in m .. Len(q) PROVE r[k] \in {q[i] : i \in m + 1 .. Len(q)} \cup {p}
          BY <2>4, <4>2
        <5>2. ASSUME NEW k \in m + 1 .. Len(q) PROVE q[k] \in {r[i] : i \in m .. Len(q)}
          <6>1. k - 1 \in m .. Len(q) /\ k - 1 \in 1 .. Len(q) /\ k - 1 # Len(q) /\ (k - 1) + 1 = k
            BY <4>2
          <6>. QED
            BY <2>4, <6>1
        <5>3. p \in {r[i] : i \in m .. Len(q)}
          BY <2>4, <4>2
        <5>. QED
          BY <2>4, <5>1, <5>2, <5>3 DEF Behind
      <4>4. f - n.m_horizon + 1 = m /\ f - h.m_horizon + 1 = m + 1
        BY <2>5, <3>1, <3>2, <4>2
      <4>. QED
        BY <2>5, <4>1, <4>3, <4>4
    <3>. QED
      BY <2>5, <3>3, <3>4 DEF StateCovers
  <2>8. Good(n)
    BY <2>5, <2>6, <2>7
  <2>. QED
    BY <1>1, <2>8
<1>. QED
  BY <1>2, <1>3, <1>4

\* What is left on its way once an alert is taken.
LEMMA TakenOf ==
  ASSUME StateTypes, pieceAlerts # <<>>, pieceAlerts' = Tail(pieceAlerts)
  PROVE  /\ pieceAlerts' \in Seq(Alert) /\ Head(pieceAlerts) \in Alert
         /\ \A k \in DOMAIN pieceAlerts' : k + 1 \in DOMAIN pieceAlerts /\ pieceAlerts'[k] = pieceAlerts[k + 1]
         /\ \A k \in DOMAIN pieceAlerts :
              \/ pieceAlerts[k] = Head(pieceAlerts)
              \/ k - 1 \in DOMAIN pieceAlerts' /\ pieceAlerts'[k - 1] = pieceAlerts[k]
         /\ \A t : WillDrop(t)' => WillDrop(t)
         /\ \A t : WillDrop(t) =>
              WillDrop(t)' \/ (Head(pieceAlerts).ih = t /\ Drops(Head(pieceAlerts).type))
         /\ \A t, p : Awaits(t, p)' => Awaits(t, p)
         /\ \A t, p : Awaits(t, p) =>
              Awaits(t, p)' \/ (Head(pieceAlerts).ih = t /\ Head(pieceAlerts).piece = p)
         /\ Awaits(Head(pieceAlerts).ih, Head(pieceAlerts).piece)
<1>1. PICK s \in Seq(Alert) : s = pieceAlerts
  BY DEF StateTypes
<1>2. PICK a : a = Head(s)
  OBVIOUS
<1>3. /\ s # <<>> /\ Len(s) \in Nat \ {0} /\ a \in Alert /\ a = s[1] /\ 1 \in DOMAIN s
      /\ Tail(s) \in Seq(Alert) /\ Len(Tail(s)) = Len(s) - 1
      /\ \A k \in 1 .. Len(s) - 1 : Tail(s)[k] = s[k + 1]
  BY <1>1, <1>2, HeadTailProperties
<1>4. PICK r \in Seq(Alert) : r = pieceAlerts' /\ r = Tail(s)
  BY <1>1, <1>3
<1>5. DOMAIN s = 1 .. Len(s) /\ DOMAIN r = 1 .. Len(s) - 1
  BY <1>3, <1>4
<1>6. \A k \in DOMAIN r : k + 1 \in DOMAIN s /\ r[k] = s[k + 1]
  BY <1>3, <1>4, <1>5
<1>7. \A k \in DOMAIN s : s[k] = a \/ (k - 1 \in DOMAIN r /\ r[k - 1] = s[k])
  <2>1. \A k \in DOMAIN s : k # 1 => k - 1 \in DOMAIN r /\ (k - 1) + 1 = k
    BY <1>3, <1>5
  <2>. QED
    BY <1>3, <1>6, <2>1
<1>8. /\ \A t : WillDrop(t) <=> \E k \in DOMAIN s : s[k].ih = t /\ Drops(s[k].type)
      /\ \A t : WillDrop(t)' <=> \E k \in DOMAIN r : r[k].ih = t /\ Drops(r[k].type)
      /\ \A t, p : Awaits(t, p) <=> \E k \in DOMAIN s : s[k].ih = t /\ s[k].piece = p
      /\ \A t, p : Awaits(t, p)' <=> \E k \in DOMAIN r : r[k].ih = t /\ r[k].piece = p
  BY <1>1, <1>4 DEF WillDrop, Awaits, Drops
<1>9. ASSUME NEW t, WillDrop(t)' PROVE WillDrop(t)
  <2>1. PICK k \in DOMAIN r : r[k].ih = t /\ Drops(r[k].type)
    BY <1>8, <1>9
  <2>2. k + 1 \in DOMAIN s /\ s[k + 1].ih = t /\ Drops(s[k + 1].type)
    BY <1>6, <2>1
  <2>. QED
    BY <1>8, <2>2
<1>10. \A t : WillDrop(t) => WillDrop(t)' \/ (a.ih = t /\ Drops(a.type))
  BY <1>7, <1>8
<1>11. ASSUME NEW t, NEW p, Awaits(t, p)' PROVE Awaits(t, p)
  <2>1. PICK k \in DOMAIN r : r[k].ih = t /\ r[k].piece = p
    BY <1>8, <1>11
  <2>2. k + 1 \in DOMAIN s /\ s[k + 1].ih = t /\ s[k + 1].piece = p
    BY <1>6, <2>1
  <2>. QED
    BY <1>8, <2>2
<1>12. \A t, p : Awaits(t, p) => Awaits(t, p)' \/ (a.ih = t /\ a.piece = p)
  BY <1>7, <1>8
<1>13. Awaits(a.ih, a.piece)
  BY <1>3, <1>8
<1>. QED
  BY <1>1, <1>2, <1>3, <1>4, <1>6, <1>7, <1>9, <1>10, <1>11, <1>12, <1>13

\* An alert that is handled drops the history or brings it up to date.
LEMMA HandleAlertStep ==
  ASSUME StateTypes, AlertsHold, HandleAlert,
         \A i \in DOMAIN m_piece_state_histories : StateGood(m_piece_state_histories[i])
  PROVE  /\ StateTypes' /\ AlertsHold'
         /\ m_piece_state_histories = <<>> => m_piece_state_histories' = <<>>
         /\ (\A i \in DOMAIN m_piece_state_histories : StateGood(m_piece_state_histories[i]))'
<1>1. /\ pieceAlerts # <<>> /\ pieceAlerts' = Tail(pieceAlerts)
      /\ UNCHANGED <<have, checking, bitfield, pollVars>>
  BY DEF HandleAlert, stateSource
<1>2. PICK a \in Alert : a = Head(pieceAlerts)
  BY <1>1, TakenOf
<1>3. PICK cache \in Seq(StateHistory) : cache = m_piece_state_histories
  BY DEF StateTypes
<1>4. IsCache(cache) /\ \A i \in DOMAIN cache : cache[i] \in StateHistory /\ StateGood(cache[i])
  BY <1>3 DEF StateTypes
<1>5. m_piece_state_histories' =
        IF Drops(a.type) THEN Dropped(cache, a.ih)
        ELSE [i \in DOMAIN cache |->
                IF cache[i].m_ih = a.ih /\ a.type = "piece_finished" THEN OnPieceFinished(cache[i], a.piece)
                ELSE cache[i]]
  BY <1>2, <1>3 DEF HandleAlert
<1>6. /\ a.piece \in HavePiece /\ a.ih \in Torrent
      /\ ~Drops(a.type) => a.type = "piece_finished"
  BY DEF Alert, Drops
<1>7. /\ pieceAlerts' \in Seq(Alert)
      /\ \A t : WillDrop(t)' => WillDrop(t)
      /\ \A t : WillDrop(t) => WillDrop(t)' \/ (a.ih = t /\ Drops(a.type))
      /\ \A t, p : Awaits(t, p)' => Awaits(t, p)
      /\ \A t, p : Awaits(t, p) => Awaits(t, p)' \/ (a.ih = t /\ a.piece = p)
      /\ Awaits(a.ih, a.piece)
  BY <1>1, <1>2, TakenOf
<1>8. AlertsHold'
  <2>. SUFFICES ASSUME NEW k \in DOMAIN pieceAlerts'
                PROVE  \/ pieceAlerts'[k].ih \in checking' \/ Drops(pieceAlerts'[k].type)
                       \/ pieceAlerts'[k].piece \in have'[pieceAlerts'[k].ih]
                       \/ \E j \in DOMAIN pieceAlerts' :
                            j > k /\ pieceAlerts'[j].ih = pieceAlerts'[k].ih /\ Drops(pieceAlerts'[j].type)
    BY DEF AlertsHold, Drops
  <2>1. k + 1 \in DOMAIN pieceAlerts /\ pieceAlerts'[k] = pieceAlerts[k + 1]
    BY <1>1, TakenOf
  <2>2. \/ pieceAlerts[k + 1].ih \in checking \/ Drops(pieceAlerts[k + 1].type)
        \/ pieceAlerts[k + 1].piece \in have[pieceAlerts[k + 1].ih]
        \/ \E j \in DOMAIN pieceAlerts :
             j > k + 1 /\ pieceAlerts[j].ih = pieceAlerts[k + 1].ih /\ Drops(pieceAlerts[j].type)
    BY <2>1 DEF AlertsHold
  <2>3. ASSUME NEW j \in DOMAIN pieceAlerts, j > k + 1,
               pieceAlerts[j].ih = pieceAlerts[k + 1].ih, Drops(pieceAlerts[j].type)
        PROVE  \E i \in DOMAIN pieceAlerts' :
                 i > k /\ pieceAlerts'[i].ih = pieceAlerts'[k].ih /\ Drops(pieceAlerts'[i].type)
    <3>1. DOMAIN pieceAlerts' = 1 .. Len(pieceAlerts) - 1 /\ DOMAIN pieceAlerts = 1 .. Len(pieceAlerts)
      BY <1>1, HeadTailProperties DEF StateTypes
    <3>2. Len(pieceAlerts) \in Nat
      BY DEF StateTypes
    <3>3. j - 1 \in DOMAIN pieceAlerts' /\ j - 1 > k /\ (j - 1) + 1 = j
      BY <2>3, <3>1, <3>2
    <3>4. pieceAlerts'[j - 1] = pieceAlerts[j]
      BY <1>1, <3>3, TakenOf
    <3>. QED
      BY <2>1, <2>3, <3>3, <3>4
  <2>. QED
    BY <1>1, <2>1, <2>2, <2>3
<1>9. \A h \in StateHistory : StateGood(h)' <=> QueueFits(h) /\ UpToDate(h)' /\ \A c \in Client : StateCopy(c, h)
  BY <1>1 DEF StateGood, StateCopy, pollVars, QueueFits, StateCovers, StateFrame, Behind
<1>10. CASE Drops(a.type)
  <2>. DEFINE Good(n) == /\ n \in Seq(StateHistory) /\ IsCache(n)
                         /\ \A i \in DOMAIN n : \E j \in DOMAIN cache : n[i] = cache[j] /\ cache[j].m_ih # a.ih
  <2>6. Good(Dropped(cache, a.ih))
    BY <1>4, DroppedOne
  <2>. HIDE DEF Good
  <2>7. PICK r : r = m_piece_state_histories' /\ r = Dropped(cache, a.ih)
    BY <1>5, <1>10
  <2>8. Good(r)
    BY <2>6, <2>7
  <2>1. r \in Seq(StateHistory) /\ r = m_piece_state_histories' /\ r = Dropped(cache, a.ih) /\ IsCache(r)
    BY <2>7, <2>8 DEF Good
  <2>2. \A i \in DOMAIN r : \E j \in DOMAIN cache : r[i] = cache[j] /\ cache[j].m_ih # a.ih
    BY <2>8 DEF Good
  <2>3. ASSUME NEW i \in DOMAIN r PROVE StateGood(r[i])'
    <3>1. PICK j \in DOMAIN cache : r[i] = cache[j] /\ cache[j].m_ih # a.ih
      BY <2>2
    <3>2. PICK h \in StateHistory : h = cache[j] /\ StateGood(h)
      BY <1>4
    <3>3. h.m_ih # a.ih /\ h.m_ih \in Torrent
      BY <3>1, <3>2 DEF StateHistory
    <3>4. /\ WillDrop(h.m_ih)' <=> WillDrop(h.m_ih)
          /\ \A p : Awaits(h.m_ih, p)' <=> Awaits(h.m_ih, p)
      BY <1>7, <3>3
    <3>5. UpToDate(h)'
      BY <1>1, <3>2, <3>4 DEF StateGood, UpToDate
    <3>6. StateGood(h)'
      BY <1>9, <3>2, <3>5 DEF StateGood
    <3>. QED
      BY <3>1, <3>2, <3>6
  <2>4. cache = <<>> => r = <<>>
    <3>1. cache = <<>> => ~Known(cache, a.ih)
      BY DEF Known
    <3>. QED
      BY <2>1, <3>1 DEF Dropped
  <2>5. StateTypes'
    BY <1>1, <1>7, <2>1 DEF StateTypes
  <2>. QED
    BY <1>3, <1>8, <2>1, <2>3, <2>4, <2>5
<1>11. CASE ~Drops(a.type)
  <2>1. PICK r : r = m_piece_state_histories'
    OBVIOUS
  <2>2. r = [i \in DOMAIN cache |->
               IF cache[i].m_ih = a.ih THEN OnPieceFinished(cache[i], a.piece) ELSE cache[i]]
    BY <1>5, <1>6, <1>11, <2>1
  <2>3. ASSUME NEW i \in DOMAIN cache
        PROVE  r[i] \in StateHistory /\ r[i].m_ih = cache[i].m_ih /\ StateGood(r[i])'
    <3>1. PICK h \in StateHistory : h = cache[i] /\ StateGood(h)
      BY <1>4
    <3>2. h.m_ih \in Torrent
      BY DEF StateHistory
    <3>3. CASE h.m_ih # a.ih
      <4>1. r[i] = h
        BY <2>2, <3>1, <3>3
      <4>2. /\ WillDrop(h.m_ih)' <=> WillDrop(h.m_ih)
            /\ \A p : Awaits(h.m_ih, p)' <=> Awaits(h.m_ih, p)
        BY <1>7, <3>3
      <4>3. UpToDate(h)'
        BY <1>1, <3>1, <4>2 DEF StateGood, UpToDate
      <4>4. StateGood(h)'
        BY <1>9, <3>1, <4>3 DEF StateGood
      <4>. QED
        BY <3>1, <4>1, <4>4
    <3>4. CASE h.m_ih = a.ih
      <4>1. PICK n : n = OnPieceFinished(h, a.piece)
        OBVIOUS
      <4>2. /\ n \in StateHistory /\ QueueFits(n) /\ n.m_ih = h.m_ih
            /\ n.m_bitfield = h.m_bitfield \cup {a.piece}
            /\ \A view, f : StateCovers(h, view, f) => StateCovers(n, view, f)
        BY <1>6, <3>1, <4>1, FinishedCovers DEF StateGood
      <4>3. \A c \in Client : StateCopy(c, n)
        BY <3>1, <4>2 DEF StateGood, StateCopy
      <4>4. UpToDate(n)'
        <5>1. WillDrop(h.m_ih)' <=> WillDrop(h.m_ih)
          BY <1>7, <1>11
        <5>2. UpToDate(h)
          BY <3>1 DEF StateGood
        <5>3. CASE h.m_ih \in checking \/ WillDrop(h.m_ih)
          BY <1>1, <4>2, <5>1, <5>3 DEF UpToDate
        <5>4. CASE \A p \in HavePiece : p \in have[h.m_ih] <=> p \in h.m_bitfield \/ Awaits(h.m_ih, p)
          <6>1. \A p \in HavePiece : p \in have'[n.m_ih] <=> p \in n.m_bitfield \/ Awaits(n.m_ih, p)'
            BY <1>1, <1>7, <3>4, <4>2, <5>4
          <6>. QED
            BY <6>1 DEF UpToDate
        <5>. QED
          BY <5>2, <5>3, <5>4 DEF UpToDate
      <4>5. StateGood(n)'
        BY <1>9, <4>2, <4>3, <4>4
      <4>6. r[i] = n
        BY <2>2, <3>1, <3>4, <4>1
      <4>. QED
        BY <3>1, <4>2, <4>5, <4>6
    <3>. QED
      BY <3>3, <3>4
  <2>4. DOMAIN r = DOMAIN cache /\ DOMAIN cache = 1 .. Len(cache) /\ Len(cache) \in Nat
    BY <2>2
  <2>5. r \in Seq(StateHistory) /\ Len(r) = Len(cache)
    <3>1. r \in [1 .. Len(cache) -> StateHistory]
      BY <2>2, <2>3, <2>4
    <3>. QED
      BY <2>4, <3>1
  <2>6. IsCache(r)
    <3>1. Len(r) <= CacheSize
      BY <1>4, <2>5 DEF IsCache
    <3>2. \A i, j \in DOMAIN r : r[i].m_ih = r[j].m_ih => i = j
      BY <1>4, <2>3, <2>4 DEF IsCache
    <3>3. \A i \in DOMAIN r : r[i].m_ih \in Torrent
      BY <1>4, <2>3, <2>4 DEF IsCache
    <3>. QED
      BY <3>1, <3>2, <3>3 DEF IsCache
  <2>7. StateTypes'
    BY <1>1, <1>7, <2>1, <2>5, <2>6 DEF StateTypes
  <2>8. cache = <<>> => r = <<>>
    BY <2>2
  <2>. QED
    BY <1>3, <1>8, <2>1, <2>3, <2>4, <2>7, <2>8
<1>. QED
  BY <1>10, <1>11

\* A client that starts from a snapshot of a history, or from an answer it was
\* covered before, is covered after the next answer.
LEMMA QueryCovers ==
  ASSUME NEW h \in StateHistory, QueueFits(h), NEW view \in SUBSET HavePiece, NEW f \in Nat,
         NEW r, r = StateQuery(h, f)
  PROVE  /\ r.frame = StateFrame(h) /\ r.frame \in Nat /\ r.snapshot \in BOOLEAN
         /\ r.pieces \in SUBSET HavePiece
         /\ StateCovers(h, h.m_bitfield, StateFrame(h))
         /\ r.snapshot => r.pieces = h.m_bitfield
         /\ ~r.snapshot /\ StateCovers(h, view, f) => view \cup r.pieces = h.m_bitfield
<1>1. PICK q \in Seq(HavePiece) : q = h.m_queue
  BY DEF StateHistory
<1>2. PICK z \in Nat \ {0} : z = h.m_horizon
  BY DEF StateHistory
<1>3. h.m_bitfield \in SUBSET HavePiece
  BY DEF StateHistory
<1>4. StateFrame(h) = z + Len(q) /\ Len(q) \in Nat
  BY <1>1, <1>2 DEF StateFrame
<1>5. PICK snapshot \in BOOLEAN : snapshot = (f = 0 \/ f < z \/ f > z + Len(q))
  OBVIOUS
<1>6. /\ r.frame = StateFrame(h) /\ r.snapshot = snapshot
      /\ r.pieces = IF snapshot THEN h.m_bitfield ELSE Behind(q, f - z + 1)
  <2>1. r = [frame |-> StateFrame(h), snapshot |-> snapshot,
             pieces |-> IF snapshot THEN h.m_bitfield ELSE {q[k] : k \in f - z + 1 .. Len(q)}]
    BY <1>1, <1>2, <1>4, <1>5 DEF StateQuery
  <2>. QED
    BY <2>1 DEF Behind
<1>12. ~snapshot => ~(f < z)
  BY <1>5, Zenon
<1>7. ~snapshot => Behind(q, f - z + 1) \in SUBSET HavePiece
  <2>. SUFFICES ASSUME ~snapshot, NEW k \in f - z + 1 .. Len(q) PROVE q[k] \in HavePiece
    BY DEF Behind
  <2>1. k \in 1 .. Len(q)
    BY <1>2, <1>4, <1>12
  <2>. QED
    BY <2>1
<1>8. StateCovers(h, h.m_bitfield, StateFrame(h))
  <2>1. Behind(q, Len(q) + 1) = {}
    BY <1>4 DEF Behind
  <2>2. StateFrame(h) \in 1 .. StateFrame(h) /\ StateFrame(h) - z + 1 = Len(q) + 1
    BY <1>2, <1>4
  <2>. QED
    BY <1>1, <1>2, <2>1, <2>2 DEF StateCovers
<1>9. ASSUME ~snapshot, StateCovers(h, view, f) PROVE view \cup Behind(q, f - z + 1) = h.m_bitfield
  <2>1. z <= f
    BY <1>2, <1>9, <1>12
  <2>. QED
    BY <1>1, <1>2, <1>9, <2>1 DEF StateCovers
<1>10. r.pieces \in SUBSET HavePiece
  BY <1>3, <1>6, <1>7
<1>11. r.frame \in Nat
  BY <1>2, <1>4, <1>6
<1>. QED
  BY <1>5, <1>6, <1>8, <1>9, <1>10, <1>11

\* A history that is started has every piece the torrent has, and what is on its
\* way are pieces it has or drops it.
LEMMA NewStateUpToDate ==
  ASSUME StateTypes, AlertsHold, NEW t \in Torrent
  PROVE  /\ NewStateHistory(t) \in StateHistory /\ NewStateHistory(t).m_ih = t
         /\ QueueFits(NewStateHistory(t)) /\ UpToDate(NewStateHistory(t))
<1>1. PICK h : h = NewStateHistory(t)
  OBVIOUS
<1>2. h = [m_ih |-> t, m_bitfield |-> have[t], m_queue |-> <<>>, m_horizon |-> 1]
  BY <1>1 DEF NewStateHistory
<1>3. h \in StateHistory /\ h.m_ih = t /\ h.m_bitfield = have[t] /\ h.m_queue = <<>>
  <2>1. have[t] \in SUBSET HavePiece /\ <<>> \in Seq(HavePiece) /\ 1 \in Nat \ {0}
    BY DEF StateTypes
  <2>. QED
    BY <1>2, <2>1 DEF StateHistory
<1>4. QueueFits(h)
  BY <1>3, PieceStatesAssumption DEF QueueFits
<1>5. ASSUME NEW p \in HavePiece, Awaits(t, p), t \notin checking, ~WillDrop(t) PROVE p \in have[t]
  <2>1. PICK k \in DOMAIN pieceAlerts : pieceAlerts[k].ih = t /\ pieceAlerts[k].piece = p
    BY <1>5 DEF Awaits
  <2>2. ~Drops(pieceAlerts[k].type)
    BY <1>5, <2>1 DEF WillDrop
  <2>3. ~\E j \in DOMAIN pieceAlerts :
            j > k /\ pieceAlerts[j].ih = pieceAlerts[k].ih /\ Drops(pieceAlerts[j].type)
    BY <1>5, <2>1 DEF WillDrop
  <2>4. pieceAlerts[k].piece \in have[pieceAlerts[k].ih]
    BY <1>5, <2>1, <2>2, <2>3 DEF AlertsHold
  <2>. QED
    BY <2>1, <2>4
<1>6. UpToDate(h)
  BY <1>3, <1>5 DEF UpToDate
<1>. QED
  BY <1>1, <1>3, <1>4, <1>6

\* What a client that polled shows is the bitfield of the history, and the others
\* keep what they had of theirs.
LEMMA PollStatesStep ==
  ASSUME PollTypeOK, LifeBehind, StateTypes, AlertsHold, NEW c \in Client, NEW t \in Torrent,
         PollStates(c, t),
         \A i \in DOMAIN m_piece_state_histories : StateGood(m_piece_state_histories[i])
  PROVE  /\ PollTypeOK' /\ LifeBehind' /\ StateTypes' /\ AlertsHold'
         /\ (\A i \in DOMAIN m_piece_state_histories : StateGood(m_piece_state_histories[i]))'
         /\ Settled(t) /\ SameLife(c, t) => bitfield'[c][t] = have[t]
<1>1. PICK cache \in Seq(StateHistory) : cache = m_piece_state_histories
  BY DEF StateTypes
<1>2. IsCache(cache) /\ \A i \in DOMAIN cache : cache[i] \in StateHistory /\ StateGood(cache[i])
  BY <1>1 DEF StateTypes
<1>3. PICK h : h = HistoryOf(cache, t, NewStateHistory(t))
  OBVIOUS
<1>4. /\ h \in StateHistory /\ h.m_ih = t /\ QueueFits(h) /\ UpToDate(h)
      /\ Known(cache, t) => \A d \in Client : StateCopy(d, h)
  <2>1. CASE Known(cache, t)
    <3>1. PICK k \in DOMAIN cache : cache[k].m_ih = t /\ h = cache[k]
      BY <1>3, <2>1, HistoryFound
    <3>. QED
      BY <1>2, <3>1 DEF StateGood
  <2>2. CASE ~Known(cache, t)
    BY <1>3, <2>2, HistoryFound, NewStateUpToDate
  <2>. QED
    BY <2>1, <2>2
<1>5. PICK f \in Nat : f = frame[c][t]
  BY DEF PollTypeOK
<1>6. PICK view \in SUBSET HavePiece : view = bitfield[c][t]
  BY DEF StateTypes
<1>7. PICK r : r = StateQuery(h, f)
  OBVIOUS
<1>8. /\ Answered(cache, c, t, r.frame, r.snapshot)
      /\ m_piece_state_histories' = Used(cache, h)
      /\ bitfield' = [bitfield EXCEPT ![c][t] = IF r.snapshot THEN r.pieces ELSE bitfield[c][t] \cup r.pieces]
      /\ UNCHANGED <<have, checking, pieceAlerts>>
  BY <1>1, <1>3, <1>5, <1>7 DEF PollStates, stateSource
<1>9. /\ r.frame = StateFrame(h) /\ r.frame \in Nat /\ r.snapshot \in BOOLEAN /\ r.pieces \in SUBSET HavePiece
      /\ StateCovers(h, h.m_bitfield, StateFrame(h))
      /\ r.snapshot => r.pieces = h.m_bitfield
      /\ ~r.snapshot /\ StateCovers(h, view, f) => view \cup r.pieces = h.m_bitfield
  BY <1>4, <1>7, QueryCovers
<1>10. /\ PollTypeOK' /\ LifeBehind' /\ frame'[c][t] = r.frame
       /\ lives'[t] = IF Known(cache, t) THEN lives[t] ELSE lives[t] + 1
       /\ life'[c][t] = IF r.snapshot THEN lives'[t] ELSE life[c][t]
       /\ \A u \in Torrent : u # t => lives'[u] = lives[u]
       /\ \A d \in Client, u \in Torrent : d # c \/ u # t =>
            frame'[d][u] = frame[d][u] /\ life'[d][u] = life[d][u]
  <2>1. PollTypeOK' /\ LifeBehind' /\ Polled(cache, c, t, r.frame, r.snapshot)
    BY <1>8, <1>9, AnsweredStep
  <2>. QED
    BY <2>1 DEF Polled
<1>11. /\ bitfield' \in [Client -> [Torrent -> SUBSET HavePiece]]
       /\ bitfield'[c][t] = IF r.snapshot THEN r.pieces ELSE view \cup r.pieces
       /\ \A d \in Client, u \in Torrent : d # c \/ u # t => bitfield'[d][u] = bitfield[d][u]
  BY <1>6, <1>8, <1>9 DEF StateTypes
<1>12. \A d \in Client, u \in Torrent :
         lives[u] \in Nat /\ life[d][u] \in Nat /\ life[d][u] <= lives[u]
  BY DEF PollTypeOK, LifeBehind
<1>13. SameLife(c, t) => bitfield'[c][t] = h.m_bitfield
  <2>. HAVE SameLife(c, t)
  <2>1. CASE r.snapshot
    BY <1>9, <1>11, <2>1
  <2>2. CASE ~r.snapshot
    <3>1. life[c][t] = lives'[t]
      BY <1>10, <2>2 DEF SameLife
    <3>2. Known(cache, t) /\ life[c][t] = lives[t]
      BY <1>10, <1>12, <3>1
    <3>3. StateCovers(h, view, f)
      BY <1>4, <1>5, <1>6, <3>2 DEF StateCopy
    <3>. QED
      BY <1>9, <1>11, <2>2, <3>3
  <2>. QED
    BY <1>9, <2>1, <2>2
<1>14. /\ \A d \in Client, g \in StateHistory :
             StateCopy(d, g)' <=> (life'[d][g.m_ih] = lives'[g.m_ih] =>
                                     StateCovers(g, bitfield'[d][g.m_ih], frame'[d][g.m_ih]))
       /\ \A g : UpToDate(g)' <=> UpToDate(g)
  BY <1>8 DEF StateCopy, StateCovers, StateFrame, Behind, UpToDate, WillDrop, Awaits, Drops
<1>15. \A d \in Client : StateCopy(d, h)'
  <2>. SUFFICES ASSUME NEW d \in Client, life'[d][t] = lives'[t]
                PROVE  StateCovers(h, bitfield'[d][t], frame'[d][t])
    BY <1>4, <1>14
  <2>1. CASE d = c
    BY <1>9, <1>10, <1>13, <2>1 DEF SameLife
  <2>2. CASE d # c
    <3>1. life[d][t] = lives'[t]
      BY <1>10, <2>2
    <3>2. Known(cache, t) /\ life[d][t] = lives[t]
      BY <1>10, <1>12, <3>1
    <3>3. StateCovers(h, bitfield[d][t], frame[d][t])
      BY <1>4, <3>2 DEF StateCopy
    <3>. QED
      BY <1>10, <1>11, <2>2, <3>3
  <2>. QED
    BY <2>1, <2>2
<1>16. StateGood(h)'
  BY <1>4, <1>14, <1>15 DEF StateGood, QueueFits
<1>17. ASSUME NEW g \in StateHistory, StateGood(g), g.m_ih # t PROVE StateGood(g)'
  <2>1. g.m_ih \in Torrent
    BY DEF StateHistory
  <2>2. ASSUME NEW d \in Client PROVE StateCopy(d, g)'
    <3>1. /\ frame'[d][g.m_ih] = frame[d][g.m_ih] /\ life'[d][g.m_ih] = life[d][g.m_ih]
          /\ bitfield'[d][g.m_ih] = bitfield[d][g.m_ih] /\ lives'[g.m_ih] = lives[g.m_ih]
      BY <1>10, <1>11, <1>17, <2>1
    <3>2. StateCopy(d, g)
      BY <1>17 DEF StateGood
    <3>. QED
      BY <1>14, <3>1, <3>2 DEF StateCopy
  <2>. QED
    BY <1>14, <1>17, <2>2 DEF StateGood, QueueFits
<1>. DEFINE Fresh(n) == /\ n \in Seq(StateHistory) /\ IsCache(n)
                        /\ \A i \in DOMAIN n : n[i] = h \/ \E j \in DOMAIN cache : n[i] = cache[j] /\ cache[j].m_ih # h.m_ih
<1>18. Fresh(Used(cache, h))
  BY <1>2, <1>4, UsedFirst
<1>. HIDE DEF Fresh
<1>19. PICK n : n = m_piece_state_histories' /\ Fresh(n)
  BY <1>8, <1>18
<1>20. ASSUME NEW i \in DOMAIN n PROVE StateGood(n[i])'
  <2>1. CASE n[i] = h
    BY <1>16, <2>1
  <2>2. CASE \E j \in DOMAIN cache : n[i] = cache[j] /\ cache[j].m_ih # h.m_ih
    <3>1. PICK j \in DOMAIN cache : n[i] = cache[j] /\ cache[j].m_ih # h.m_ih
      BY <2>2
    <3>2. PICK g \in StateHistory : g = cache[j] /\ StateGood(g) /\ g.m_ih # t
      BY <1>2, <1>4, <3>1
    <3>3. StateGood(g)'
      BY <1>17, <3>2
    <3>. QED
      BY <3>1, <3>2, <3>3
  <2>. QED
    BY <1>19, <2>1, <2>2 DEF Fresh
<1>21. StateTypes'
  BY <1>8, <1>11, <1>19 DEF StateTypes, Fresh
<1>22. AlertsHold'
  BY <1>8 DEF AlertsHold, Drops
<1>23. ASSUME Settled(t), SameLife(c, t) PROVE bitfield'[c][t] = have[t]
  <2>1. t \notin checking /\ ~WillDrop(t) /\ \A p : ~Awaits(t, p)
    BY <1>23 DEF Settled, WillDrop, Awaits
  <2>2. \A p \in HavePiece : p \in have[t] <=> p \in h.m_bitfield
    BY <1>4, <2>1 DEF UpToDate
  <2>3. have[t] \subseteq HavePiece /\ h.m_bitfield \subseteq HavePiece
    BY <1>4 DEF StateTypes, StateHistory
  <2>. QED
    BY <1>13, <1>23, <2>2, <2>3
<1>. QED
  BY <1>10, <1>19, <1>20, <1>21, <1>22, <1>23

-----------------------------------------------------------------------------
(* What holds of every page that is open.                                  *)
\* Nobody has polled at the start.
LEMMA PollInitTypes ==
  ASSUME PollInit
  PROVE  PollTypeOK /\ LifeBehind
<1>1. PollTypeOK
  BY DEF PollInit, PollTypeOK
<1>2. LifeBehind
  BY DEF PollInit, LifeBehind
<1>. QED
  BY <1>1, <1>2

\* At the start nobody has a piece, and there is no history.
LEMMA StateInitInv ==
  ASSUME Init
  PROVE  StateInv
<1>1. StateInit /\ tab \in Tab
  BY DEF Init
<1>2. PollTypeOK /\ LifeBehind
  BY <1>1, PollInitTypes DEF StateInit
<1>3. IsCache(<<>>)
  BY HistoryCacheAssumption DEF IsCache
<1>4. StateTypes
  BY <1>1, <1>3 DEF StateInit, StateTypes
<1>5. AlertsHold /\ StatesGood
  BY <1>1 DEF StateInit, AlertsHold, StatesGood
<1>6. m_piece_state_histories = <<>>
  BY <1>1 DEF StateInit
<1>. QED
  BY <1>2, <1>4, <1>5, <1>6 DEF StateInv

\* Every step keeps what the page of piece states rests on.
LEMMA StateNextInv ==
  ASSUME StateInv, [Next]_tabsVars
  PROVE  StateInv'
<1>1. ASSUME UNCHANGED <<tab, stateOwn>>, tab = "states" => UNCHANGED pollVars PROVE StateInv'
  <2>1. UNCHANGED <<tab, have, checking, pieceAlerts, m_piece_state_histories, bitfield>>
    BY <1>1 DEF stateOwn, stateSource
  <2>2. StateTypes' /\ AlertsHold'
    BY <2>1 DEF StateInv, StateTypes, AlertsHold, IsCache, Drops
  <2>3. CASE tab = "states"
    <3>1. UNCHANGED <<polls, lives, frame, life>>
      BY <1>1, <2>3 DEF pollVars
    <3>2. PollTypeOK' /\ LifeBehind'
      BY <2>3, <3>1 DEF StateInv, PollTypeOK, LifeBehind
    <3>3. StatesGood'
      BY <2>1, <3>1 DEF StateInv, StatesGood, StateGood, QueueFits, UpToDate, WillDrop, Awaits, Drops,
                        StateCopy, StateCovers, StateFrame, Behind
    <3>. QED
      BY <2>1, <2>2, <2>3, <3>2, <3>3 DEF StateInv
  <2>4. CASE tab # "states"
    <3>1. m_piece_state_histories' = <<>>
      BY <2>1, <2>4 DEF StateInv
    <3>. QED
      BY <2>1, <2>2, <2>4, <3>1 DEF StateInv, StatesGood
  <2>. QED
    BY <2>3, <2>4
<1>2. ASSUME tab = "states", tab' = tab, StateNext PROVE StateInv'
  <2>1. StateTypes /\ AlertsHold /\ StatesGood /\ PollTypeOK /\ LifeBehind
    BY <1>2 DEF StateInv
  <2>2. ASSUME NEW t \in Torrent, StateEvent(t) PROVE StateInv'
    <3>1. /\ StateTypes' /\ AlertsHold'
          /\ \A h \in StateHistory : UpToDate(h) => UpToDate(h)'
          /\ UNCHANGED <<m_piece_state_histories, bitfield, pollVars>>
      BY <2>1, <2>2, StateEventStep
    <3>2. UNCHANGED <<m_piece_state_histories, bitfield, polls, lives, frame, life>>
      BY <3>1 DEF pollVars
    <3>3. PollTypeOK' /\ LifeBehind'
      BY <2>1, <3>2 DEF PollTypeOK, LifeBehind
    <3>4. ASSUME NEW h \in StateHistory, StateGood(h) PROVE StateGood(h)'
      <4>1. UpToDate(h)'
        BY <3>1, <3>4 DEF StateGood
      <4>2. \A c \in Client : StateCopy(c, h)'
        BY <3>2, <3>4 DEF StateGood, StateCopy, StateCovers, StateFrame, Behind
      <4>. QED
        BY <3>4, <4>1, <4>2 DEF StateGood, QueueFits
    <3>5. \A i \in DOMAIN m_piece_state_histories : m_piece_state_histories[i] \in StateHistory
      BY <2>1 DEF StateTypes
    <3>6. PICK r : r = m_piece_state_histories
      OBVIOUS
    <3>7. ASSUME NEW i \in DOMAIN r PROVE StateGood(r[i])'
      <4>1. PICK h \in StateHistory : h = r[i] /\ StateGood(h)
        BY <2>1, <3>5, <3>6 DEF StatesGood
      <4>2. StateGood(h)'
        BY <3>4, <4>1
      <4>. QED
        BY <4>1, <4>2
    <3>8. r = m_piece_state_histories'
      BY <3>2, <3>6
    <3>9. StatesGood'
      BY <3>7, <3>8 DEF StatesGood
    <3>. QED
      BY <1>2, <3>1, <3>3, <3>9 DEF StateInv
  <2>3. ASSUME HandleAlert PROVE StateInv'
    <3>1. StateTypes' /\ AlertsHold' /\ StatesGood'
      BY <2>1, <2>3, HandleAlertStep DEF StatesGood
    <3>2. UNCHANGED <<polls, lives, frame, life>>
      BY <2>3 DEF HandleAlert, pollVars
    <3>3. PollTypeOK' /\ LifeBehind'
      BY <2>1, <3>2 DEF PollTypeOK, LifeBehind
    <3>. QED
      BY <1>2, <3>1, <3>3 DEF StateInv
  <2>4. ASSUME NEW c \in Client, NEW t \in Torrent, PollStates(c, t) PROVE StateInv'
    <3>1. PollTypeOK' /\ LifeBehind' /\ StateTypes' /\ AlertsHold' /\ StatesGood'
      BY <2>1, <2>4, PollStatesStep DEF StatesGood
    <3>. QED
      BY <1>2, <3>1 DEF StateInv
  <2>5. \/ \E t \in Torrent : StateEvent(t)
        \/ HandleAlert
        \/ \E c \in Client, t \in Torrent : PollStates(c, t)
    BY <1>2, HistoryCacheAssumption DEF StateNext, StateEvent
  <2>. QED
    BY <2>2, <2>3, <2>4, <2>5
<1>3. CASE UNCHANGED tabsVars
  BY <1>1, <1>3 DEF tabsVars
<1>4. CASE Next
  <2>1. CASE tab = "states" /\ StateNext
    BY <1>2, <1>4, <2>1 DEF Next
  <2>2. CASE tab # "states" /\ UNCHANGED stateOwn
    BY <1>1, <1>4, <2>2 DEF Next
  <2>. QED
    BY <1>4, <2>1, <2>2 DEF Next
<1>. QED
  BY <1>3, <1>4

\* In every behaviour the histories of the page of piece states are true to the
\* torrents but for the alerts on their way, and cover what the clients have.
THEOREM StateInvariant == Spec => []StateInv
<1>1. Init => StateInv
  BY StateInitInv
<1>2. StateInv /\ [Next]_tabsVars => StateInv'
  BY StateNextInv
<1>. QED
  BY <1>1, <1>2, PTL DEF Spec

\* A client that polls after the alerts of a torrent were handled shows exactly
\* the pieces the torrent has, if its last snapshot is of the history that answers.
THEOREM StatesAreShown == Spec => StatesShown
<1>. DEFINE Shown == \A c \in Client, t \in Torrent :
                       PollStates(c, t) /\ Settled(t) /\ SameLife(c, t) => bitfield'[c][t] = have[t]
<1>1. ASSUME StateInv, [Next]_tabsVars PROVE [Shown]_stateVars
  <2>1. CASE tab = "states"
    <3>1. StateTypes /\ AlertsHold /\ StatesGood /\ PollTypeOK /\ LifeBehind
      BY <1>1, <2>1 DEF StateInv
    <3>2. Shown
      BY <3>1, PollStatesStep DEF StatesGood
    <3>. QED
      BY <3>2
  <2>2. CASE tab # "states"
    <3>1. m_piece_state_histories = <<>> /\ StateTypes
      BY <1>1, <2>2 DEF StateInv
    <3>2. UNCHANGED m_piece_state_histories
      BY <1>1, <2>2 DEF Next, tabsVars, stateOwn
    <3>3. ASSUME NEW c \in Client, NEW t \in Torrent, PollStates(c, t) PROVE FALSE
      <4>1. PICK h : m_piece_state_histories' = Used(m_piece_state_histories, h)
        BY <3>3 DEF PollStates
      <4>. QED
        BY <3>1, <3>2, <4>1, UsedHasOne
    <3>. QED
      BY <3>3
  <2>. QED
    BY <2>1, <2>2
<1>. QED
  BY <1>1, StateInvariant, PTL DEF Spec, StatesShown

-----------------------------------------------------------------------------
(* FileUpdates                                                             *)

FileEntry == [value: {0, 1}, frame: Nat \ {0}]
FileHistory ==
  [m_ih: Torrent, m_frame: Nat \ {0}, m_open_files: SUBSET File, m_files: [File -> [Dynamic -> FileEntry]]]

FileFields == [File -> [Dynamic -> {0, 1}]]
FileFetch == [ih: Torrent, files: FileFields, open: SUBSET File]
Cell == UNION {[S -> File \cup {0, 1}] : S \in SUBSET FileField}

\* The mode of a file that is closed is 0.
ClosedIsZero(fields, now) == \A i \in File : i \notin now => fields[i]["open_mode"] = 0

FileTypes ==
  /\ files \in [Torrent -> FileFields] /\ open \in [Torrent -> SUBSET File] /\ metadata \subseteq Torrent
  /\ m_file_histories \in Seq(FileHistory) /\ IsCache(m_file_histories)
  /\ fileMask \in [Client -> FileMasks]
  /\ fetchedFiles \in [Client -> FileFetch \cup {NotFetched}]
  /\ cells \in [Client -> [Torrent -> [File -> Cell]]]
  /\ \A c \in Client, t \in Torrent, i \in File : DOMAIN cells[c][t][i] \subseteq fileMask[c]

FilesClosed ==
  /\ \A t \in Torrent : ClosedIsZero(files[t], open[t])
  /\ \A c \in Client : fetchedFiles[c] # NotFetched => ClosedIsZero(fetchedFiles[c].files, fetchedFiles[c].open)

\* A client with frame f has the field of the file, or the next answer has it.
HasField(row, entry, x, f) == entry.frame > f \/ (x \in DOMAIN row /\ row[x] = entry.value)

FileCopy(c, h) ==
  life[c][h.m_ih] = lives[h.m_ih] =>
    /\ frame[c][h.m_ih] \in 1 .. h.m_frame
    /\ \A i \in File : \A x \in fileMask[c] \ {"name"} :
         HasField(cells[c][h.m_ih][i], h.m_files[i][x], x, frame[c][h.m_ih])

FilesGood == \A k \in DOMAIN m_file_histories : \A c \in Client : FileCopy(c, m_file_histories[k])

FileInv ==
  /\ FileTypes /\ FilesClosed /\ FilesGood
  /\ IF tab = "files" THEN PollTypeOK /\ LifeBehind ELSE m_file_histories = <<>>

\* An update takes the next frame, stamps what it changes with it, and has the
\* fields that were fetched.
LEMMA FileUpdated ==
  ASSUME NEW g \in FileHistory, NEW now \in FileFetch, NEW mask \in SUBSET FileField,
         ClosedIsZero(now.files, now.open), NEW h, h = FileUpdate(g, now, mask)
  PROVE  /\ h \in FileHistory /\ h.m_ih = g.m_ih /\ h.m_frame = g.m_frame + 1
         /\ \A i \in File, x \in Dynamic :
              /\ h.m_files[i][x] = g.m_files[i][x] \/ h.m_files[i][x].frame = h.m_frame
              /\ x \in mask => h.m_files[i][x].value = now.files[i][x]
<1>1. PICK f \in Nat \ {0} : f = g.m_frame + 1
  BY DEF FileHistory
<1>2. PICK was \in [File -> [Dynamic -> FileEntry]] : was = g.m_files
  BY DEF FileHistory
<1>3. PICK fields \in FileFields : fields = now.files
  BY DEF FileFetch
<1>. DEFINE Field(i, x) == CASE x \notin mask -> was[i][x]
                             [] x = "open_mode" /\ x \in mask -> OpenMode(g, i, now, f)
                             [] OTHER -> Changed(was[i][x], fields[i][x], f)
<1>4. ASSUME NEW i \in File, NEW x \in Dynamic
      PROVE  /\ Field(i, x) \in FileEntry
             /\ Field(i, x) = was[i][x] \/ Field(i, x).frame = f
             /\ x \in mask => Field(i, x).value = fields[i][x]
  <2>1. was[i][x] \in FileEntry /\ fields[i][x] \in {0, 1}
    BY DEF FileFields
  <2>2. CASE x \notin mask
    BY <2>1, <2>2
  <2>3. CASE x \in mask /\ x = "open_mode"
    <3>1. Field(i, x) = OpenMode(g, i, now, f)
      BY <2>3
    <3>2. PICK mode \in {0, 1} : mode = IF i \in now.open THEN fields[i]["open_mode"] ELSE 0
      BY <2>1, <2>3
    <3>3. mode = fields[i][x]
      BY <1>3, <2>3, <3>2 DEF ClosedIsZero
    <3>4. \/ OpenMode(g, i, now, f) = was[i][x] /\ was[i][x].value = mode
          \/ OpenMode(g, i, now, f) = [value |-> mode, frame |-> f]
      BY <1>2, <1>3, <2>3, <3>2 DEF OpenMode
    <3>5. [value |-> mode, frame |-> f] \in FileEntry
      BY DEF FileEntry
    <3>. QED
      BY <2>1, <3>1, <3>3, <3>4, <3>5
  <2>4. CASE x \in mask /\ x # "open_mode"
    <3>1. Field(i, x) = Changed(was[i][x], fields[i][x], f)
      BY <2>4
    <3>2. \/ Field(i, x) = was[i][x] /\ was[i][x].value = fields[i][x]
          \/ Field(i, x) = [value |-> fields[i][x], frame |-> f]
      BY <3>1 DEF Changed
    <3>3. [value |-> fields[i][x], frame |-> f] \in FileEntry
      BY <2>1 DEF FileEntry
    <3>. QED
      BY <2>1, <3>2, <3>3
  <2>. QED
    BY <2>2, <2>3, <2>4
<1>. HIDE DEF Field
<1>5. PICK is : is = [i \in File |-> [x \in Dynamic |-> Field(i, x)]]
  OBVIOUS
<1>6. /\ is \in [File -> [Dynamic -> FileEntry]]
      /\ \A i \in File, x \in Dynamic : is[i][x] = Field(i, x)
  BY <1>4, <1>5
<1>7. PICK opened \in SUBSET File : opened = IF "open_mode" \in mask THEN now.open ELSE g.m_open_files
  BY DEF FileFetch, FileHistory
<1>8. h = [g EXCEPT !.m_frame = f, !.m_open_files = opened, !.m_files = is]
  BY <1>1, <1>2, <1>3, <1>5, <1>7 DEF FileUpdate, Field
<1>9. h = [m_ih |-> g.m_ih, m_frame |-> f, m_open_files |-> opened, m_files |-> is]
  BY <1>8 DEF FileHistory
<1>10. h \in FileHistory /\ h.m_ih = g.m_ih /\ h.m_frame = f /\ h.m_files = is
  <2>1. g.m_ih \in Torrent
    BY DEF FileHistory
  <2>. QED
    BY <1>6, <1>9, <2>1 DEF FileHistory
<1>. QED
  BY <1>1, <1>2, <1>3, <1>4, <1>6, <1>10

\* A history that starts has every field at frame 1, before the first update.
LEMMA NewFileTypes ==
  ASSUME NEW t \in Torrent
  PROVE  NewFileHistory(t) \in FileHistory /\ NewFileHistory(t).m_ih = t
<1>1. [value |-> 0, frame |-> 1] \in FileEntry
  BY DEF FileEntry
<1>2. [i \in File |-> [x \in Dynamic |-> [value |-> 0, frame |-> 1]]] \in [File -> [Dynamic -> FileEntry]]
  BY <1>1
<1>. QED
  BY <1>2 DEF NewFileHistory, FileHistory

\* A client that is answered has each field it asks for as it was fetched, and the
\* others lack no more than they did.
LEMMA AnswerFilesStep ==
  ASSUME PollTypeOK, LifeBehind, FileTypes, FilesClosed, FilesGood, NEW c \in Client, NEW t \in Torrent,
         AnswerFiles(c, t)
  PROVE  /\ PollTypeOK' /\ LifeBehind' /\ FileTypes' /\ FilesClosed' /\ FilesGood'
         /\ SameLife(c, t) =>
              \A i \in File : \A x \in fileMask[c] \ {"name"} :
                /\ x \in DOMAIN cells'[c][t][i]
                /\ cells'[c][t][i][x] = fetchedFiles[c].files[i][x]
<1>1. PICK cache \in Seq(FileHistory) : cache = m_file_histories
  BY DEF FileTypes
<1>2. IsCache(cache) /\ \A k \in DOMAIN cache : cache[k] \in FileHistory /\ \A d \in Client : FileCopy(d, cache[k])
  BY <1>1 DEF FileTypes, FilesGood
<1>3. PICK g : g = HistoryOf(cache, t, NewFileHistory(t))
  OBVIOUS
<1>4. g \in FileHistory /\ g.m_ih = t /\ (Known(cache, t) => \A d \in Client : FileCopy(d, g))
  <2>1. CASE Known(cache, t)
    <3>1. PICK k \in DOMAIN cache : cache[k].m_ih = t /\ g = cache[k]
      BY <1>3, <2>1, HistoryFound
    <3>. QED
      BY <1>2, <3>1
  <2>2. CASE ~Known(cache, t)
    BY <1>3, <2>2, HistoryFound, NewFileTypes
  <2>. QED
    BY <2>1, <2>2
<1>5. PICK now \in FileFetch : now = fetchedFiles[c] /\ ClosedIsZero(now.files, now.open)
  <2>1. fetchedFiles[c] # NotFetched /\ fetchedFiles[c] \in FileFetch
    BY DEF AnswerFiles, FileTypes
  <2>. QED
    BY <2>1 DEF FilesClosed
<1>6. PICK mask \in SUBSET FileField : mask = fileMask[c]
  BY FileUpdatesAssumption DEF FileTypes
<1>7. PICK h : h = FileUpdate(g, now, mask)
  OBVIOUS
<1>8. /\ h \in FileHistory /\ h.m_ih = t /\ h.m_frame = g.m_frame + 1
      /\ \A i \in File, x \in Dynamic :
           /\ h.m_files[i][x] = g.m_files[i][x] \/ h.m_files[i][x].frame = h.m_frame
           /\ x \in mask => h.m_files[i][x].value = now.files[i][x]
  BY <1>4, <1>5, <1>7, FileUpdated
<1>9. g.m_frame \in Nat \ {0} /\ h.m_frame \in Nat \ {0}
  BY <1>4, <1>8 DEF FileHistory
<1>10. \A i \in File, x \in Dynamic : h.m_files[i][x].frame \in Nat \ {0} /\ h.m_files[i][x].value \in {0, 1}
  BY <1>8 DEF FileHistory, FileEntry
<1>11. PICK since \in Nat : since = frame[c][t]
  BY DEF PollTypeOK
<1>12. PICK sent : sent = [i \in File |-> FileQuery(h, i, since, mask)]
  OBVIOUS
<1>13. PICK row \in [File -> Cell] : row = cells[c][t]
  BY DEF FileTypes
<1>. DEFINE Value(i, x) == IF x = "name" THEN i ELSE h.m_files[i][x].value
<1>14. PICK new : new = [i \in File |->
              [x \in DOMAIN row[i] \cup sent[i] |-> IF x \in sent[i] THEN Value(i, x) ELSE row[i][x]]]
  OBVIOUS
<1>15. /\ Answered(cache, c, t, h.m_frame, since = 0)
       /\ m_file_histories' = Used(cache, h)
       /\ cells' = [cells EXCEPT ![c][t] = new]
       /\ fetchedFiles' = [fetchedFiles EXCEPT ![c] = NotFetched]
       /\ UNCHANGED <<files, open, metadata, fileMask>>
  BY <1>1, <1>3, <1>5, <1>6, <1>7, <1>11, <1>12, <1>13, <1>14 DEF AnswerFiles, fileSource
<1>16. PollTypeOK' /\ LifeBehind' /\ Polled(cache, c, t, h.m_frame, since = 0)
  BY <1>9, <1>15, AnsweredStep
<1>17. /\ frame'[c][t] = h.m_frame
       /\ lives'[t] = IF Known(cache, t) THEN lives[t] ELSE lives[t] + 1
       /\ since # 0 => life'[c][t] = life[c][t]
       /\ \A u \in Torrent : u # t => lives'[u] = lives[u]
       /\ \A d \in Client, u \in Torrent : d # c \/ u # t =>
            frame'[d][u] = frame[d][u] /\ life'[d][u] = life[d][u]
  BY <1>16 DEF Polled
<1>18. \A d \in Client, u \in Torrent :
         lives[u] \in Nat /\ life[d][u] \in Nat /\ life[d][u] <= lives[u]
  BY DEF PollTypeOK, LifeBehind
<1>19. \A i \in File : sent[i] \subseteq mask /\
         \A x \in mask \ {"name"} : x \in sent[i] <=> h.m_files[i][x].frame > since
  BY <1>12 DEF FileQuery
<1>20. ASSUME NEW i \in File
       PROVE  /\ new[i] \in Cell /\ DOMAIN new[i] = DOMAIN row[i] \cup sent[i]
              /\ \A x \in sent[i] \ {"name"} : new[i][x] = h.m_files[i][x].value
              /\ \A x \in DOMAIN row[i] \ sent[i] : new[i][x] = row[i][x]
  <2>1. PICK S \in SUBSET FileField : row[i] \in [S -> File \cup {0, 1}]
    BY DEF Cell
  <2>2. PICK D \in SUBSET FileField : D = DOMAIN row[i] \cup sent[i]
    BY <1>19, <2>1
  <2>3. new[i] = [x \in D |-> IF x \in sent[i] THEN Value(i, x) ELSE row[i][x]]
    BY <1>14, <2>2
  <2>4. \A x \in FileField \ {"name"} : Value(i, x) = h.m_files[i][x].value /\ Value(i, x) \in {0, 1}
    BY <1>10 DEF Dynamic
  <2>5. ASSUME NEW x \in D PROVE (IF x \in sent[i] THEN Value(i, x) ELSE row[i][x]) \in File \cup {0, 1}
    BY <2>1, <2>2, <2>4
  <2>6. new[i] \in [D -> File \cup {0, 1}]
    BY <2>3, <2>5
  <2>7. new[i] \in Cell
    BY <2>6 DEF Cell
  <2>8. ASSUME NEW x \in sent[i] \ {"name"} PROVE new[i][x] = h.m_files[i][x].value
    <3>1. x \in D /\ x \in FileField \ {"name"}
      BY <1>19, <2>2
    <3>. QED
      BY <2>3, <2>4, <3>1
  <2>9. ASSUME NEW x \in DOMAIN row[i] \ sent[i] PROVE new[i][x] = row[i][x]
    BY <2>2, <2>3
  <2>. QED
    BY <2>2, <2>6, <2>7, <2>8, <2>9
<1>. HIDE DEF Value
<1>21. /\ cells' \in [Client -> [Torrent -> [File -> Cell]]] /\ cells'[c][t] = new
       /\ \A d \in Client, u \in Torrent : d # c \/ u # t => cells'[d][u] = cells[d][u]
  <2>1. new \in [File -> Cell]
    BY <1>14, <1>20
  <2>. QED
    BY <1>15, <2>1 DEF FileTypes
<1>22. \A d \in Client, u \in Torrent, i \in File : DOMAIN cells'[d][u][i] \subseteq fileMask'[d]
  <2>1. \A i \in File : DOMAIN new[i] \subseteq mask
    <3>1. \A i \in File : DOMAIN row[i] \subseteq mask
      BY <1>6, <1>13 DEF FileTypes
    <3>. QED
      BY <1>19, <1>20, <3>1
  <2>2. fileMask' = fileMask
    BY <1>15
  <2>. SUFFICES ASSUME NEW d \in Client, NEW u \in Torrent, NEW i \in File
                PROVE  DOMAIN cells'[d][u][i] \subseteq fileMask[d]
    BY <2>2
  <2>3. CASE d = c /\ u = t
    BY <1>6, <1>21, <2>1, <2>3
  <2>4. CASE d # c \/ u # t
    BY <1>21, <2>4 DEF FileTypes
  <2>. QED
    BY <2>3, <2>4
<1>23. SameLife(c, t) =>
         \A i \in File : \A x \in mask \ {"name"} : x \in DOMAIN new[i] /\ new[i][x] = h.m_files[i][x].value
  <2>. SUFFICES ASSUME SameLife(c, t), NEW i \in File, NEW x \in mask \ {"name"}
                PROVE  x \in DOMAIN new[i] /\ new[i][x] = h.m_files[i][x].value
    OBVIOUS
  <2>1. x \in Dynamic
    BY DEF Dynamic
  <2>2. CASE h.m_files[i][x].frame > since
    BY <1>19, <1>20, <2>2
  <2>3. CASE ~(h.m_files[i][x].frame > since)
    <3>1. since # 0
      BY <1>10, <2>1, <2>3
    <3>2. Known(cache, t) /\ life[c][t] = lives[t]
      BY <1>17, <1>18, <3>1 DEF SameLife
    <3>3. since \in 1 .. g.m_frame /\ HasField(row[i], g.m_files[i][x], x, since)
      BY <1>4, <1>6, <1>11, <1>13, <3>2 DEF FileCopy
    <3>4. h.m_files[i][x] = g.m_files[i][x]
      <4>1. ~(h.m_files[i][x].frame = h.m_frame)
        BY <1>8, <1>9, <1>10, <2>1, <2>3, <3>3
      <4>. QED
        BY <1>8, <2>1, <4>1
    <3>5. x \in DOMAIN row[i] /\ row[i][x] = h.m_files[i][x].value
      BY <2>3, <3>3, <3>4 DEF HasField
    <3>6. x \notin sent[i]
      BY <1>19, <2>3
    <3>. QED
      BY <1>20, <3>5, <3>6
  <2>. QED
    BY <2>2, <2>3
<1>24. \A d \in Client : FileCopy(d, h)'
  <2>. SUFFICES ASSUME NEW d \in Client, life'[d][t] = lives'[t]
                PROVE  /\ frame'[d][t] \in 1 .. h.m_frame
                       /\ \A i \in File : \A x \in fileMask[d] \ {"name"} :
                            HasField(cells'[d][t][i], h.m_files[i][x], x, frame'[d][t])
    BY <1>8, <1>15 DEF FileCopy, HasField
  <2>1. CASE d = c
    <3>1. frame'[d][t] \in 1 .. h.m_frame
      BY <1>9, <1>17, <2>1
    <3>2. ASSUME NEW i \in File, NEW x \in mask \ {"name"}
          PROVE  HasField(new[i], h.m_files[i][x], x, h.m_frame)
      BY <1>23, <2>1 DEF HasField, SameLife
    <3>. QED
      BY <1>6, <1>17, <1>21, <2>1, <3>1, <3>2
  <2>2. CASE d # c
    <3>1. Known(cache, t) /\ life[d][t] = lives[t]
      BY <1>17, <1>18, <2>2
    <3>2. /\ frame[d][t] \in 1 .. g.m_frame
          /\ \A i \in File : \A x \in fileMask[d] \ {"name"} :
               HasField(cells[d][t][i], g.m_files[i][x], x, frame[d][t])
      BY <1>4, <3>1 DEF FileCopy
    <3>3. frame[d][t] \in 1 .. h.m_frame /\ h.m_frame > frame[d][t]
      BY <1>8, <1>9, <3>2
    <3>4. ASSUME NEW i \in File, NEW x \in fileMask[d] \ {"name"}
          PROVE  HasField(cells[d][t][i], h.m_files[i][x], x, frame[d][t])
      <4>1. x \in Dynamic
        BY FileUpdatesAssumption DEF Dynamic, FileTypes
      <4>2. CASE h.m_files[i][x] = g.m_files[i][x]
        BY <3>2, <4>2
      <4>3. CASE h.m_files[i][x].frame = h.m_frame
        BY <3>3, <4>3 DEF HasField
      <4>. QED
        BY <1>8, <4>1, <4>2, <4>3
    <3>. QED
      BY <1>17, <1>21, <2>2, <3>3, <3>4
  <2>. QED
    BY <2>1, <2>2
<1>25. ASSUME NEW e \in FileHistory, NEW d \in Client, FileCopy(d, e), e.m_ih # t PROVE FileCopy(d, e)'
  <2>1. e.m_ih \in Torrent
    BY DEF FileHistory
  <2>2. /\ frame'[d][e.m_ih] = frame[d][e.m_ih] /\ life'[d][e.m_ih] = life[d][e.m_ih]
        /\ cells'[d][e.m_ih] = cells[d][e.m_ih] /\ lives'[e.m_ih] = lives[e.m_ih] /\ fileMask' = fileMask
    BY <1>15, <1>17, <1>21, <1>25, <2>1
  <2>. QED
    BY <1>25, <2>2 DEF FileCopy, HasField
<1>. DEFINE Fresh(n) == /\ n \in Seq(FileHistory) /\ IsCache(n)
                        /\ \A k \in DOMAIN n : n[k] = h \/ \E j \in DOMAIN cache : n[k] = cache[j] /\ cache[j].m_ih # h.m_ih
<1>26. Fresh(Used(cache, h))
  <2>1. IsCache(cache) /\ h \in FileHistory /\ h.m_ih \in Torrent
    BY <1>2, <1>8
  <2>. QED
    BY <2>1, UsedFirst
<1>. HIDE DEF Fresh
<1>27. PICK n : n = m_file_histories' /\ Fresh(n)
  BY <1>15, <1>26
<1>28. ASSUME NEW k \in DOMAIN n, NEW d \in Client PROVE FileCopy(d, n[k])'
  <2>1. CASE n[k] = h
    BY <1>24, <2>1
  <2>2. CASE \E j \in DOMAIN cache : n[k] = cache[j] /\ cache[j].m_ih # h.m_ih
    <3>1. PICK e \in FileHistory : e = n[k] /\ FileCopy(d, e) /\ e.m_ih # t
      BY <1>2, <1>8, <2>2
    <3>2. FileCopy(d, e)'
      BY <1>25, <3>1
    <3>. QED
      BY <3>1, <3>2
  <2>. QED
    BY <1>27, <2>1, <2>2 DEF Fresh
<1>29. FilesGood'
  BY <1>27, <1>28 DEF FilesGood
<1>30. fetchedFiles' \in [Client -> FileFetch \cup {NotFetched}] /\ \A d \in Client :
         fetchedFiles'[d] # NotFetched => fetchedFiles'[d] = fetchedFiles[d]
  BY <1>15 DEF FileTypes
<1>31. FileTypes'
  BY <1>15, <1>21, <1>22, <1>27, <1>30 DEF FileTypes, Fresh
<1>32. FilesClosed'
  BY <1>15, <1>30 DEF FilesClosed, ClosedIsZero
<1>33. ASSUME SameLife(c, t), NEW i \in File, NEW x \in fileMask[c] \ {"name"}
       PROVE  x \in DOMAIN cells'[c][t][i] /\ cells'[c][t][i][x] = fetchedFiles[c].files[i][x]
  <2>1. x \in Dynamic /\ x \in mask \ {"name"}
    BY <1>6 DEF Dynamic
  <2>2. x \in DOMAIN new[i] /\ new[i][x] = now.files[i][x]
    BY <1>8, <1>23, <1>33, <2>1
  <2>. QED
    BY <1>5, <1>21, <2>2
<1>. QED
  BY <1>16, <1>29, <1>31, <1>32, <1>33

\* At the start every file is closed, and there is no history.
LEMMA FileInitInv ==
  ASSUME Init
  PROVE  FileInv
<1>1. FileInit /\ tab \in Tab
  BY DEF Init
<1>2. PollTypeOK /\ LifeBehind
  BY <1>1, PollInitTypes DEF FileInit
<1>3. IsCache(<<>>)
  BY HistoryCacheAssumption DEF IsCache
<1>4. /\ files = [t \in Torrent |-> [i \in File |-> NewFile]] /\ open = [t \in Torrent |-> {}]
      /\ metadata \subseteq Torrent /\ fileMask \in [Client -> FileMasks]
      /\ fetchedFiles = [c \in Client |-> NotFetched] /\ m_file_histories = <<>>
      /\ cells = [c \in Client |-> [t \in Torrent |-> [i \in File |-> Empty]]]
  BY <1>1 DEF FileInit
<1>5. NewFile \in [Dynamic -> {0, 1}] /\ NewFile["open_mode"] = 0
  BY DEF NewFile, Dynamic, FileField
<1>6. files \in [Torrent -> FileFields] /\ \A t \in Torrent : ClosedIsZero(files[t], open[t])
  BY <1>4, <1>5 DEF FileFields, ClosedIsZero
<1>7. Empty \in Cell /\ DOMAIN Empty = {}
  <2>1. Empty \in [{} -> File \cup {0, 1}] /\ {} \in SUBSET FileField
    BY DEF Empty
  <2>. QED
    BY <2>1 DEF Cell
<1>8. /\ cells \in [Client -> [Torrent -> [File -> Cell]]]
      /\ \A c \in Client, t \in Torrent, i \in File : DOMAIN cells[c][t][i] \subseteq fileMask[c]
  BY <1>4, <1>7
<1>9. FileTypes
  BY <1>3, <1>4, <1>6, <1>8 DEF FileTypes
<1>10. FilesClosed /\ FilesGood
  BY <1>4, <1>6 DEF FilesClosed, FilesGood
<1>. QED
  BY <1>2, <1>4, <1>9, <1>10 DEF FileInv

\* What changes of the files is not seen before it is fetched.
LEMMA FileEventStep ==
  ASSUME FileTypes, FilesClosed, FilesGood, NEW t \in Torrent,
         GotMetadata(t) \/ (\E i \in File : FileChanges(t, i)) \/ (\E c \in Client : FetchFiles(c, t))
  PROVE  /\ FileTypes' /\ FilesClosed' /\ FilesGood'
         /\ UNCHANGED <<m_file_histories, cells, fileMask, pollVars>>
<1>1. UNCHANGED <<m_file_histories, cells, fileMask, pollVars>>
  BY DEF GotMetadata, FileChanges, FetchFiles
<1>2. FilesGood'
  BY <1>1 DEF FilesGood, FileCopy, HasField, pollVars
<1>3. /\ files' \in [Torrent -> FileFields] /\ open' \in [Torrent -> SUBSET File] /\ metadata' \subseteq Torrent
      /\ \A u \in Torrent : ClosedIsZero(files'[u], open'[u])
  <2>1. CASE GotMetadata(t)
    BY <2>1 DEF GotMetadata, FileTypes, FilesClosed
  <2>2. CASE \E c \in Client : FetchFiles(c, t)
    BY <2>2 DEF FetchFiles, FileTypes, FilesClosed, fileSource
  <2>3. ASSUME NEW i \in File, FileChanges(t, i)
        PROVE  /\ files' \in [Torrent -> FileFields] /\ open' \in [Torrent -> SUBSET File]
               /\ metadata' \subseteq Torrent /\ \A u \in Torrent : ClosedIsZero(files'[u], open'[u])
    <3>1. PICK fs \in FileFields, os \in SUBSET File : fs = files[t] /\ os = open[t]
      BY DEF FileTypes
    <3>2. ClosedIsZero(fs, os)
      BY <3>1 DEF FilesClosed
    <3>3. /\ fs \in [File -> [Dynamic -> {0, 1}]] /\ metadata' = metadata
          /\ \/ \E x \in Dynamic \ {"open_mode"} :
                  files' = [files EXCEPT ![t] = [fs EXCEPT ![i][x] = 1 - @]] /\ open' = open
             \/ /\ open' = [open EXCEPT ![t] = os \cup {i}]
                /\ \E mode \in {0, 1} : files' = [files EXCEPT ![t] = [fs EXCEPT ![i]["open_mode"] = mode]]
             \/ /\ open' = [open EXCEPT ![t] = os \ {i}]
                /\ files' = [files EXCEPT ![t] = [fs EXCEPT ![i]["open_mode"] = 0]]
      BY <2>3, <3>1 DEF FileChanges, FileFields
    <3>4. \E gs \in FileFields, ps \in SUBSET File :
            files' = [files EXCEPT ![t] = gs] /\ open' = [open EXCEPT ![t] = ps] /\ ClosedIsZero(gs, ps)
      <4>1. ASSUME NEW x \in Dynamic \ {"open_mode"},
                   files' = [files EXCEPT ![t] = [fs EXCEPT ![i][x] = 1 - @]], open' = open
            PROVE  [fs EXCEPT ![i][x] = 1 - @] \in FileFields /\ ClosedIsZero([fs EXCEPT ![i][x] = 1 - @], os)
                   /\ open' = [open EXCEPT ![t] = os]
        <5>1. 1 - fs[i][x] \in {0, 1}
          BY <3>3
        <5>2. open' = [open EXCEPT ![t] = os]
          BY <3>1, <4>1 DEF FileTypes
        <5>. QED
          BY <3>2, <3>3, <5>1, <5>2 DEF FileFields, ClosedIsZero
      <4>2. ASSUME NEW mode \in {0, 1}
            PROVE  /\ [fs EXCEPT ![i]["open_mode"] = mode] \in FileFields
                   /\ ClosedIsZero([fs EXCEPT ![i]["open_mode"] = mode], os \cup {i})
                   /\ ClosedIsZero([fs EXCEPT ![i]["open_mode"] = 0], os \ {i})
        <5>1. "open_mode" \in Dynamic
          BY DEF Dynamic, FileField
        <5>. QED
          BY <3>2, <3>3, <5>1 DEF FileFields, ClosedIsZero
      <4>3. os \cup {i} \in SUBSET File /\ os \ {i} \in SUBSET File
        OBVIOUS
      <4>4. [fs EXCEPT ![i]["open_mode"] = 0] \in FileFields
        BY <4>2
      <4>. QED
        BY <3>3, <4>1, <4>2, <4>3, <4>4
    <3>5. PICK gs \in FileFields, ps \in SUBSET File :
            files' = [files EXCEPT ![t] = gs] /\ open' = [open EXCEPT ![t] = ps] /\ ClosedIsZero(gs, ps)
      BY <3>4
    <3>. QED
      BY <3>3, <3>5 DEF FileTypes, FilesClosed
  <2>. QED
    BY <2>1, <2>2, <2>3
<1>4. /\ fetchedFiles' \in [Client -> FileFetch \cup {NotFetched}]
      /\ \A d \in Client : fetchedFiles'[d] # NotFetched =>
           ClosedIsZero(fetchedFiles'[d].files, fetchedFiles'[d].open)
  <2>1. CASE fetchedFiles' = fetchedFiles
    BY <2>1 DEF FileTypes, FilesClosed
  <2>2. CASE \E c \in Client : FetchFiles(c, t)
    <3>3. PICK r : r = [ih |-> t, files |-> files[t], open |-> open[t]]
      OBVIOUS
    <3>1. PICK c \in Client : r = [ih |-> t, files |-> files[t], open |-> open[t]] /\
                              fetchedFiles' = [fetchedFiles EXCEPT ![c] = r]
      BY <2>2, <3>3 DEF FetchFiles
    <3>2. r \in FileFetch /\ ClosedIsZero(r.files, r.open)
      <4>1. files[t] \in FileFields /\ open[t] \in SUBSET File /\ ClosedIsZero(files[t], open[t])
        BY DEF FileTypes, FilesClosed
      <4>. QED
        BY <3>1, <4>1 DEF FileFetch
    <3>. QED
      BY <3>1, <3>2 DEF FileTypes, FilesClosed
  <2>. QED
    BY <2>1, <2>2 DEF GotMetadata, FileChanges
<1>5. FileTypes'
  BY <1>1, <1>3, <1>4 DEF FileTypes, IsCache
<1>6. FilesClosed'
  BY <1>3, <1>4 DEF FilesClosed
<1>. QED
  BY <1>1, <1>2, <1>5, <1>6

\* Every step keeps what the page of files rests on.
LEMMA FileNextInv ==
  ASSUME FileInv, [Next]_tabsVars
  PROVE  FileInv'
<1>1. ASSUME UNCHANGED <<tab, fileOwn>>, tab = "files" => UNCHANGED pollVars PROVE FileInv'
  <2>1. UNCHANGED <<tab, files, open, metadata, fileMask, fetchedFiles, m_file_histories, cells>>
    BY <1>1 DEF fileOwn, fileSource
  <2>2. FileTypes' /\ FilesClosed'
    BY <2>1 DEF FileInv, FileTypes, FilesClosed, ClosedIsZero, IsCache
  <2>3. CASE tab = "files"
    <3>1. UNCHANGED <<polls, lives, frame, life>>
      BY <1>1, <2>3 DEF pollVars
    <3>2. PollTypeOK' /\ LifeBehind'
      BY <2>3, <3>1 DEF FileInv, PollTypeOK, LifeBehind
    <3>3. FilesGood'
      BY <2>1, <3>1 DEF FileInv, FilesGood, FileCopy, HasField
    <3>. QED
      BY <2>1, <2>2, <2>3, <3>2, <3>3 DEF FileInv
  <2>4. CASE tab # "files"
    <3>1. m_file_histories' = <<>>
      BY <2>1, <2>4 DEF FileInv
    <3>. QED
      BY <2>1, <2>2, <2>4, <3>1 DEF FileInv, FilesGood
  <2>. QED
    BY <2>3, <2>4
<1>2. ASSUME tab = "files", tab' = tab, FileNext PROVE FileInv'
  <2>1. FileTypes /\ FilesClosed /\ FilesGood /\ PollTypeOK /\ LifeBehind
    BY <1>2 DEF FileInv
  <2>2. ASSUME NEW t \in Torrent,
               GotMetadata(t) \/ (\E i \in File : FileChanges(t, i)) \/ (\E c \in Client : FetchFiles(c, t))
        PROVE  FileInv'
    <3>1. FileTypes' /\ FilesClosed' /\ FilesGood' /\ UNCHANGED pollVars
      BY <2>1, <2>2, FileEventStep
    <3>2. PollTypeOK' /\ LifeBehind'
      BY <2>1, <3>1 DEF PollTypeOK, LifeBehind, pollVars
    <3>. QED
      BY <1>2, <3>1, <3>2 DEF FileInv
  <2>3. ASSUME NEW c \in Client, NEW t \in Torrent, AnswerFiles(c, t) PROVE FileInv'
    <3>1. PollTypeOK' /\ LifeBehind' /\ FileTypes' /\ FilesClosed' /\ FilesGood'
      BY <2>1, <2>3, AnswerFilesStep
    <3>. QED
      BY <1>2, <3>1 DEF FileInv
  <2>. QED
    BY <1>2, <2>2, <2>3, HistoryCacheAssumption DEF FileNext
<1>3. CASE UNCHANGED tabsVars
  BY <1>1, <1>3 DEF tabsVars
<1>4. CASE Next
  <2>1. CASE tab = "files" /\ FileNext
    BY <1>2, <1>4, <2>1 DEF Next
  <2>2. CASE tab # "files" /\ UNCHANGED fileOwn
    BY <1>1, <1>4, <2>2 DEF Next
  <2>. QED
    BY <1>4, <2>1, <2>2 DEF Next
<1>. QED
  BY <1>3, <1>4

\* In every behaviour a client of the page of files has each field it asks for, or
\* the field has a frame after the client's.
THEOREM FileInvariant == Spec => []FileInv
<1>1. Init => FileInv
  BY FileInitInv
<1>2. FileInv /\ [Next]_tabsVars => FileInv'
  BY FileNextInv
<1>. QED
  BY <1>1, <1>2, PTL DEF Spec

\* A client that is answered shows each field it asks for as its call fetched it,
\* whatever other clients ask for and in whatever order the calls got the mutex.
THEOREM FilesAreShown == Spec => FilesShown
<1>. DEFINE Shown == \A c \in Client, t \in Torrent :
                       AnswerFiles(c, t) /\ SameLife(c, t) =>
                         \A i \in File : \A x \in fileMask[c] \ {"name"} :
                           /\ x \in DOMAIN cells'[c][t][i]
                           /\ cells'[c][t][i][x] = fetchedFiles[c].files[i][x]
<1>1. ASSUME FileInv, [Next]_tabsVars PROVE [Shown]_fileVars
  <2>1. CASE tab = "files"
    <3>1. FileTypes /\ FilesClosed /\ FilesGood /\ PollTypeOK /\ LifeBehind
      BY <1>1, <2>1 DEF FileInv
    <3>2. Shown
      BY <3>1, AnswerFilesStep
    <3>. QED
      BY <3>2
  <2>2. CASE tab # "files"
    <3>1. UNCHANGED fetchedFiles /\ FileTypes
      BY <1>1, <2>2 DEF Next, tabsVars, fileOwn, FileInv
    <3>2. ASSUME NEW c \in Client, NEW t \in Torrent, AnswerFiles(c, t) PROVE FALSE
      BY <3>1, <3>2 DEF AnswerFiles, FileTypes
    <3>. QED
      BY <3>2
  <2>. QED
    BY <2>1, <2>2
<1>. QED
  BY <1>1, FileInvariant, PTL DEF Spec, FilesShown

-----------------------------------------------------------------------------
(* Tombstones, those of peers and those of pieces: they stand newest first. *)

\* A bounded set of numbers has a greatest one.
LEMMA GreatestOf ==
  ASSUME NEW bound \in Nat, NEW S \in SUBSET (0 .. bound), S # {}
  PROVE  Max(S) \in S /\ \A x \in S : Max(S) >= x
<1>1. PICK T : T = {bound - x : x \in S}
  OBVIOUS
<1>2. T \in SUBSET Nat /\ T # {}
  <2>1. \A x \in S : bound - x \in Nat
    OBVIOUS
  <2>2. PICK x : x \in S
    OBVIOUS
  <2>3. bound - x \in T
    BY <1>1, <2>2
  <2>. QED
    BY <1>1, <2>1, <2>3
<1>3. PICK n \in T : \A m \in T : n <= m
  BY <1>2, LeastNat
<1>4. PICK y \in S : n = bound - y
  BY <1>1, <1>3
<1>5. \A x \in S : y >= x
  <2>. SUFFICES ASSUME NEW x \in S PROVE y >= x
    OBVIOUS
  <2>1. bound - x \in T /\ x \in Nat /\ y \in Nat
    BY <1>1
  <2>2. bound - y <= bound - x
    BY <1>3, <1>4, <2>1
  <2>. QED
    BY <2>1, <2>2
<1>6. \E m \in S : \A x \in S : m >= x
  BY <1>5
<1>7. Max(S) = CHOOSE m \in S : \A x \in S : m >= x
  BY DEF Max
<1>. QED
  BY <1>6, <1>7

\* Ascending() in reverse is the set as well.
LEMMA Descending ==
  ASSUME NEW S \in SUBSET Nat, IsFiniteSet(S)
  PROVE  /\ Reverse(Ascending(S)) \in Seq(S)
         /\ \A x \in S : \E i \in DOMAIN Reverse(Ascending(S)) : Reverse(Ascending(S))[i] = x
<1>1. PICK n \in Nat : n = Cardinality(S)
  BY AscendingLists
<1>2. PICK a \in [1 .. n -> S] : a = Ascending(S) /\ \A x \in S : \E i \in 1 .. n : a[i] = x
  BY <1>1, AscendingLists
<1>3. Len(a) = n
  OBVIOUS
<1>4. PICK r : r = Reverse(a)
  OBVIOUS
<1>5. r = [i \in 1 .. n |-> a[(n - i) + 1]]
  BY <1>3, <1>4 DEF Reverse
<1>6. \A i \in 1 .. n : (n - i) + 1 \in 1 .. n /\ (n - ((n - i) + 1)) + 1 = i
  OBVIOUS
<1>7. r \in [1 .. n -> S] /\ \A i \in 1 .. n : r[(n - i) + 1] = a[i]
  BY <1>5, <1>6
<1>8. r \in Seq(S) /\ DOMAIN r = 1 .. n
  BY <1>7
<1>9. \A x \in S : \E i \in DOMAIN r : r[i] = x
  BY <1>2, <1>6, <1>7, <1>8
<1>. QED
  BY <1>2, <1>4, <1>8, <1>9

\* The front of a sequence.
LEMMA FrontOf ==
  ASSUME NEW S, NEW seq \in Seq(S), NEW n \in 0 .. Len(seq), NEW r, r = SubSeq(seq, 1, n)
  PROVE  r \in Seq(S) /\ Len(r) = n /\ \A i \in 1 .. n : r[i] = seq[i]
OBVIOUS

NewestFirst(stones) ==
  \A i, j \in DOMAIN stones : i < j => stones[i].removed_frame >= stones[j].removed_frame

\* Of a sequence that is trimmed the newest stay, and the horizon is past the others.
TrimmedTo(stones, kept, from, horizon, f) ==
  /\ Len(kept) <= MaxTombstones
  /\ \A i \in DOMAIN kept : i \in DOMAIN stones /\ kept[i] = stones[i]
  /\ \A i \in DOMAIN stones : i \in DOMAIN kept \/ stones[i].removed_frame < horizon
  /\ horizon \in from .. f + 1

\* The two steps that trim the tombstones, of pieces and of peers.
LEMMA TombstonesTrimmed ==
  ASSUME NEW S, NEW stones \in Seq(S), NEW f \in Nat, NEW from \in 0 .. f + 1,
         \A i \in DOMAIN stones : stones[i].removed_frame \in 0 .. f,
         NEW kept, kept = SubSeq(stones, 1, Min({MaxTombstones, Len(stones)})),
         NEW horizon, horizon = Max({from} \cup
           {stones[i].removed_frame + 1 : i \in {j \in DOMAIN stones : j > MaxTombstones}})
  PROVE  kept \in Seq(S) /\ TrimmedTo(stones, kept, from, horizon, f)
<1>1. MaxTombstones \in Nat /\ Len(stones) \in Nat
  BY HistoryCacheAssumption
<1>2. PICK n \in 0 .. Len(stones) : /\ n = Min({MaxTombstones, Len(stones)})
                                    /\ n <= MaxTombstones /\ (n = MaxTombstones \/ n = Len(stones))
  BY <1>1, MinOfTwo
<1>3. kept = SubSeq(stones, 1, Min({MaxTombstones, Len(stones)}))
  OBVIOUS
<1>4. kept \in Seq(S) /\ Len(kept) = n /\ \A i \in 1 .. n : kept[i] = stones[i]
  <2>1. kept = SubSeq(stones, 1, n)
    BY <1>2, <1>3
  <2>2. PICK r : r = SubSeq(stones, 1, n)
    OBVIOUS
  <2>3. r \in Seq(S) /\ Len(r) = n /\ \A i \in 1 .. n : r[i] = stones[i]
    BY <2>2, FrontOf
  <2>4. kept = r
    BY <2>1, <2>2
  <2>. QED
    BY <2>3, <2>4
<1>5. PICK past : past = {from} \cup {stones[i].removed_frame + 1 : i \in {j \in DOMAIN stones : j > MaxTombstones}}
  OBVIOUS
<1>6. past \in SUBSET (0 .. f + 1) /\ past # {} /\ from \in past
  BY <1>5
<1>7. horizon = Max(past)
  BY <1>5
<1>8. horizon \in past /\ \A x \in past : horizon >= x
  <2>1. PICK bound \in Nat : bound = f + 1
    OBVIOUS
  <2>2. past \in SUBSET (0 .. bound)
    BY <1>6, <2>1
  <2>. QED
    BY <1>6, <1>7, <2>2, GreatestOf
<1>9. horizon \in from .. f + 1
  BY <1>6, <1>8
<1>10. DOMAIN kept = 1 .. n /\ DOMAIN stones = 1 .. Len(stones)
  BY <1>4
<1>11. ASSUME NEW i \in DOMAIN stones, i \notin DOMAIN kept PROVE stones[i].removed_frame < horizon
  <2>1. i > MaxTombstones
    BY <1>1, <1>2, <1>10, <1>11
  <2>2. stones[i].removed_frame + 1 \in past
    BY <1>5, <2>1
  <2>3. stones[i].removed_frame \in Nat /\ horizon \in Nat
    BY <1>6, <1>8
  <2>. QED
    BY <1>8, <2>2, <2>3
<1>12. \A i \in DOMAIN kept : i \in DOMAIN stones /\ kept[i] = stones[i]
  <2>1. \A i \in 1 .. n : i \in 1 .. Len(stones)
    BY <1>1, <1>2
  <2>. QED
    BY <1>4, <1>10, <2>1
<1>13. TrimmedTo(stones, kept, from, horizon, f)
  BY <1>2, <1>4, <1>9, <1>11, <1>12 DEF TrimmedTo
<1>. QED
  BY <1>4, <1>13

\* A sequence has what two others have.
Joined(r, first, old) ==
  /\ \A i \in DOMAIN r : (\E j \in DOMAIN first : r[i] = first[j]) \/ (\E j \in DOMAIN old : r[i] = old[j])
  /\ \A j \in DOMAIN first : \E i \in DOMAIN r : r[i] = first[j]
  /\ \A j \in DOMAIN old : \E i \in DOMAIN r : r[i] = old[j]

\* Those of the last update go before the others.
LEMMA TombstonesBefore ==
  ASSUME NEW S, NEW first \in Seq(S), NEW old \in Seq(S), NEW f \in Nat,
         \A i \in DOMAIN first : first[i].removed_frame = f + 1,
         NewestFirst(old), \A i \in DOMAIN old : old[i].removed_frame \in 0 .. f,
         NEW r, r = first \o old
  PROVE  r \in Seq(S) /\ NewestFirst(r) /\ Joined(r, first, old)
         /\ \A i \in DOMAIN r : r[i].removed_frame \in 0 .. f + 1
<1>1. r = first \o old
  OBVIOUS
<1>2. PICK n \in Nat, m \in Nat : n = Len(first) /\ m = Len(old)
  OBVIOUS
<1>3. DOMAIN first = 1 .. n /\ DOMAIN old = 1 .. m
  BY <1>2
<1>4. /\ r \in Seq(S) /\ Len(r) = n + m
      /\ \A i \in 1 .. n + m : r[i] = IF i <= n THEN first[i] ELSE old[i - n]
  BY <1>1, <1>2, ConcatProperties
<1>5. DOMAIN r = 1 .. n + m
  BY <1>4
<1>6. \A i \in 1 .. n : i \in DOMAIN r /\ r[i] = first[i]
  BY <1>4, <1>5
<1>7. \A i \in 1 .. m : i + n \in DOMAIN r /\ r[i + n] = old[i]
  BY <1>4, <1>5
<1>8. ASSUME NEW i \in DOMAIN r
      PROVE  (i \in 1 .. n /\ r[i] = first[i]) \/ (i - n \in 1 .. m /\ i > n /\ r[i] = old[i - n])
  <2>1. i \in 1 .. n + m /\ r[i] = IF i <= n THEN first[i] ELSE old[i - n]
    BY <1>4, <1>5
  <2>. QED
    BY <2>1
<1>9. \A i \in DOMAIN r : r[i].removed_frame \in 0 .. f + 1
  BY <1>3, <1>8
<1>10. NewestFirst(r)
  <2>. SUFFICES ASSUME NEW i \in DOMAIN r, NEW j \in DOMAIN r, i < j
                PROVE  r[i].removed_frame >= r[j].removed_frame
    BY DEF NewestFirst
  <2>1. r[j].removed_frame \in 0 .. f + 1
    BY <1>9
  <2>2. CASE i \in 1 .. n /\ r[i] = first[i]
    BY <1>3, <2>1, <2>2
  <2>3. CASE i - n \in 1 .. m /\ i > n /\ r[i] = old[i - n]
    <3>4. i \in 1 .. n + m /\ j \in 1 .. n + m /\ i < j /\ i > n
      BY <1>5, <2>3
    <3>5. j > n /\ j \notin 1 .. n /\ i - n < j - n
      BY <3>4
    <3>6. j - n \in 1 .. m /\ r[j] = old[j - n]
      BY <1>8, <3>5
    <3>1. j - n \in 1 .. m /\ r[j] = old[j - n] /\ i - n < j - n
      BY <3>5, <3>6
    <3>2. \A x, y \in 1 .. m : x < y => old[x].removed_frame >= old[y].removed_frame
      BY <1>3 DEF NewestFirst
    <3>3. old[i - n].removed_frame >= old[j - n].removed_frame
      BY <2>3, <3>1, <3>2
    <3>. QED
      BY <2>3, <3>1, <3>3
  <2>. QED
    BY <1>8, <2>2, <2>3
<1>11. \A i \in DOMAIN r : (\E j \in DOMAIN first : r[i] = first[j]) \/ (\E j \in DOMAIN old : r[i] = old[j])
  BY <1>3, <1>8
<1>12. /\ \A j \in DOMAIN first : \E i \in DOMAIN r : r[i] = first[j]
       /\ \A j \in DOMAIN old : \E i \in DOMAIN r : r[i] = old[j]
  BY <1>3, <1>6, <1>7
<1>. QED
  BY <1>4, <1>9, <1>10, <1>11, <1>12 DEF Joined

-----------------------------------------------------------------------------
(* PeerUpdates                                                             *)

PeerStone == [removed_frame: Nat, added_frame: Nat, id: Peer]
PeerSets == UNION {[S -> [PeerField -> Values]] : S \in SUBSET Peer}
PeerEntrySets == UNION {[S -> PeerEntry] : S \in SUBSET Peer}
PeerHistory ==
  [m_ih: Torrent, m_frame: Nat, m_horizon: Nat, m_peers: PeerEntrySets, m_removed: Seq(PeerStone)]
PeerFetch == [ih: Torrent, peers: PeerSets]

PeerRow == UNION {[S -> Values] : S \in SUBSET PeerField}
Key == {RowKey(p) : p \in Peer}
PeerTable == UNION {[S -> PeerRow] : S \in SUBSET Key}

\* The tombstones are of peers that are not there, the newest in front.
PeerFits(h) ==
  /\ h.m_horizon <= h.m_frame + 1
  /\ \A p \in DOMAIN h.m_peers : h.m_peers[p].added_frame \in 1 .. h.m_frame
  /\ Len(h.m_removed) <= MaxTombstones /\ NewestFirst(h.m_removed)
  /\ \A i \in DOMAIN h.m_removed :
       h.m_removed[i].removed_frame \in 0 .. h.m_frame /\ h.m_removed[i].id \notin DOMAIN h.m_peers

\* No two peers have one row, and the key of a row is no peer's but its own.
LEMMA KeysDiffer ==
  /\ \A p, q \in Peer : RowKey(p) = RowKey(q) => p = q
  /\ \A p, q \in Peer : RowKey(p) = q => p = q
<1>1. PICK n \in Int, m \in Int : n = 2 ^ IdBits /\ m = 2 ^ (IdBits - 1)
  BY PeerUpdatesAssumption
<1>2. \A p \in Peer : p \in 0 .. n - 1 /\ RowKey(p) = IF p < m THEN p ELSE p - n
  BY <1>1, PeerUpdatesAssumption DEF RowKey
<1>. QED
  BY <1>1, <1>2

\* Identifiers can be put in order: there are 2 ^ IdBits of them.
LEMMA PeersAreNumbers ==
  \A S \in SUBSET Peer : S \in SUBSET Nat /\ IsFiniteSet(S)
<1>1. PICK n \in Int : n = 2 ^ IdBits
  BY PeerUpdatesAssumption
<1>2. IsFiniteSet(0 .. n - 1)
  BY <1>1, FS_Interval
<1>3. Peer \subseteq 0 .. n - 1
  BY <1>1, PeerUpdatesAssumption
<1>4. ASSUME NEW S \in SUBSET Peer PROVE S \in SUBSET Nat /\ IsFiniteSet(S)
  <2>1. S \in SUBSET (0 .. n - 1)
    BY <1>3
  <2>2. IsFiniteSet(S)
    BY <1>2, <2>1, FS_Subset
  <2>. QED
    BY <2>1, <2>2
<1>. QED
  BY <1>4

\* Peers that left have a tombstone in front, those that came have none.
PeersBuriedIn(h, now, f, s) ==
  /\ \A i \in DOMAIN s : s[i].removed_frame \in 0 .. f /\ s[i].id \notin DOMAIN now
  /\ \A p \in DOMAIN h.m_peers \ DOMAIN now : \E i \in DOMAIN s :
       s[i].removed_frame = f /\ s[i].added_frame = h.m_peers[p].added_frame /\ s[i].id = p
  /\ \A j \in DOMAIN h.m_removed :
       h.m_removed[j].id \in DOMAIN now \/ \E i \in DOMAIN s : s[i] = h.m_removed[j]

\* An update buries the peers that left and clears the tombstones of those that came.
LEMMA PeersBuriedAre ==
  ASSUME NEW h \in PeerHistory, PeerFits(h), NEW now \in PeerSets, NEW f, f = h.m_frame + 1,
         NEW s, s = PeersBuried(h, now, f)
  PROVE  s \in Seq(PeerStone) /\ NewestFirst(s) /\ PeersBuriedIn(h, now, f, s)
<1>1. PICK was \in PeerEntrySets : was = h.m_peers
  BY DEF PeerHistory
<1>2. PICK old \in Seq(PeerStone) : old = h.m_removed
  BY DEF PeerHistory
<1>3. h.m_frame \in Nat /\ f \in Nat \ {0}
  BY DEF PeerHistory
<1>4. DOMAIN was \subseteq Peer /\ \A p \in DOMAIN was : was[p] \in PeerEntry
  BY DEF PeerEntrySets
<1>5. PICK gone : gone = Reverse(Ascending(DOMAIN was \ DOMAIN now))
  OBVIOUS
<1>6. /\ gone \in Seq(DOMAIN was \ DOMAIN now)
      /\ \A p \in DOMAIN was \ DOMAIN now : \E i \in DOMAIN gone : gone[i] = p
  <2>1. DOMAIN was \ DOMAIN now \in SUBSET Nat /\ IsFiniteSet(DOMAIN was \ DOMAIN now)
    BY <1>4, PeersAreNumbers
  <2>. QED
    BY <1>5, <2>1, Descending
<1>. DEFINE Stone(p) == [removed_frame |-> f, added_frame |-> was[p].added_frame, id |-> p]
<1>7. PICK first : first = [i \in DOMAIN gone |-> Stone(gone[i])]
  OBVIOUS
<1>8. \A p \in DOMAIN was : /\ Stone(p) \in PeerStone /\ Stone(p).removed_frame = f
                            /\ Stone(p).added_frame = was[p].added_frame /\ Stone(p).id = p
  BY <1>3, <1>4 DEF PeerStone, PeerEntry
<1>. HIDE DEF Stone
<1>9. PICK n \in Nat : n = Len(gone) /\ DOMAIN gone = 1 .. n /\ \A i \in 1 .. n : gone[i] \in DOMAIN was \ DOMAIN now
  BY <1>6
<1>10. first \in [1 .. n -> PeerStone]
  BY <1>7, <1>8, <1>9
<1>11. first \in Seq(PeerStone) /\ DOMAIN first = 1 .. n
  BY <1>10
<1>12. \A i \in 1 .. n : /\ first[i].removed_frame = f /\ first[i].added_frame = was[first[i].id].added_frame
                         /\ first[i].id = gone[i]
  BY <1>7, <1>8, <1>9
<1>13. PICK stones : stones = first \o old
  OBVIOUS
<1>14. NewestFirst(old) /\ \A i \in DOMAIN old : old[i].removed_frame \in 0 .. h.m_frame /\ old[i].id \notin DOMAIN was
  BY <1>1, <1>2 DEF PeerFits
<1>15. /\ stones \in Seq(PeerStone) /\ NewestFirst(stones)
       /\ \A i \in DOMAIN stones : stones[i].removed_frame \in 0 .. f
       /\ \A i \in DOMAIN stones :
            (\E j \in DOMAIN first : stones[i] = first[j]) \/ (\E j \in DOMAIN old : stones[i] = old[j])
       /\ \A j \in DOMAIN first : \E i \in DOMAIN stones : stones[i] = first[j]
       /\ \A j \in DOMAIN old : \E i \in DOMAIN stones : stones[i] = old[j]
  <2>1. PICK z \in Nat : z = h.m_frame /\ f = z + 1
    BY <1>3
  <2>2. \A i \in DOMAIN first : first[i].removed_frame = z + 1
    BY <1>11, <1>12, <2>1
  <2>3. \A i \in DOMAIN old : old[i].removed_frame \in 0 .. z
    BY <1>14, <2>1
  <2>4. NewestFirst(old)
    BY <1>14
  <2>5. /\ stones \in Seq(PeerStone) /\ NewestFirst(stones) /\ Joined(stones, first, old)
        /\ \A i \in DOMAIN stones : stones[i].removed_frame \in 0 .. z + 1
    BY <1>11, <1>13, <2>2, <2>3, <2>4, TombstonesBefore
  <2>. QED
    BY <2>1, <2>5 DEF Joined
<1>16. PICK places \in SUBSET DOMAIN stones :
         places = {i \in DOMAIN stones : stones[i].id \notin DOMAIN now \ DOMAIN was}
  OBVIOUS
<1>17. s = Picked(stones, places)
  BY <1>1, <1>2, <1>5, <1>7, <1>13, <1>16 DEF PeersBuried, Stone
<1>18. /\ s \in Seq(PeerStone)
       /\ \A i \in DOMAIN s : \E p \in places : s[i] = stones[p]
       /\ \A p \in places : \E i \in DOMAIN s : s[i] = stones[p]
       /\ \A i, j \in DOMAIN s : i < j => \E p, q \in places : p < q /\ s[i] = stones[p] /\ s[j] = stones[q]
  BY <1>15, <1>17, PickedElements
<1>19. NewestFirst(s)
  <2>. SUFFICES ASSUME NEW i \in DOMAIN s, NEW j \in DOMAIN s, i < j
                PROVE  s[i].removed_frame >= s[j].removed_frame
    BY DEF NewestFirst
  <2>1. PICK p \in places, q \in places : p < q /\ s[i] = stones[p] /\ s[j] = stones[q]
    BY <1>18
  <2>2. stones[p].removed_frame >= stones[q].removed_frame
    BY <1>15, <2>1 DEF NewestFirst
  <2>. QED
    BY <2>1, <2>2
<1>20. ASSUME NEW i \in DOMAIN s PROVE s[i].removed_frame \in 0 .. f /\ s[i].id \notin DOMAIN now
  <2>1. PICK p \in places : s[i] = stones[p]
    BY <1>18
  <2>2. p \in DOMAIN stones /\ stones[p].id \notin DOMAIN now \ DOMAIN was
    BY <1>16
  <2>3. CASE \E j \in DOMAIN first : stones[p] = first[j]
    BY <1>9, <1>11, <1>12, <1>15, <2>1, <2>2, <2>3
  <2>4. CASE \E j \in DOMAIN old : stones[p] = old[j]
    BY <1>14, <1>15, <2>1, <2>2, <2>4
  <2>. QED
    BY <1>15, <2>2, <2>3, <2>4
<1>21. ASSUME NEW p \in DOMAIN was \ DOMAIN now
       PROVE  \E i \in DOMAIN s :
                s[i].removed_frame = f /\ s[i].added_frame = was[p].added_frame /\ s[i].id = p
  <2>1. PICK j \in DOMAIN first : first[j].id = p
    BY <1>6, <1>9, <1>11, <1>12
  <2>2. first[j].removed_frame = f /\ first[j].added_frame = was[p].added_frame
    BY <1>11, <1>12, <2>1
  <2>3. PICK i \in DOMAIN stones : stones[i] = first[j]
    BY <1>15
  <2>4. i \in places
    BY <1>16, <2>1, <2>3
  <2>5. PICK k \in DOMAIN s : s[k] = stones[i]
    BY <1>18, <2>4
  <2>. QED
    BY <2>1, <2>2, <2>3, <2>5
<1>22. ASSUME NEW j \in DOMAIN old, old[j].id \notin DOMAIN now PROVE \E i \in DOMAIN s : s[i] = old[j]
  <2>1. PICK i \in DOMAIN stones : stones[i] = old[j]
    BY <1>15
  <2>2. i \in places
    BY <1>16, <1>22, <2>1
  <2>. QED
    BY <1>18, <2>1, <2>2
<1>. QED
  BY <1>1, <1>2, <1>18, <1>19, <1>20, <1>21, <1>22 DEF PeersBuriedIn

\* What an update does to the entries: the peers are those that were fetched, and
\* what is new of them has the frame of the update.
EntriesUpdated(g, h, now) ==
  /\ DOMAIN h.m_peers = DOMAIN now
  /\ \A p \in DOMAIN now :
       /\ h.m_peers[p].info = now[p]
       /\ p \notin DOMAIN g.m_peers => h.m_peers[p].added_frame = h.m_frame
       /\ p \in DOMAIN g.m_peers =>
            /\ h.m_peers[p].added_frame = g.m_peers[p].added_frame
            /\ \A x \in PeerField :
                 \/ h.m_peers[p].frame[x] = h.m_frame
                 \/ /\ h.m_peers[p].frame[x] = g.m_peers[p].frame[x]
                    /\ h.m_peers[p].info[x] = g.m_peers[p].info[x]

\* What it does to the tombstones: a peer that is gone has one, or the horizon is
\* past the frame at which it went.
StonesUpdated(g, h, now) ==
  /\ g.m_horizon <= h.m_horizon
  /\ \A p \in DOMAIN g.m_peers \ DOMAIN now :
       h.m_frame < h.m_horizon \/ \E i \in DOMAIN h.m_removed :
         /\ h.m_removed[i].removed_frame = h.m_frame /\ h.m_removed[i].id = p
         /\ h.m_removed[i].added_frame = g.m_peers[p].added_frame
  /\ \A j \in DOMAIN g.m_removed :
       \/ g.m_removed[j].id \in DOMAIN now
       \/ g.m_removed[j].removed_frame < h.m_horizon
       \/ \E i \in DOMAIN h.m_removed : h.m_removed[i] = g.m_removed[j]

\* The entries after an update.
LEMMA PeerEntriesAre ==
  ASSUME NEW g \in PeerHistory, PeerFits(g), NEW now \in PeerSets, NEW f, f = g.m_frame + 1,
         NEW is, is = PeerEntries(g, now, f)
  PROVE  /\ is \in PeerEntrySets /\ DOMAIN is = DOMAIN now
         /\ \A p \in DOMAIN now :
              /\ is[p].info = now[p] /\ is[p].added_frame \in 1 .. f
              /\ p \notin DOMAIN g.m_peers => is[p].added_frame = f
              /\ p \in DOMAIN g.m_peers =>
                   /\ is[p].added_frame = g.m_peers[p].added_frame
                   /\ \A x \in PeerField :
                        \/ is[p].frame[x] = f
                        \/ is[p].frame[x] = g.m_peers[p].frame[x] /\ now[p][x] = g.m_peers[p].info[x]
<1>1. PICK was \in PeerEntrySets : was = g.m_peers
  BY DEF PeerHistory
<1>2. f \in Nat \ {0} /\ g.m_frame \in Nat
  BY DEF PeerHistory
<1>3. DOMAIN was \subseteq Peer /\ \A p \in DOMAIN was : was[p] \in PeerEntry /\ was[p].added_frame \in 1 .. g.m_frame
  BY <1>1 DEF PeerEntrySets, PeerFits
<1>4. PICK D \in SUBSET Peer : D = DOMAIN now /\ now \in [D -> [PeerField -> Values]]
  BY DEF PeerSets
<1>5. ASSUME NEW p \in D
      PROVE  /\ is[p] \in PeerEntry /\ is[p].info = now[p] /\ is[p].added_frame \in 1 .. f
             /\ p \notin DOMAIN was => is[p].added_frame = f
             /\ p \in DOMAIN was =>
                  /\ is[p].added_frame = was[p].added_frame
                  /\ \A x \in PeerField :
                       \/ is[p].frame[x] = f
                       \/ is[p].frame[x] = was[p].frame[x] /\ now[p][x] = was[p].info[x]
  <2>1. CASE p \notin DOMAIN was
    <3>1. is[p] = [added_frame |-> f, info |-> now[p], frame |-> [x \in PeerField |-> f]]
      BY <1>1, <1>4, <2>1 DEF PeerEntries
    <3>. QED
      BY <1>2, <1>4, <2>1, <3>1 DEF PeerEntry
  <2>2. CASE p \in DOMAIN was
    <3>1. PICK e \in PeerEntry : e = was[p] /\ e.added_frame \in 1 .. g.m_frame
      BY <1>3, <2>2
    <3>2. PICK fs : fs = [x \in PeerField |-> IF now[p][x] = e.info[x] THEN e.frame[x] ELSE f]
      OBVIOUS
    <3>3. is[p] = [e EXCEPT !.info = now[p], !.frame = fs]
      BY <1>1, <1>4, <2>2, <3>1, <3>2 DEF PeerEntries, PeerEntry
    <3>4. is[p] = [added_frame |-> e.added_frame, info |-> now[p], frame |-> fs]
      BY <3>3 DEF PeerEntry
    <3>5. fs \in [PeerField -> Nat]
      BY <1>2, <3>2 DEF PeerEntry
    <3>6. is[p] \in PeerEntry
      BY <1>4, <3>4, <3>5 DEF PeerEntry
    <3>7. e.added_frame \in 1 .. f
      BY <1>2, <3>1
    <3>. QED
      BY <2>2, <3>1, <3>2, <3>4, <3>6, <3>7
  <2>. QED
    BY <2>1, <2>2
<1>6. is \in [D -> PeerEntry]
  <2>1. PICK E : is = [p \in D |-> E[p]]
    <3>1. is = [p \in D |-> is[p]]
      BY <1>4 DEF PeerEntries
    <3>. QED
      BY <3>1
  <2>. QED
    BY <1>5, <2>1
<1>. QED
  BY <1>1, <1>4, <1>5, <1>6 DEF PeerEntrySets

\* PeerUpdate() makes a history of the peers, and keeps account of those that left.
LEMMA PeerUpdated ==
  ASSUME NEW g \in PeerHistory, PeerFits(g), NEW now \in PeerSets, NEW h, h = PeerUpdate(g, now)
  PROVE  /\ h \in PeerHistory /\ PeerFits(h) /\ h.m_ih = g.m_ih /\ h.m_frame = g.m_frame + 1
         /\ EntriesUpdated(g, h, now) /\ StonesUpdated(g, h, now)
<1>1. PICK f \in Nat : f = g.m_frame + 1
  BY DEF PeerHistory
<1>2. PICK is : is = PeerEntries(g, now, f)
  OBVIOUS
<1>3. /\ is \in PeerEntrySets /\ DOMAIN is = DOMAIN now
      /\ \A p \in DOMAIN now :
           /\ is[p].info = now[p] /\ is[p].added_frame \in 1 .. f
           /\ p \notin DOMAIN g.m_peers => is[p].added_frame = f
           /\ p \in DOMAIN g.m_peers =>
                /\ is[p].added_frame = g.m_peers[p].added_frame
                /\ \A x \in PeerField :
                     \/ is[p].frame[x] = f
                     \/ is[p].frame[x] = g.m_peers[p].frame[x] /\ now[p][x] = g.m_peers[p].info[x]
  BY <1>1, <1>2, PeerEntriesAre
<1>4. PICK s : s = PeersBuried(g, now, f)
  OBVIOUS
<1>19. s \in Seq(PeerStone) /\ NewestFirst(s) /\ PeersBuriedIn(g, now, f, s)
  BY <1>1, <1>4, PeersBuriedAre
<1>5. /\ s \in Seq(PeerStone) /\ NewestFirst(s)
      /\ \A i \in DOMAIN s : s[i].removed_frame \in 0 .. f /\ s[i].id \notin DOMAIN now
      /\ \A p \in DOMAIN g.m_peers \ DOMAIN now : \E i \in DOMAIN s :
           s[i].removed_frame = f /\ s[i].added_frame = g.m_peers[p].added_frame /\ s[i].id = p
      /\ \A j \in DOMAIN g.m_removed :
           g.m_removed[j].id \in DOMAIN now \/ \E i \in DOMAIN s : s[i] = g.m_removed[j]
  BY <1>19 DEF PeersBuriedIn
<1>6. PICK from \in 0 .. f + 1 : from = g.m_horizon
  BY <1>1 DEF PeerHistory, PeerFits
<1>7. PICK kept : kept = SubSeq(s, 1, Min({MaxTombstones, Len(s)}))
  OBVIOUS
<1>8. PICK horizon :
        horizon = Max({from} \cup {s[i].removed_frame + 1 : i \in {j \in DOMAIN s : j > MaxTombstones}})
  OBVIOUS
<1>9. kept \in Seq(PeerStone) /\ TrimmedTo(s, kept, from, horizon, f)
  <2>1. \A i \in DOMAIN s : s[i].removed_frame \in 0 .. f
    BY <1>5
  <2>. QED
    BY <1>5, <1>7, <1>8, <2>1, TombstonesTrimmed
<1>10. PeersForgotten(g, s) = [m_removed |-> kept, m_horizon |-> horizon]
  BY <1>6, <1>7, <1>8 DEF PeersForgotten
<1>20. PICK w : w = PeersForgotten(g, s)
  OBVIOUS
<1>21. w.m_removed = kept /\ w.m_horizon = horizon
  BY <1>10, <1>20
<1>22. h = [g EXCEPT !.m_frame = f, !.m_peers = is, !.m_removed = w.m_removed, !.m_horizon = w.m_horizon]
  BY <1>1, <1>2, <1>4, <1>20 DEF PeerUpdate
<1>11. h = [g EXCEPT !.m_frame = f, !.m_peers = is, !.m_removed = kept, !.m_horizon = horizon]
  BY <1>21, <1>22
<1>12. h = [m_ih |-> g.m_ih, m_frame |-> f, m_horizon |-> horizon, m_peers |-> is, m_removed |-> kept]
  BY <1>11 DEF PeerHistory
<1>13. /\ Len(kept) <= MaxTombstones /\ horizon \in from .. f + 1 /\ horizon \in Nat
       /\ \A i \in DOMAIN kept : i \in DOMAIN s /\ kept[i] = s[i]
       /\ \A i \in DOMAIN s : i \in DOMAIN kept \/ s[i].removed_frame < horizon
  BY <1>6, <1>9 DEF TrimmedTo
<1>14. /\ h.m_ih = g.m_ih /\ h.m_frame = f /\ h.m_horizon = horizon /\ h.m_peers = is /\ h.m_removed = kept
  BY <1>12
<1>15. h \in PeerHistory
  <2>1. g.m_ih \in Torrent
    BY DEF PeerHistory
  <2>. QED
    BY <1>3, <1>9, <1>12, <1>13, <2>1 DEF PeerHistory
<1>16. PeerFits(h)
  <2>1. NewestFirst(kept)
    BY <1>5, <1>13 DEF NewestFirst
  <2>2. \A i \in DOMAIN kept : kept[i].removed_frame \in 0 .. f /\ kept[i].id \notin DOMAIN is
    BY <1>3, <1>5, <1>13
  <2>. QED
    BY <1>3, <1>13, <1>14, <2>1, <2>2 DEF PeerFits
<1>17. EntriesUpdated(g, h, now)
  BY <1>3, <1>14 DEF EntriesUpdated
<1>18. StonesUpdated(g, h, now)
  <2>1. ASSUME NEW p \in DOMAIN g.m_peers \ DOMAIN now
        PROVE  f < horizon \/ \E i \in DOMAIN kept :
                 kept[i].removed_frame = f /\ kept[i].id = p /\ kept[i].added_frame = g.m_peers[p].added_frame
    <3>1. PICK i \in DOMAIN s : s[i].removed_frame = f /\ s[i].added_frame = g.m_peers[p].added_frame /\ s[i].id = p
      BY <1>5
    <3>. QED
      BY <1>13, <3>1
  <2>2. ASSUME NEW j \in DOMAIN g.m_removed, g.m_removed[j].id \notin DOMAIN now,
               ~(g.m_removed[j].removed_frame < horizon)
        PROVE  \E i \in DOMAIN kept : kept[i] = g.m_removed[j]
    <3>1. PICK i \in DOMAIN s : s[i] = g.m_removed[j]
      BY <1>5, <2>2
    <3>. QED
      BY <1>13, <2>2, <3>1
  <2>3. g.m_horizon <= horizon
    BY <1>6, <1>13
  <2>. QED
    BY <1>14, <2>1, <2>2, <2>3 DEF StonesUpdated
<1>. QED
  BY <1>1, <1>14, <1>15, <1>16, <1>17, <1>18

\* A row has the field of the peer, or the next answer has it.
CellCovers(table, e, k, x, f) ==
  e.frame[x] > f \/ (x \in DOMAIN table[k] /\ table[k][x] = e.info[x])

\* A table of frame f and what the next answer adds to it show the peers.  A row of
\* a peer that came once goes by its tombstone, or by a snapshot.
PeerCovered(h, came, f, table, mask) ==
  /\ f \in 1 .. h.m_frame
  /\ \A p \in DOMAIN h.m_peers :
       \/ h.m_peers[p].added_frame > f
       \/ RowKey(p) \in DOMAIN table /\ \A x \in mask : CellCovers(table, h.m_peers[p], RowKey(p), x, f)
  /\ \A p \in Peer : RowKey(p) = p /\ p \in DOMAIN table =>
       /\ came[p] >= 1
       /\ came[p] <= 1 =>
            IF p \in DOMAIN h.m_peers THEN h.m_peers[p].added_frame <= f
            ELSE f < h.m_horizon \/ \E i \in DOMAIN h.m_removed :
                   /\ h.m_removed[i].id = p /\ h.m_removed[i].added_frame <= f
                   /\ h.m_removed[i].removed_frame > f

\* A table that shows the peers.
PeerCurrent(h, came, table, mask) ==
  /\ \A p \in DOMAIN h.m_peers :
       /\ RowKey(p) \in DOMAIN table
       /\ \A x \in mask : x \in DOMAIN table[RowKey(p)] /\ table[RowKey(p)][x] = h.m_peers[p].info[x]
  /\ \A p \in Peer : RowKey(p) = p /\ p \in DOMAIN table =>
       came[p] >= 1 /\ (came[p] <= 1 => p \in DOMAIN h.m_peers)

\* How often each peer was new to a history, after an update.
CameAfter(g, h, came, after) ==
  /\ after \in [Peer -> Nat]
  /\ \A p \in Peer : after[p] = IF p \in DOMAIN h.m_peers \ DOMAIN g.m_peers THEN came[p] + 1 ELSE came[p]

\* What a history holds.
LEMMA PeerFieldsOf ==
  ASSUME NEW h \in PeerHistory
  PROVE  /\ DOMAIN h.m_peers \subseteq Peer
         /\ h.m_frame \in Nat /\ h.m_horizon \in Nat
         /\ \A p \in DOMAIN h.m_peers :
              /\ h.m_peers[p] \in PeerEntry /\ h.m_peers[p].added_frame \in Nat
              /\ \A x \in PeerField : h.m_peers[p].frame[x] \in Nat /\ h.m_peers[p].info[x] \in Values
         /\ \A i \in DOMAIN h.m_removed :
              /\ h.m_removed[i].added_frame \in Nat /\ h.m_removed[i].removed_frame \in Nat
              /\ h.m_removed[i].id \in Peer
<1>1. h.m_peers \in PeerEntrySets /\ h.m_removed \in Seq(PeerStone) /\ h.m_frame \in Nat /\ h.m_horizon \in Nat
  BY DEF PeerHistory
<1>2. DOMAIN h.m_peers \subseteq Peer /\ \A p \in DOMAIN h.m_peers : h.m_peers[p] \in PeerEntry
  BY <1>1 DEF PeerEntrySets
<1>3. \A e \in PeerEntry : e.added_frame \in Nat /\ \A x \in PeerField : e.frame[x] \in Nat /\ e.info[x] \in Values
  BY DEF PeerEntry
<1>4. \A i \in DOMAIN h.m_removed : h.m_removed[i] \in PeerStone
  BY <1>1
<1>5. \A e \in PeerStone : e.added_frame \in Nat /\ e.removed_frame \in Nat /\ e.id \in Peer
  BY DEF PeerStone
<1>. QED
  BY <1>1, <1>2, <1>3, <1>4, <1>5

\* An update leaves what covers a table.
LEMMA UpdateCovers ==
  ASSUME NEW g \in PeerHistory, PeerFits(g), NEW h \in PeerHistory, PeerFits(h), NEW now \in PeerSets,
         h.m_frame = g.m_frame + 1, EntriesUpdated(g, h, now), StonesUpdated(g, h, now),
         NEW came \in [Peer -> Nat], NEW after, CameAfter(g, h, came, after),
         NEW f, NEW table, NEW mask \in SUBSET PeerField, PeerCovered(g, came, f, table, mask)
  PROVE  PeerCovered(h, after, f, table, mask)
<1>1. /\ g.m_frame \in Nat /\ h.m_frame \in Nat /\ f \in 1 .. g.m_frame /\ f < h.m_frame /\ f \in 1 .. h.m_frame
  BY PeerFieldsOf DEF PeerCovered
<1>2. DOMAIN h.m_peers = DOMAIN now /\ DOMAIN now \subseteq Peer
  BY PeerFieldsOf DEF EntriesUpdated
<1>3. ASSUME NEW p \in DOMAIN h.m_peers
      PROVE  \/ h.m_peers[p].added_frame > f
             \/ RowKey(p) \in DOMAIN table /\ \A x \in mask : CellCovers(table, h.m_peers[p], RowKey(p), x, f)
  <2>1. CASE p \notin DOMAIN g.m_peers
    BY <1>1, <1>2, <2>1 DEF EntriesUpdated
  <2>2. CASE p \in DOMAIN g.m_peers /\ g.m_peers[p].added_frame > f
    BY <1>2, <2>2 DEF EntriesUpdated
  <2>3. CASE /\ p \in DOMAIN g.m_peers /\ RowKey(p) \in DOMAIN table
             /\ \A x \in mask : CellCovers(table, g.m_peers[p], RowKey(p), x, f)
    <3>1. ASSUME NEW x \in mask PROVE CellCovers(table, h.m_peers[p], RowKey(p), x, f)
      <4>1. CellCovers(table, g.m_peers[p], RowKey(p), x, f)
        BY <2>3
      <4>2. \/ h.m_peers[p].frame[x] = h.m_frame
            \/ h.m_peers[p].frame[x] = g.m_peers[p].frame[x] /\ h.m_peers[p].info[x] = g.m_peers[p].info[x]
        BY <1>2, <2>3 DEF EntriesUpdated
      <4>. QED
        BY <1>1, <4>1, <4>2 DEF CellCovers
    <3>. QED
      BY <2>3, <3>1
  <2>. QED
    BY <2>1, <2>2, <2>3 DEF PeerCovered
<1>4. ASSUME NEW p \in Peer, RowKey(p) = p, p \in DOMAIN table PROVE after[p] >= 1
  BY <1>4 DEF PeerCovered, CameAfter
<1>5. ASSUME NEW p \in Peer, RowKey(p) = p, p \in DOMAIN table, after[p] <= 1
      PROVE  IF p \in DOMAIN h.m_peers THEN h.m_peers[p].added_frame <= f
             ELSE f < h.m_horizon \/ \E i \in DOMAIN h.m_removed :
                    /\ h.m_removed[i].id = p /\ h.m_removed[i].added_frame <= f
                    /\ h.m_removed[i].removed_frame > f
  <2>1. came[p] \in Nat /\ came[p] >= 1
    BY <1>5 DEF PeerCovered
  <2>2. ~(p \in DOMAIN h.m_peers /\ p \notin DOMAIN g.m_peers) /\ came[p] <= 1
    BY <1>5, <2>1 DEF CameAfter
  <2>3. IF p \in DOMAIN g.m_peers THEN g.m_peers[p].added_frame <= f
        ELSE f < g.m_horizon \/ \E i \in DOMAIN g.m_removed :
               /\ g.m_removed[i].id = p /\ g.m_removed[i].added_frame <= f
               /\ g.m_removed[i].removed_frame > f
    BY <1>5, <2>2 DEF PeerCovered
  <2>4. g.m_horizon <= h.m_horizon /\ g.m_horizon \in Nat /\ h.m_horizon \in Nat
    BY PeerFieldsOf DEF StonesUpdated
  <2>5. CASE p \in DOMAIN h.m_peers
    BY <1>2, <2>2, <2>3, <2>5 DEF EntriesUpdated
  <2>6. CASE p \notin DOMAIN h.m_peers /\ p \in DOMAIN g.m_peers
    <3>1. \/ h.m_frame < h.m_horizon
          \/ \E i \in DOMAIN h.m_removed :
               /\ h.m_removed[i].removed_frame = h.m_frame /\ h.m_removed[i].id = p
               /\ h.m_removed[i].added_frame = g.m_peers[p].added_frame
      BY <1>2, <2>6 DEF StonesUpdated
    <3>2. CASE h.m_frame < h.m_horizon
      BY <1>1, <2>4, <2>6, <3>2
    <3>3. CASE \E i \in DOMAIN h.m_removed :
                 /\ h.m_removed[i].removed_frame = h.m_frame /\ h.m_removed[i].id = p
                 /\ h.m_removed[i].added_frame = g.m_peers[p].added_frame
      BY <1>1, <2>3, <2>6, <3>3
    <3>. QED
      BY <3>1, <3>2, <3>3
  <2>7. CASE p \notin DOMAIN h.m_peers /\ p \notin DOMAIN g.m_peers
    <3>1. CASE f < g.m_horizon
      BY <1>1, <2>4, <2>7, <3>1
    <3>2. ASSUME NEW j \in DOMAIN g.m_removed, g.m_removed[j].id = p, g.m_removed[j].added_frame <= f,
                 g.m_removed[j].removed_frame > f
          PROVE  f < h.m_horizon \/ \E i \in DOMAIN h.m_removed :
                   /\ h.m_removed[i].id = p /\ h.m_removed[i].added_frame <= f
                   /\ h.m_removed[i].removed_frame > f
      <4>1. \/ g.m_removed[j].removed_frame < h.m_horizon
            \/ \E i \in DOMAIN h.m_removed : h.m_removed[i] = g.m_removed[j]
        BY <1>2, <2>7, <3>2 DEF StonesUpdated
      <4>2. g.m_removed[j].removed_frame \in Nat
        BY PeerFieldsOf
      <4>3. CASE g.m_removed[j].removed_frame < h.m_horizon
        BY <1>1, <2>4, <3>2, <4>2, <4>3
      <4>4. CASE \E i \in DOMAIN h.m_removed : h.m_removed[i] = g.m_removed[j]
        BY <3>2, <4>4
      <4>. QED
        BY <4>1, <4>3, <4>4
    <3>. QED
      BY <2>3, <2>7, <3>1, <3>2
  <2>. QED
    BY <2>5, <2>6, <2>7
<1>. QED
  BY <1>1, <1>3, <1>4, <1>5 DEF PeerCovered

\* A table that shows the peers is covered with the frame of the history.
LEMMA CurrentCovers ==
  ASSUME NEW h \in PeerHistory, PeerFits(h), h.m_frame >= 1, NEW came, NEW table, NEW mask,
         PeerCurrent(h, came, table, mask)
  PROVE  PeerCovered(h, came, h.m_frame, table, mask)
<1>1. h.m_frame \in 1 .. h.m_frame
  BY PeerFieldsOf
<1>2. \A p \in DOMAIN h.m_peers : h.m_peers[p].added_frame <= h.m_frame
  BY DEF PeerFits
<1>. QED
  BY <1>1, <1>2 DEF PeerCurrent, PeerCovered, CellCovers
PeerChangeSets == UNION {[S -> PeerRow] : S \in SUBSET Peer}

\* The rows once updates were applied to old ones.
RowsAre(old, updates, removed, new) ==
  /\ DOMAIN new = (DOMAIN old \cup {RowKey(p) : p \in DOMAIN updates}) \ removed
  /\ \A p \in DOMAIN updates : RowKey(p) \in DOMAIN new =>
       /\ \A x \in DOMAIN updates[p] :
            x \in DOMAIN new[RowKey(p)] /\ new[RowKey(p)][x] = updates[p][x]
       /\ RowKey(p) \in DOMAIN old => \A x \in DOMAIN old[RowKey(p)] \ DOMAIN updates[p] :
            x \in DOMAIN new[RowKey(p)] /\ new[RowKey(p)][x] = old[RowKey(p)][x]
  /\ \A k \in DOMAIN new : k \notin {RowKey(p) : p \in DOMAIN updates} => new[k] = old[k]

\* RowsApplied() makes the rows of old ones, updates and what was removed.
LEMMA RowsAppliedAre ==
  ASSUME NEW table \in PeerTable, NEW r, r.updates \in PeerChangeSets,
         NEW old, old = IF r.snapshot THEN NoOne ELSE table,
         NEW new, new = RowsApplied(table, r)
  PROVE  new \in PeerTable /\ RowsAre(old, r.updates, r.removed, new)
<1>1. PICK D \in SUBSET Peer : r.updates \in [D -> PeerRow]
  BY DEF PeerChangeSets
<1>2. PICK us \in [D -> PeerRow] : us = r.updates
  BY <1>1
<1>3. PICK K \in SUBSET Key : old \in [K -> PeerRow]
  <2>1. NoOne \in [{} -> PeerRow]
    BY DEF NoOne
  <2>2. old = NoOne \/ old = table
    OBVIOUS
  <2>. QED
    BY <2>1, <2>2 DEF PeerTable
<1>4. PICK updated \in SUBSET Key : updated = {RowKey(p) : p \in D}
  BY DEF Key
<1>5. PICK N \in SUBSET Key : N = (K \cup updated) \ r.removed
  OBVIOUS
<1>. DEFINE Row(k) == IF k \in DOMAIN old THEN old[k] ELSE NoOne
            Sent(k) == us[CHOOSE p \in DOMAIN us : RowKey(p) = k]
            Both(k) == [x \in DOMAIN Row(k) \cup DOMAIN Sent(k) |->
                          IF x \in DOMAIN Sent(k) THEN Sent(k)[x] ELSE Row(k)[x]]
            Cells(k) == IF k \in {RowKey(p) : p \in DOMAIN us} THEN Both(k) ELSE Row(k)
<1>13. DOMAIN old = K /\ DOMAIN us = D
  BY <1>3
<1>6. new = [k \in N |-> Cells(k)]
  <2>1. new = [k \in (DOMAIN old \cup {RowKey(p) : p \in DOMAIN us}) \ r.removed |-> Cells(k)]
    BY <1>2 DEF RowsApplied
  <2>. QED
    BY <1>4, <1>5, <1>13, <2>1
<1>7. \A k : Row(k) \in PeerRow
  <2>1. NoOne \in [{} -> Values]
    BY DEF NoOne
  <2>2. NoOne \in PeerRow
    BY <2>1 DEF PeerRow
  <2>. QED
    BY <1>3, <1>13, <2>2
<1>8. \A p \in D : Sent(RowKey(p)) = us[p]
  <2>1. \A p, q \in D : RowKey(p) = RowKey(q) => p = q
    BY KeysDiffer
  <2>. QED
    BY <1>13, <2>1
<1>9. ASSUME NEW a \in PeerRow, NEW b \in PeerRow, NEW c,
             c = [x \in DOMAIN a \cup DOMAIN b |-> IF x \in DOMAIN b THEN b[x] ELSE a[x]]
      PROVE  /\ c \in PeerRow
             /\ \A x \in DOMAIN b : x \in DOMAIN c /\ c[x] = b[x]
             /\ \A x \in DOMAIN a \ DOMAIN b : x \in DOMAIN c /\ c[x] = a[x]
  <2>1. PICK A \in SUBSET PeerField, B \in SUBSET PeerField : a \in [A -> Values] /\ b \in [B -> Values]
    BY DEF PeerRow
  <2>2. PICK C \in SUBSET PeerField : C = A \cup B
    OBVIOUS
  <2>3. c = [x \in C |-> IF x \in B THEN b[x] ELSE a[x]]
    BY <1>9, <2>1, <2>2
  <2>4. c \in [C -> Values]
    BY <2>1, <2>2, <2>3
  <2>. QED
    BY <2>1, <2>2, <2>3, <2>4 DEF PeerRow
<1>10. ASSUME NEW p \in D
       PROVE  /\ Both(RowKey(p)) \in PeerRow
              /\ \A x \in DOMAIN us[p] :
                   x \in DOMAIN Both(RowKey(p)) /\ Both(RowKey(p))[x] = us[p][x]
              /\ RowKey(p) \in K => \A x \in DOMAIN old[RowKey(p)] \ DOMAIN us[p] :
                   x \in DOMAIN Both(RowKey(p)) /\ Both(RowKey(p))[x] = old[RowKey(p)][x]
  <2>1. PICK a \in PeerRow : a = Row(RowKey(p))
    BY <1>7
  <2>2. PICK b \in PeerRow : b = us[p]
    OBVIOUS
  <2>3. PICK c : c = Both(RowKey(p))
    OBVIOUS
  <2>4. c = [x \in DOMAIN a \cup DOMAIN b |-> IF x \in DOMAIN b THEN b[x] ELSE a[x]]
    BY <1>8, <2>1, <2>2, <2>3
  <2>5. /\ c \in PeerRow
        /\ \A x \in DOMAIN b : x \in DOMAIN c /\ c[x] = b[x]
        /\ \A x \in DOMAIN a \ DOMAIN b : x \in DOMAIN c /\ c[x] = a[x]
    BY <1>9, <2>4
  <2>6. RowKey(p) \in K => a = old[RowKey(p)]
    BY <1>13, <2>1
  <2>7. \A x \in DOMAIN us[p] : x \in DOMAIN c /\ c[x] = us[p][x]
    BY <2>2, <2>5
  <2>8. RowKey(p) \in K =>
          \A x \in DOMAIN old[RowKey(p)] \ DOMAIN us[p] : x \in DOMAIN c /\ c[x] = old[RowKey(p)][x]
    BY <2>2, <2>5, <2>6
  <2>. QED
    BY <2>3, <2>5, <2>7, <2>8
<1>. HIDE DEF Both, Row
<1>11. \A k \in N : Cells(k) \in PeerRow
  BY <1>4, <1>7, <1>10, <1>13
<1>12. new \in [N -> PeerRow]
  BY <1>6, <1>11
<1>18. DOMAIN new = N
  BY <1>12
<1>14. \A k \in N : k \notin updated => new[k] = old[k]
  BY <1>4, <1>5, <1>6, <1>13 DEF Row
<1>15. \A p \in D : RowKey(p) \in N => new[RowKey(p)] = Both(RowKey(p))
  BY <1>4, <1>6, <1>13
<1>16. RowsAre(old, us, r.removed, new)
  <2>1. DOMAIN new = (DOMAIN old \cup {RowKey(p) : p \in DOMAIN us}) \ r.removed
    BY <1>4, <1>5, <1>13, <1>18
  <2>2. \A p \in DOMAIN us : RowKey(p) \in DOMAIN new =>
          /\ \A x \in DOMAIN us[p] : x \in DOMAIN new[RowKey(p)] /\ new[RowKey(p)][x] = us[p][x]
          /\ RowKey(p) \in DOMAIN old => \A x \in DOMAIN old[RowKey(p)] \ DOMAIN us[p] :
               x \in DOMAIN new[RowKey(p)] /\ new[RowKey(p)][x] = old[RowKey(p)][x]
    BY <1>10, <1>13, <1>15, <1>18
  <2>3. \A k \in DOMAIN new : k \notin {RowKey(p) : p \in DOMAIN us} => new[k] = old[k]
    BY <1>4, <1>13, <1>14, <1>18
  <2>. QED
    BY <2>1, <2>2, <2>3 DEF RowsAre
<1>17. new \in PeerTable
  BY <1>12 DEF PeerTable
<1>. QED
  BY <1>2, <1>16, <1>17

\* What a poll sends of a history of frame f or later.
QueryIs(h, f, mask, r) ==
  /\ r.frame = h.m_frame /\ r.updates \in PeerChangeSets
  /\ DOMAIN r.updates \subseteq DOMAIN h.m_peers
  /\ \A p \in DOMAIN r.updates : \A x \in DOMAIN r.updates[p] : r.updates[p][x] = h.m_peers[p].info[x]
  /\ r.removed \cap DOMAIN h.m_peers = {}
  /\ r.snapshot \in BOOLEAN
  /\ r.snapshot => r.removed = {} /\ \A p \in DOMAIN h.m_peers : p \in DOMAIN r.updates /\ mask \subseteq DOMAIN r.updates[p]
  /\ ~r.snapshot =>
       /\ f >= h.m_horizon
       /\ r.removed \subseteq Peer
       /\ \A p \in DOMAIN h.m_peers :
            /\ h.m_peers[p].added_frame > f => p \in DOMAIN r.updates /\ mask \subseteq DOMAIN r.updates[p]
            /\ \A x \in mask : h.m_peers[p].frame[x] > f => p \in DOMAIN r.updates /\ x \in DOMAIN r.updates[p]
       /\ \A i \in DOMAIN h.m_removed :
            h.m_removed[i].removed_frame > f /\ h.m_removed[i].added_frame <= f => h.m_removed[i].id \in r.removed

\* PeerQuery() sends what changed after the frame, or everything.
LEMMA PeerQueryIs ==
  ASSUME NEW h \in PeerHistory, PeerFits(h), NEW f \in Nat, NEW mask \in SUBSET PeerField,
         NEW r, r = PeerQuery(h, f, mask)
  PROVE  QueryIs(h, f, mask, r)
<1>1. PICK ps : ps = h.m_peers
  OBVIOUS
<1>2. PICK D \in SUBSET Peer : D = DOMAIN ps
  BY <1>1, PeerFieldsOf
<1>3. PICK since \in Nat : since = IF f < h.m_horizon THEN 0 ELSE f
  OBVIOUS
<1>4. PICK sent : sent = [p \in D |-> PeerFields(ps[p], since, mask)]
  OBVIOUS
<1>5. PICK updated \in SUBSET D :
        updated = {p \in D : since = 0 \/ ps[p].added_frame > since \/ sent[p] # {}}
  OBVIOUS
<1>6. PICK updates : updates = [p \in updated |-> [x \in sent[p] |-> ps[p].info[x]]]
  OBVIOUS
<1>7. PICK removed : removed = IF since = 0 THEN {} ELSE PeersRemoved(h, since)
  OBVIOUS
<1>8. r = [frame |-> h.m_frame, snapshot |-> since = 0, updates |-> updates, removed |-> removed]
  BY <1>1, <1>2, <1>3, <1>4, <1>5, <1>6, <1>7 DEF PeerQuery
<1>9. r.frame = h.m_frame /\ r.snapshot = (since = 0) /\ r.updates = updates /\ r.removed = removed
  BY <1>8
<1>10. \A p \in D :
         /\ sent[p] \subseteq mask /\ ps[p].added_frame \in Nat
         /\ ps[p].added_frame > since => sent[p] = mask
         /\ \A x \in mask : ps[p].frame[x] > since => x \in sent[p]
  BY <1>1, <1>2, <1>4, PeerFieldsOf DEF PeerFields
<1>11. DOMAIN updates = updated /\ \A p \in updated : updates[p] = [x \in sent[p] |-> ps[p].info[x]]
  BY <1>6
<1>12. updates \in PeerChangeSets
  <2>1. ASSUME NEW p \in updated PROVE updates[p] \in PeerRow
    <3>1. PICK S \in SUBSET PeerField : S = sent[p]
      BY <1>10
    <3>2. \A x \in S : ps[p].info[x] \in Values
      BY <1>1, <1>2, PeerFieldsOf
    <3>3. updates[p] \in [S -> Values]
      BY <1>11, <3>1, <3>2
    <3>. QED
      BY <3>3 DEF PeerRow
  <2>2. updates \in [updated -> PeerRow]
    BY <1>6, <1>11, <2>1
  <2>3. updated \in SUBSET Peer
    BY <1>5
  <2>. QED
    BY <2>2, <2>3 DEF PeerChangeSets
<1>13. \A p \in D : since = 0 \/ ps[p].added_frame > since \/ sent[p] # {} => p \in updated
  BY <1>5
<1>14. removed \subseteq {h.m_removed[i].id : i \in DOMAIN h.m_removed}
  BY <1>7 DEF PeersRemoved
<1>15. removed \cap D = {} /\ removed \subseteq Peer
  BY <1>1, <1>2, <1>14, PeerFieldsOf DEF PeerFits
<1>16. ASSUME since = 0 PROVE \A p \in D : p \in updated /\ mask \subseteq DOMAIN updates[p]
  <2>1. \A p \in D : ps[p].added_frame > since
    BY <1>1, <1>2, <1>16, PeerFieldsOf DEF PeerFits
  <2>. QED
    BY <1>10, <1>11, <1>13, <2>1
<1>17. ASSUME NEW p \in D, ps[p].added_frame > since PROVE p \in updated /\ mask \subseteq DOMAIN updates[p]
  BY <1>10, <1>11, <1>13, <1>17
<1>18. ASSUME NEW p \in D, NEW x \in mask, ps[p].frame[x] > since PROVE p \in updated /\ x \in DOMAIN updates[p]
  BY <1>10, <1>11, <1>13, <1>18
<1>19. ASSUME NEW i \in DOMAIN h.m_removed, since # 0, h.m_removed[i].removed_frame > since,
              h.m_removed[i].added_frame <= since
       PROVE  h.m_removed[i].id \in removed
  <2>1. PICK n \in Nat : n = Len(h.m_removed) /\ DOMAIN h.m_removed = 1 .. n
    BY DEF PeerHistory
  <2>2. ASSUME NEW k \in 1 .. i PROVE h.m_removed[k].removed_frame > since
    <3>1. k \in DOMAIN h.m_removed /\ (k < i \/ k = i)
      BY <2>1
    <3>2. h.m_removed[k].removed_frame >= h.m_removed[i].removed_frame
      BY <3>1, PeerFieldsOf DEF PeerFits, NewestFirst
    <3>. QED
      BY <1>19, <3>1, <3>2, PeerFieldsOf
  <2>. QED
    BY <1>7, <1>19, <2>2 DEF PeersRemoved
<1>20. since # 0 => since = f /\ f >= h.m_horizon
  BY <1>3, PeerFieldsOf
<1>21. \A p \in DOMAIN r.updates : \A x \in DOMAIN r.updates[p] : r.updates[p][x] = h.m_peers[p].info[x]
  BY <1>1, <1>9, <1>11
<1>22. r.snapshot => r.removed = {} /\ \A p \in DOMAIN h.m_peers : p \in DOMAIN r.updates /\ mask \subseteq DOMAIN r.updates[p]
  BY <1>1, <1>2, <1>7, <1>9, <1>11, <1>16
<1>23. ASSUME ~r.snapshot
       PROVE  /\ f >= h.m_horizon /\ r.removed \subseteq Peer
              /\ \A p \in DOMAIN h.m_peers :
                   /\ h.m_peers[p].added_frame > f => p \in DOMAIN r.updates /\ mask \subseteq DOMAIN r.updates[p]
                   /\ \A x \in mask : h.m_peers[p].frame[x] > f => p \in DOMAIN r.updates /\ x \in DOMAIN r.updates[p]
              /\ \A i \in DOMAIN h.m_removed :
                   h.m_removed[i].removed_frame > f /\ h.m_removed[i].added_frame <= f => h.m_removed[i].id \in r.removed
  <2>1. since # 0 /\ since = f /\ f >= h.m_horizon
    BY <1>9, <1>20, <1>23
  <2>2. \A i \in DOMAIN h.m_removed :
          h.m_removed[i].removed_frame > f /\ h.m_removed[i].added_frame <= f => h.m_removed[i].id \in r.removed
    BY <1>9, <1>19, <2>1
  <2>3. \A p \in DOMAIN h.m_peers :
          /\ h.m_peers[p].added_frame > f => p \in DOMAIN r.updates /\ mask \subseteq DOMAIN r.updates[p]
          /\ \A x \in mask : h.m_peers[p].frame[x] > f => p \in DOMAIN r.updates /\ x \in DOMAIN r.updates[p]
    BY <1>1, <1>2, <1>9, <1>11, <1>17, <1>18, <2>1
  <2>. QED
    BY <1>9, <1>15, <2>1, <2>2, <2>3
<1>24. r.removed \cap DOMAIN h.m_peers = {} /\ DOMAIN r.updates \subseteq DOMAIN h.m_peers /\ r.snapshot \in BOOLEAN
  BY <1>1, <1>2, <1>5, <1>9, <1>11, <1>15
<1>. QED
  BY <1>9, <1>12, <1>21, <1>22, <1>23, <1>24 DEF QueryIs

\* An answer makes a table that the history covers one that shows the peers.
LEMMA AnswerCurrent ==
  ASSUME NEW h \in PeerHistory, NEW came, \A p \in DOMAIN h.m_peers : came[p] >= 1,
         NEW f \in Nat, NEW mask \in SUBSET PeerField, NEW table \in PeerTable,
         NEW r, QueryIs(h, f, mask, r), NEW new, new = RowsApplied(table, r),
         r.snapshot \/ PeerCovered(h, came, f, table, mask)
  PROVE  new \in PeerTable /\ PeerCurrent(h, came, new, mask)
<1>1. PICK old : old = IF r.snapshot THEN NoOne ELSE table
  OBVIOUS
<1>2. new \in PeerTable /\ RowsAre(old, r.updates, r.removed, new)
  BY <1>1, RowsAppliedAre DEF QueryIs
<1>3. DOMAIN h.m_peers \subseteq Peer /\ DOMAIN r.updates \subseteq DOMAIN h.m_peers /\ DOMAIN NoOne = {}
  BY PeerFieldsOf DEF QueryIs, NoOne
<1>4. \A p, q \in Peer : (RowKey(p) = RowKey(q) => p = q) /\ (RowKey(p) = q => p = q)
  BY KeysDiffer
<1>5. \A p \in DOMAIN r.updates : \A x \in DOMAIN r.updates[p] : r.updates[p][x] = h.m_peers[p].info[x]
  BY DEF QueryIs
<1>6. \A p \in DOMAIN h.m_peers : RowKey(p) \notin r.removed
  BY <1>3, <1>4 DEF QueryIs
<1>7. ASSUME NEW p \in DOMAIN h.m_peers
      PROVE  /\ RowKey(p) \in DOMAIN new
             /\ \A x \in mask : x \in DOMAIN new[RowKey(p)] /\ new[RowKey(p)][x] = h.m_peers[p].info[x]
  <2>1. CASE p \in DOMAIN r.updates /\ mask \subseteq DOMAIN r.updates[p]
    <3>1. RowKey(p) \in DOMAIN new
      BY <1>2, <1>6, <2>1 DEF RowsAre
    <3>. QED
      BY <1>2, <1>5, <2>1, <3>1 DEF RowsAre
  <2>2. CASE ~(p \in DOMAIN r.updates /\ mask \subseteq DOMAIN r.updates[p])
    <3>1. ~r.snapshot /\ old = table /\ ~(h.m_peers[p].added_frame > f)
      BY <1>1, <2>2 DEF QueryIs
    <3>2. RowKey(p) \in DOMAIN old /\ \A x \in mask : CellCovers(old, h.m_peers[p], RowKey(p), x, f)
      BY <3>1 DEF PeerCovered
    <3>3. RowKey(p) \in DOMAIN new
      BY <1>2, <1>6, <3>2 DEF RowsAre
    <3>4. ASSUME NEW x \in mask PROVE x \in DOMAIN new[RowKey(p)] /\ new[RowKey(p)][x] = h.m_peers[p].info[x]
      <4>1. CASE p \in DOMAIN r.updates /\ x \in DOMAIN r.updates[p]
        BY <1>2, <1>5, <3>3, <4>1 DEF RowsAre
      <4>2. CASE ~(p \in DOMAIN r.updates /\ x \in DOMAIN r.updates[p])
        <5>1. ~(h.m_peers[p].frame[x] > f)
          BY <3>1, <4>2 DEF QueryIs
        <5>2. x \in DOMAIN old[RowKey(p)] /\ old[RowKey(p)][x] = h.m_peers[p].info[x]
          BY <3>2, <5>1 DEF CellCovers
        <5>3. CASE p \in DOMAIN r.updates
          BY <1>2, <3>2, <3>3, <4>2, <5>2, <5>3 DEF RowsAre
        <5>4. CASE p \notin DOMAIN r.updates
          <6>1. RowKey(p) \notin {RowKey(q) : q \in DOMAIN r.updates}
            BY <1>3, <1>4, <5>4
          <6>2. new[RowKey(p)] = old[RowKey(p)]
            BY <1>2, <3>3, <6>1 DEF RowsAre
          <6>. QED
            BY <5>2, <6>2
        <5>. QED
          BY <5>3, <5>4
      <4>. QED
        BY <4>1, <4>2
    <3>. QED
      BY <3>3, <3>4
  <2>. QED
    BY <2>1, <2>2
<1>8. ASSUME NEW p \in Peer, RowKey(p) = p, p \in DOMAIN new
      PROVE  came[p] >= 1 /\ (came[p] <= 1 => p \in DOMAIN h.m_peers)
  <2>1. CASE p \in DOMAIN h.m_peers
    BY <2>1
  <2>2. CASE p \notin DOMAIN h.m_peers
    <3>1. p \in DOMAIN old \cup {RowKey(q) : q \in DOMAIN r.updates} /\ p \notin r.removed
      BY <1>2, <1>8 DEF RowsAre
    <3>2. p \notin {RowKey(q) : q \in DOMAIN r.updates}
      BY <1>3, <1>4, <2>2
    <3>3. p \in DOMAIN old /\ ~r.snapshot /\ old = table
      BY <1>1, <1>3, <3>1, <3>2
    <3>4. /\ came[p] >= 1
          /\ came[p] <= 1 => f < h.m_horizon \/ \E i \in DOMAIN h.m_removed :
               /\ h.m_removed[i].id = p /\ h.m_removed[i].added_frame <= f
               /\ h.m_removed[i].removed_frame > f
      BY <1>8, <2>2, <3>3 DEF PeerCovered
    <3>5. ~(f < h.m_horizon)
      BY <3>3, PeerFieldsOf DEF QueryIs
    <3>6. ~\E i \in DOMAIN h.m_removed :
               /\ h.m_removed[i].id = p /\ h.m_removed[i].added_frame <= f
               /\ h.m_removed[i].removed_frame > f
      BY <3>1, <3>3 DEF QueryIs
    <3>. QED
      BY <3>4, <3>5, <3>6
  <2>. QED
    BY <2>1, <2>2
<1>. QED
  BY <1>2, <1>7, <1>8 DEF PeerCurrent
PeerTypes ==
  /\ peers \in [Torrent -> PeerSets]
  /\ connects \in [Torrent -> [Peer -> Nat]] /\ comings \in [Torrent -> [Peer -> Nat]]
  /\ fetchedPeers \in [Client -> PeerFetch \cup {NoFetch}]
  /\ m_peer_histories \in Seq(PeerHistory) /\ IsCache(m_peer_histories)
  /\ rows \in [Client -> [Torrent -> PeerTable]]

PeerCopy(c, h) ==
  life[c][h.m_ih] = lives[h.m_ih] =>
    PeerCovered(h, comings[h.m_ih], frame[c][h.m_ih], rows[c][h.m_ih], PeerMask[c])

PeerGood(h) ==
  /\ PeerFits(h) /\ h.m_frame >= 1
  /\ \A p \in DOMAIN h.m_peers : comings[h.m_ih][p] >= 1
  /\ \A c \in Client : PeerCopy(c, h)

PeersGood == \A k \in DOMAIN m_peer_histories : PeerGood(m_peer_histories[k])

PeerInv ==
  /\ PeerTypes /\ PeersGood
  /\ IF tab = "peers" THEN PollTypeOK /\ LifeBehind ELSE m_peer_histories = <<>>

\* A new history has seen nobody.
LEMMA NewPeersFit ==
  ASSUME NEW t \in Torrent
  PROVE  NewPeerHistory(t) \in PeerHistory /\ PeerFits(NewPeerHistory(t)) /\ NewPeerHistory(t).m_ih = t
<1>1. NoOne \in [{} -> PeerEntry] /\ DOMAIN NoOne = {}
  BY DEF NoOne
<1>2. NoOne \in PeerEntrySets
  BY <1>1 DEF PeerEntrySets
<1>3. NewPeerHistory(t) \in PeerHistory
  BY <1>2 DEF NewPeerHistory, PeerHistory
<1>4. PeerFits(NewPeerHistory(t))
  BY <1>1, HistoryCacheAssumption DEF NewPeerHistory, PeerFits, NewestFirst
<1>. QED
  BY <1>3, <1>4 DEF NewPeerHistory

\* A client that is answered shows the peers as they were fetched, and the others
\* are covered as they were.
LEMMA AnswerPeersStep ==
  ASSUME PollTypeOK, LifeBehind, PeerTypes, PeersGood, NEW c \in Client, NEW t \in Torrent,
         AnswerPeers(c, t)
  PROVE  /\ PollTypeOK' /\ LifeBehind' /\ PeerTypes' /\ PeersGood'
         /\ SameLife(c, t) =>
              /\ \A p \in DOMAIN fetchedPeers[c].peers :
                   /\ RowKey(p) \in DOMAIN rows'[c][t]
                   /\ \A x \in PeerMask[c] : rows'[c][t][RowKey(p)][x] = fetchedPeers[c].peers[p][x]
              /\ \A p \in Peer \ DOMAIN fetchedPeers[c].peers :
                   RowKey(p) \in DOMAIN rows'[c][t] => RowKey(p) # p \/ comings'[t][p] > 1
<1>1. PICK cache \in Seq(PeerHistory) : cache = m_peer_histories
  BY DEF PeerTypes
<1>2. IsCache(cache) /\ \A k \in DOMAIN cache : cache[k] \in PeerHistory /\ PeerGood(cache[k])
  BY <1>1 DEF PeerTypes, PeersGood
<1>3. PICK g : g = HistoryOf(cache, t, NewPeerHistory(t))
  OBVIOUS
<1>4. PICK came \in [Peer -> Nat] : came = comings[t]
  BY DEF PeerTypes
<1>5. /\ g \in PeerHistory /\ PeerFits(g) /\ g.m_ih = t
      /\ \A p \in DOMAIN g.m_peers : came[p] >= 1
      /\ Known(cache, t) => \A d \in Client : PeerCopy(d, g)
  <2>1. CASE Known(cache, t)
    <3>1. PICK k \in DOMAIN cache : cache[k].m_ih = t /\ g = cache[k]
      BY <1>3, <2>1, HistoryFound
    <3>. QED
      BY <1>2, <1>4, <3>1 DEF PeerGood
  <2>2. CASE ~Known(cache, t)
    <3>1. g = NewPeerHistory(t)
      BY <1>3, <2>2, HistoryFound
    <3>2. DOMAIN g.m_peers = {}
      BY <3>1 DEF NewPeerHistory, NoOne
    <3>. QED
      BY <2>2, <3>1, <3>2, NewPeersFit
  <2>. QED
    BY <2>1, <2>2
<1>6. PICK now \in PeerSets : now = fetchedPeers[c].peers
  <2>1. fetchedPeers[c] \in PeerFetch
    BY DEF AnswerPeers, PeerTypes
  <2>. QED
    BY <2>1 DEF PeerFetch
<1>7. PICK mask \in SUBSET PeerField : mask = PeerMask[c]
  BY PeerUpdatesAssumption
<1>8. PICK h : h = PeerUpdate(g, now)
  OBVIOUS
<1>9. /\ h \in PeerHistory /\ PeerFits(h) /\ h.m_ih = t /\ h.m_frame = g.m_frame + 1
      /\ EntriesUpdated(g, h, now) /\ StonesUpdated(g, h, now)
  BY <1>5, <1>8, PeerUpdated
<1>10. g.m_frame \in Nat /\ h.m_frame \in Nat /\ h.m_frame >= 1
  BY <1>5, <1>9, PeerFieldsOf
<1>11. PICK since \in Nat : since = frame[c][t]
  BY DEF PollTypeOK
<1>12. PICK table \in PeerTable : table = rows[c][t]
  BY DEF PeerTypes
<1>13. PICK r : r = PeerQuery(h, since, mask)
  OBVIOUS
<1>14. QueryIs(h, since, mask, r) /\ r.frame = h.m_frame
  <2>1. QueryIs(h, since, mask, r)
    BY <1>9, <1>13, PeerQueryIs
  <2>. QED
    BY <2>1 DEF QueryIs
<1>15. PICK new : new = RowsApplied(table, r)
  OBVIOUS
<1>16. PICK after \in [Peer -> Nat] :
         after = [p \in Peer |-> IF p \in DOMAIN h.m_peers \ DOMAIN g.m_peers THEN came[p] + 1 ELSE came[p]]
  <2>1. \A p \in Peer : came[p] + 1 \in Nat /\ came[p] \in Nat
    OBVIOUS
  <2>2. [p \in Peer |-> IF p \in DOMAIN h.m_peers \ DOMAIN g.m_peers THEN came[p] + 1 ELSE came[p]] \in [Peer -> Nat]
    BY <2>1
  <2>. QED
    BY <2>2
<1>17. /\ Answered(cache, c, t, h.m_frame, r.snapshot)
       /\ m_peer_histories' = Used(cache, h)
       /\ comings' = [comings EXCEPT ![t] = after]
       /\ rows' = [rows EXCEPT ![c][t] = new]
       /\ fetchedPeers' = [fetchedPeers EXCEPT ![c] = NoFetch]
       /\ UNCHANGED <<peers, connects, peerChanges>>
  <2>1. /\ Answered(cache, c, t, r.frame, r.snapshot)
        /\ m_peer_histories' = Used(cache, h)
        /\ comings' = [comings EXCEPT ![t] = [p \in Peer |->
             IF p \in DOMAIN h.m_peers \ DOMAIN g.m_peers THEN came[p] + 1 ELSE came[p]]]
        /\ rows' = [rows EXCEPT ![c][t] = new]
        /\ fetchedPeers' = [fetchedPeers EXCEPT ![c] = NoFetch]
        /\ UNCHANGED <<peers, connects, peerChanges>>
    BY <1>1, <1>3, <1>4, <1>6, <1>7, <1>8, <1>11, <1>12, <1>13, <1>15 DEF AnswerPeers, peerSource, PeerTypes
  <2>. QED
    BY <1>14, <1>16, <2>1
<1>18. PollTypeOK' /\ LifeBehind' /\ Polled(cache, c, t, h.m_frame, r.snapshot)
  BY <1>10, <1>17, AnsweredStep
<1>19. /\ frame'[c][t] = h.m_frame
       /\ lives'[t] = IF Known(cache, t) THEN lives[t] ELSE lives[t] + 1
       /\ ~r.snapshot => life'[c][t] = life[c][t]
       /\ \A u \in Torrent : u # t => lives'[u] = lives[u]
       /\ \A d \in Client, u \in Torrent : d # c \/ u # t =>
            frame'[d][u] = frame[d][u] /\ life'[d][u] = life[d][u]
  BY <1>18 DEF Polled
<1>20. \A d \in Client, u \in Torrent :
         lives[u] \in Nat /\ life[d][u] \in Nat /\ life[d][u] <= lives[u]
  BY DEF PollTypeOK, LifeBehind
<1>21. CameAfter(g, h, came, after)
  BY <1>16 DEF CameAfter
<1>22. \A p \in DOMAIN h.m_peers : after[p] >= 1
  BY <1>5, <1>9, <1>16, PeerFieldsOf
<1>23. ASSUME NEW f, NEW old, NEW m \in SUBSET PeerField, PeerCovered(g, came, f, old, m)
       PROVE  PeerCovered(h, after, f, old, m)
  BY <1>5, <1>9, <1>21, <1>23, UpdateCovers
<1>24. new \in PeerTable
  <2>1. PICK old : old = IF r.snapshot THEN NoOne ELSE table
    OBVIOUS
  <2>. QED
    BY <1>14, <1>15, <2>1, RowsAppliedAre DEF QueryIs
<1>25. SameLife(c, t) => PeerCurrent(h, after, new, mask)
  <2>. SUFFICES ASSUME SameLife(c, t) PROVE PeerCurrent(h, after, new, mask)
    OBVIOUS
  <2>1. r.snapshot \/ PeerCovered(h, after, since, table, mask)
    <3>. SUFFICES ASSUME ~r.snapshot PROVE PeerCovered(h, after, since, table, mask)
      OBVIOUS
    <3>1. Known(cache, t) /\ life[c][t] = lives[t]
      BY <1>19, <1>20 DEF SameLife
    <3>2. PeerCovered(g, came, since, table, mask)
      BY <1>4, <1>5, <1>7, <1>11, <1>12, <3>1 DEF PeerCopy
    <3>. QED
      BY <1>23, <3>2
  <2>. QED
    BY <1>9, <1>14, <1>15, <1>22, <2>1, AnswerCurrent
<1>26. /\ comings' \in [Torrent -> [Peer -> Nat]] /\ comings'[t] = after
       /\ \A u \in Torrent : u # t => comings'[u] = comings[u]
  BY <1>17 DEF PeerTypes
<1>27. /\ rows' \in [Client -> [Torrent -> PeerTable]] /\ rows'[c][t] = new
       /\ \A d \in Client, u \in Torrent : d # c \/ u # t => rows'[d][u] = rows[d][u]
  BY <1>17, <1>24 DEF PeerTypes
<1>28. \A d \in Client : PeerCopy(d, h)'
  <2>. SUFFICES ASSUME NEW d \in Client, life'[d][t] = lives'[t]
                PROVE  PeerCovered(h, after, frame'[d][t], rows'[d][t], PeerMask[d])
    BY <1>9, <1>26 DEF PeerCopy
  <2>1. CASE d = c
    <3>1. PeerCurrent(h, after, new, mask)
      BY <1>25, <2>1 DEF SameLife
    <3>2. PeerCovered(h, after, h.m_frame, new, mask)
      BY <1>9, <1>10, <3>1, CurrentCovers
    <3>. QED
      BY <1>7, <1>19, <1>27, <2>1, <3>2
  <2>2. CASE d # c
    <3>1. Known(cache, t) /\ life[d][t] = lives[t]
      BY <1>19, <1>20, <2>2
    <3>2. PeerCovered(g, came, frame[d][t], rows[d][t], PeerMask[d])
      BY <1>4, <1>5, <3>1 DEF PeerCopy
    <3>3. PeerMask[d] \in SUBSET PeerField
      BY PeerUpdatesAssumption
    <3>. QED
      BY <1>19, <1>23, <1>27, <2>2, <3>2, <3>3
  <2>. QED
    BY <2>1, <2>2
<1>29. PeerGood(h)'
  <2>1. \A p \in DOMAIN h.m_peers : comings'[h.m_ih][p] >= 1
    BY <1>9, <1>22, <1>26
  <2>. QED
    BY <1>9, <1>10, <1>28, <2>1 DEF PeerGood
<1>30. ASSUME NEW e \in PeerHistory, PeerGood(e), e.m_ih # t PROVE PeerGood(e)'
  <2>1. e.m_ih \in Torrent
    BY DEF PeerHistory
  <2>2. ASSUME NEW d \in Client
        PROVE  /\ frame'[d][e.m_ih] = frame[d][e.m_ih] /\ life'[d][e.m_ih] = life[d][e.m_ih]
               /\ rows'[d][e.m_ih] = rows[d][e.m_ih] /\ lives'[e.m_ih] = lives[e.m_ih]
               /\ comings'[e.m_ih] = comings[e.m_ih]
    BY <1>19, <1>26, <1>27, <1>30, <2>1
  <2>3. ASSUME NEW d \in Client PROVE PeerCopy(d, e)'
    BY <1>30, <2>2 DEF PeerGood, PeerCopy
  <2>4. \A p \in DOMAIN e.m_peers : comings'[e.m_ih][p] >= 1
    BY <1>26, <1>30, <2>1 DEF PeerGood
  <2>. QED
    BY <1>30, <2>3, <2>4 DEF PeerGood
<1>. DEFINE Fresh(n) == /\ n \in Seq(PeerHistory) /\ IsCache(n)
                        /\ \A k \in DOMAIN n : n[k] = h \/ \E j \in DOMAIN cache : n[k] = cache[j] /\ cache[j].m_ih # h.m_ih
<1>31. Fresh(Used(cache, h))
  <2>1. IsCache(cache) /\ h \in PeerHistory /\ h.m_ih \in Torrent
    BY <1>2, <1>9
  <2>. QED
    BY <2>1, UsedFirst
<1>. HIDE DEF Fresh
<1>32. PICK n : n = m_peer_histories' /\ Fresh(n)
  BY <1>17, <1>31
<1>33. ASSUME NEW k \in DOMAIN n PROVE PeerGood(n[k])'
  <2>1. CASE n[k] = h
    BY <1>29, <2>1
  <2>2. CASE \E j \in DOMAIN cache : n[k] = cache[j] /\ cache[j].m_ih # h.m_ih
    <3>1. PICK e \in PeerHistory : e = n[k] /\ PeerGood(e) /\ e.m_ih # t
      BY <1>2, <1>9, <2>2
    <3>2. PeerGood(e)'
      BY <1>30, <3>1
    <3>. QED
      BY <3>1, <3>2
  <2>. QED
    BY <1>32, <2>1, <2>2 DEF Fresh
<1>34. PeersGood'
  BY <1>32, <1>33 DEF PeersGood
<1>35. fetchedPeers' \in [Client -> PeerFetch \cup {NoFetch}]
  BY <1>17 DEF PeerTypes
<1>36. PeerTypes'
  BY <1>17, <1>26, <1>27, <1>32, <1>35 DEF PeerTypes, Fresh
<1>37. ASSUME SameLife(c, t)
       PROVE  /\ \A p \in DOMAIN now : RowKey(p) \in DOMAIN new /\ \A x \in mask : new[RowKey(p)][x] = now[p][x]
              /\ \A p \in Peer \ DOMAIN now : RowKey(p) \in DOMAIN new => RowKey(p) # p \/ after[p] > 1
  <2>1. PeerCurrent(h, after, new, mask)
    BY <1>25, <1>37
  <2>2. DOMAIN h.m_peers = DOMAIN now /\ \A p \in DOMAIN now : h.m_peers[p].info = now[p]
    BY <1>9 DEF EntriesUpdated
  <2>. QED
    BY <1>16, <2>1, <2>2 DEF PeerCurrent
<1>. QED
  BY <1>6, <1>7, <1>18, <1>26, <1>27, <1>34, <1>36, <1>37

\* Who connects, changes or leaves is not seen before it is fetched.
LEMMA PeerEventStep ==
  ASSUME PeerTypes, PeersGood, NEW t \in Torrent,
         \/ \E p \in Peer : PeerConnects(t, p) \/ PeerDisconnects(t, p) \/ \E x \in PeerField : PeerChanges(t, p, x)
         \/ \E c \in Client : FetchPeers(c, t)
  PROVE  PeerTypes' /\ PeersGood' /\ UNCHANGED <<m_peer_histories, rows, comings, pollVars>>
<1>1. UNCHANGED <<m_peer_histories, rows, comings, pollVars>>
  BY DEF PeerConnects, PeerDisconnects, PeerChanges, FetchPeers
<1>2. PeersGood'
  BY <1>1 DEF PeersGood, PeerGood, PeerCopy, pollVars
<1>3. PICK ps \in PeerSets : ps = peers[t]
  BY DEF PeerTypes
<1>4. PICK S \in SUBSET Peer : ps \in [S -> [PeerField -> Values]]
  BY DEF PeerSets
<1>5. peers' \in [Torrent -> PeerSets] /\ connects' \in [Torrent -> [Peer -> Nat]]
  <2>1. ASSUME NEW p \in Peer, PeerConnects(t, p)
        PROVE  peers' \in [Torrent -> PeerSets] /\ connects' \in [Torrent -> [Peer -> Nat]]
    <3>1. PICK qs : qs = [q \in DOMAIN ps \cup {p} |-> IF q = p THEN [x \in PeerField |-> 0] ELSE ps[q]]
      OBVIOUS
    <3>2. qs \in [S \cup {p} -> [PeerField -> Values]]
      <4>1. [x \in PeerField |-> 0] \in [PeerField -> Values]
        BY DEF Values
      <4>2. DOMAIN ps = S
        BY <1>4
      <4>. QED
        BY <1>4, <3>1, <4>1, <4>2
    <3>3. S \cup {p} \in SUBSET Peer
      OBVIOUS
    <3>4. qs \in PeerSets
      BY <3>2, <3>3 DEF PeerSets
    <3>5. peers' = [peers EXCEPT ![t] = qs] /\ connects' = [connects EXCEPT ![t][p] = @ + 1]
      BY <1>3, <2>1, <3>1 DEF PeerConnects, PeerTypes
    <3>. QED
      BY <3>4, <3>5 DEF PeerTypes
  <2>2. ASSUME NEW p \in Peer, PeerDisconnects(t, p)
        PROVE  peers' \in [Torrent -> PeerSets] /\ connects' \in [Torrent -> [Peer -> Nat]]
    <3>1. PICK qs : qs = [q \in DOMAIN ps \ {p} |-> ps[q]]
      OBVIOUS
    <3>2. qs \in [S \ {p} -> [PeerField -> Values]]
      <4>1. DOMAIN ps = S
        BY <1>4
      <4>. QED
        BY <1>4, <3>1, <4>1
    <3>3. S \ {p} \in SUBSET Peer
      OBVIOUS
    <3>4. qs \in PeerSets
      BY <3>2, <3>3 DEF PeerSets
    <3>5. peers' = [peers EXCEPT ![t] = qs] /\ connects' = connects
      BY <1>3, <2>2, <3>1 DEF PeerDisconnects, PeerTypes
    <3>. QED
      BY <3>4, <3>5 DEF PeerTypes
  <2>3. ASSUME NEW p \in Peer, NEW x \in PeerField, PeerChanges(t, p, x)
        PROVE  peers' \in [Torrent -> PeerSets] /\ connects' \in [Torrent -> [Peer -> Nat]]
    <3>1. PICK qs : qs = [ps EXCEPT ![p][x] = 1 - @]
      OBVIOUS
    <3>2. p \in S
      BY <1>3, <1>4, <2>3 DEF PeerChanges
    <3>3. 1 - ps[p][x] \in Values
      BY <1>4, <3>2 DEF Values
    <3>4. qs \in [S -> [PeerField -> Values]]
      BY <1>4, <3>1, <3>2, <3>3
    <3>5. qs \in PeerSets
      BY <3>4 DEF PeerSets
    <3>6. peers' = [peers EXCEPT ![t] = qs] /\ connects' = connects
      BY <1>3, <2>3, <3>1 DEF PeerChanges, PeerTypes
    <3>. QED
      BY <3>5, <3>6 DEF PeerTypes
  <2>4. CASE \E c \in Client : FetchPeers(c, t)
    BY <2>4 DEF FetchPeers, PeerTypes, peerSource
  <2>. QED
    BY <2>1, <2>2, <2>3, <2>4
<1>6. fetchedPeers' \in [Client -> PeerFetch \cup {NoFetch}]
  <2>1. CASE fetchedPeers' = fetchedPeers
    BY <2>1 DEF PeerTypes
  <2>2. CASE \E c \in Client : FetchPeers(c, t)
    <3>1. PICK r : r = [ih |-> t, peers |-> ps]
      OBVIOUS
    <3>2. PICK c \in Client : fetchedPeers' = [fetchedPeers EXCEPT ![c] = r]
      BY <1>3, <2>2, <3>1 DEF FetchPeers
    <3>3. r \in PeerFetch
      BY <3>1 DEF PeerFetch
    <3>. QED
      BY <3>2, <3>3 DEF PeerTypes
  <2>. QED
    BY <2>1, <2>2 DEF PeerConnects, PeerDisconnects, PeerChanges
<1>7. PeerTypes'
  BY <1>1, <1>5, <1>6 DEF PeerTypes, IsCache
<1>. QED
  BY <1>1, <1>2, <1>7

\* At the start there is no peer, and no history.
LEMMA PeerInitInv ==
  ASSUME Init
  PROVE  PeerInv
<1>1. PeerInit /\ tab \in Tab
  BY DEF Init
<1>2. PollTypeOK /\ LifeBehind
  BY <1>1, PollInitTypes DEF PeerInit
<1>3. IsCache(<<>>)
  BY HistoryCacheAssumption DEF IsCache
<1>4. /\ peers = [t \in Torrent |-> NoOne]
      /\ connects = [t \in Torrent |-> [p \in Peer |-> 0]]
      /\ fetchedPeers = [c \in Client |-> NoFetch] /\ m_peer_histories = <<>>
      /\ comings = [t \in Torrent |-> [p \in Peer |-> 0]]
      /\ rows = [c \in Client |-> [t \in Torrent |-> NoOne]]
  BY <1>1 DEF PeerInit
<1>5. NoOne \in PeerSets /\ NoOne \in PeerTable
  <2>1. NoOne \in [{} -> [PeerField -> Values]] /\ NoOne \in [{} -> PeerRow]
    BY DEF NoOne
  <2>. QED
    BY <2>1 DEF PeerSets, PeerTable
<1>6. PeerTypes
  BY <1>3, <1>4, <1>5 DEF PeerTypes
<1>7. PeersGood
  BY <1>4 DEF PeersGood
<1>. QED
  BY <1>2, <1>4, <1>6, <1>7 DEF PeerInv

\* Every step keeps what the page of peers rests on.
LEMMA PeerNextInv ==
  ASSUME PeerInv, [Next]_tabsVars
  PROVE  PeerInv'
<1>1. ASSUME UNCHANGED <<tab, peerOwn>>, tab = "peers" => UNCHANGED pollVars PROVE PeerInv'
  <2>1. UNCHANGED <<tab, peers, connects, peerChanges, fetchedPeers, m_peer_histories, comings, rows>>
    BY <1>1 DEF peerOwn, peerSource
  <2>2. PeerTypes'
    BY <2>1 DEF PeerInv, PeerTypes, IsCache
  <2>3. CASE tab = "peers"
    <3>1. UNCHANGED <<polls, lives, frame, life>>
      BY <1>1, <2>3 DEF pollVars
    <3>2. PollTypeOK' /\ LifeBehind'
      BY <2>3, <3>1 DEF PeerInv, PollTypeOK, LifeBehind
    <3>3. PeersGood'
      BY <2>1, <3>1 DEF PeerInv, PeersGood, PeerGood, PeerCopy
    <3>. QED
      BY <2>1, <2>2, <2>3, <3>2, <3>3 DEF PeerInv
  <2>4. CASE tab # "peers"
    <3>1. m_peer_histories' = <<>>
      BY <2>1, <2>4 DEF PeerInv
    <3>. QED
      BY <2>1, <2>2, <2>4, <3>1 DEF PeerInv, PeersGood
  <2>. QED
    BY <2>3, <2>4
<1>2. ASSUME tab = "peers", tab' = tab, PeerNext PROVE PeerInv'
  <2>1. PeerTypes /\ PeersGood /\ PollTypeOK /\ LifeBehind
    BY <1>2 DEF PeerInv
  <2>2. ASSUME NEW t \in Torrent,
               \/ \E p \in Peer : PeerConnects(t, p) \/ PeerDisconnects(t, p) \/ \E x \in PeerField : PeerChanges(t, p, x)
               \/ \E c \in Client : FetchPeers(c, t)
        PROVE  PeerInv'
    <3>1. PeerTypes' /\ PeersGood' /\ UNCHANGED pollVars
      BY <2>1, <2>2, PeerEventStep
    <3>2. PollTypeOK' /\ LifeBehind'
      BY <2>1, <3>1 DEF PollTypeOK, LifeBehind, pollVars
    <3>. QED
      BY <1>2, <3>1, <3>2 DEF PeerInv
  <2>3. ASSUME NEW c \in Client, NEW t \in Torrent, AnswerPeers(c, t) PROVE PeerInv'
    <3>1. PollTypeOK' /\ LifeBehind' /\ PeerTypes' /\ PeersGood'
      BY <2>1, <2>3, AnswerPeersStep
    <3>. QED
      BY <1>2, <3>1 DEF PeerInv
  <2>. QED
    BY <1>2, <2>2, <2>3, HistoryCacheAssumption DEF PeerNext
<1>3. CASE UNCHANGED tabsVars
  BY <1>1, <1>3 DEF tabsVars
<1>4. CASE Next
  <2>1. CASE tab = "peers" /\ PeerNext
    BY <1>2, <1>4, <2>1 DEF Next
  <2>2. CASE tab # "peers" /\ UNCHANGED peerOwn
    BY <1>1, <1>4, <2>2 DEF Next
  <2>. QED
    BY <1>4, <2>1, <2>2 DEF Next
<1>. QED
  BY <1>3, <1>4

\* In every behaviour a client of the page of peers shows each peer and field that
\* is not after its frame, and the history still knows of those that left.
THEOREM PeerInvariant == Spec => []PeerInv
<1>1. Init => PeerInv
  BY PeerInitInv
<1>2. PeerInv /\ [Next]_tabsVars => PeerInv'
  BY PeerNextInv
<1>. QED
  BY <1>1, <1>2, PTL DEF Spec

\* A client that is answered shows the peers its call fetched, with their fields, and
\* none of those that are gone unless its identifier is negative on the page or it
\* came more than once.
THEOREM PeersAreShown == Spec => PeersShown
<1>. DEFINE Shown == \A c \in Client, t \in Torrent :
                       AnswerPeers(c, t) /\ SameLife(c, t) =>
                         LET now == fetchedPeers[c].peers
                             table == rows'[c][t]
                         IN  /\ \A p \in DOMAIN now :
                                  /\ RowKey(p) \in DOMAIN table
                                  /\ \A x \in PeerMask[c] : table[RowKey(p)][x] = now[p][x]
                             /\ \A p \in Peer \ DOMAIN now :
                                  RowKey(p) \in DOMAIN table => RowKey(p) # p \/ comings'[t][p] > 1
<1>1. ASSUME PeerInv, [Next]_tabsVars PROVE [Shown]_peerVars
  <2>1. CASE tab = "peers"
    <3>1. PeerTypes /\ PeersGood /\ PollTypeOK /\ LifeBehind
      BY <1>1, <2>1 DEF PeerInv
    <3>2. Shown
      BY <3>1, AnswerPeersStep
    <3>. QED
      BY <3>2
  <2>2. CASE tab # "peers"
    <3>1. UNCHANGED fetchedPeers /\ PeerTypes
      BY <1>1, <2>2 DEF Next, tabsVars, peerOwn, PeerInv
    <3>2. ASSUME NEW c \in Client, NEW t \in Torrent, AnswerPeers(c, t) PROVE FALSE
      BY <3>1, <3>2 DEF AnswerPeers, PeerTypes
    <3>. QED
      BY <3>2
  <2>. QED
    BY <2>1, <2>2
<1>. QED
  BY <1>1, PeerInvariant, PTL DEF Spec, PeersShown

-----------------------------------------------------------------------------
(* PieceUpdates                                                            *)

BlockMaps == UNION {[Block(p) -> BlockState] : p \in Piece}
Queues == {q \in UNION {[S -> BlockMaps] : S \in SUBSET Piece} : IsQueue(q)}
AnyPieceEntry == UNION {PieceEntry(p) : p \in Piece}
PieceEntrySets ==
  {m \in UNION {[S -> AnyPieceEntry] : S \in SUBSET Piece} : \A p \in DOMAIN m : m[p] \in PieceEntry(p)}
PieceHistory ==
  [m_ih: Torrent, m_frame: Nat, m_horizon: Nat, m_pieces: PieceEntrySets, m_removed: Seq(PieceTombstone)]

\* The tombstones are of pieces that are not there, the newest in front.
PieceFits(h) ==
  /\ h.m_horizon <= h.m_frame + 1
  /\ \A p \in DOMAIN h.m_pieces : h.m_pieces[p].added_frame \in 1 .. h.m_frame
  /\ Len(h.m_removed) <= MaxTombstones /\ NewestFirst(h.m_removed)
  /\ \A i \in DOMAIN h.m_removed :
       h.m_removed[i].removed_frame \in 0 .. h.m_frame /\ h.m_removed[i].piece_index \notin DOMAIN h.m_pieces

\* A map of pieces whose values fit the pieces is one of the queues, or entry sets.
LEMMA QueueOf ==
  ASSUME NEW S \in SUBSET Piece, NEW q, q = [p \in S |-> q[p]]
  PROVE  /\ (\A p \in S : q[p] \in [Block(p) -> BlockState]) => q \in Queues
         /\ (\A p \in S : q[p] \in PieceEntry(p)) => q \in PieceEntrySets
<1>1. DOMAIN q = S
  OBVIOUS
<1>2. ASSUME \A p \in S : q[p] \in [Block(p) -> BlockState] PROVE q \in Queues
  <2>1. \A p \in S : q[p] \in BlockMaps
    BY <1>2 DEF BlockMaps
  <2>2. q \in [S -> BlockMaps]
    BY <2>1
  <2>3. IsQueue(q)
    BY <1>1, <1>2 DEF IsQueue
  <2>. QED
    BY <2>2, <2>3 DEF Queues
<1>3. ASSUME \A p \in S : q[p] \in PieceEntry(p) PROVE q \in PieceEntrySets
  <2>1. \A p \in S : q[p] \in AnyPieceEntry
    BY <1>3 DEF AnyPieceEntry
  <2>2. q \in [S -> AnyPieceEntry]
    BY <2>1
  <2>. QED
    BY <1>1, <1>3, <2>2 DEF PieceEntrySets
<1>. QED
  BY <1>2, <1>3

\* What a queue, an entry and a tombstone hold.
LEMMA PieceFieldsOf ==
  /\ \A q \in Queues : /\ DOMAIN q \subseteq Piece /\ q = [p \in DOMAIN q |-> q[p]]
                       /\ \A p \in DOMAIN q : q[p] \in [Block(p) -> BlockState]
  /\ \A h \in PieceHistory :
       /\ DOMAIN h.m_pieces \subseteq Piece /\ \A p \in DOMAIN h.m_pieces : h.m_pieces[p] \in PieceEntry(p)
       /\ h.m_frame \in Nat /\ h.m_horizon \in Nat /\ h.m_ih \in Torrent
       /\ h.m_removed \in Seq(PieceTombstone)
       /\ \A i \in DOMAIN h.m_removed :
            /\ h.m_removed[i].added_frame \in Nat /\ h.m_removed[i].removed_frame \in Nat
            /\ h.m_removed[i].piece_index \in Piece
  /\ \A p \in Piece : \A e \in PieceEntry(p) :
       /\ e.added_frame \in Nat /\ DOMAIN e.blocks = Block(p)
       /\ \A b \in Block(p) : e.blocks[b].frame \in Nat /\ e.blocks[b].state \in BlockState
<1>1. ASSUME NEW q \in Queues
      PROVE  /\ DOMAIN q \subseteq Piece /\ q = [p \in DOMAIN q |-> q[p]]
             /\ \A p \in DOMAIN q : q[p] \in [Block(p) -> BlockState]
  <2>1. PICK S \in SUBSET Piece : q \in [S -> BlockMaps]
    BY DEF Queues
  <2>2. IsQueue(q)
    BY DEF Queues
  <2>. QED
    BY <2>1, <2>2 DEF IsQueue
<1>2. ASSUME NEW h \in PieceHistory
      PROVE  /\ DOMAIN h.m_pieces \subseteq Piece /\ \A p \in DOMAIN h.m_pieces : h.m_pieces[p] \in PieceEntry(p)
             /\ h.m_frame \in Nat /\ h.m_horizon \in Nat /\ h.m_ih \in Torrent
             /\ h.m_removed \in Seq(PieceTombstone)
             /\ \A i \in DOMAIN h.m_removed :
                  /\ h.m_removed[i].added_frame \in Nat /\ h.m_removed[i].removed_frame \in Nat
                  /\ h.m_removed[i].piece_index \in Piece
  <2>1. /\ h.m_pieces \in PieceEntrySets /\ h.m_removed \in Seq(PieceTombstone)
        /\ h.m_frame \in Nat /\ h.m_horizon \in Nat /\ h.m_ih \in Torrent
    BY DEF PieceHistory
  <2>2. DOMAIN h.m_pieces \subseteq Piece /\ \A p \in DOMAIN h.m_pieces : h.m_pieces[p] \in PieceEntry(p)
    BY <2>1 DEF PieceEntrySets
  <2>3. \A i \in DOMAIN h.m_removed : h.m_removed[i] \in PieceTombstone
    BY <2>1
  <2>4. \A e \in PieceTombstone : e.added_frame \in Nat /\ e.removed_frame \in Nat /\ e.piece_index \in Piece
    BY DEF PieceTombstone
  <2>. QED
    BY <2>1, <2>2, <2>3, <2>4
<1>3. ASSUME NEW p \in Piece, NEW e \in PieceEntry(p)
      PROVE  /\ e.added_frame \in Nat /\ DOMAIN e.blocks = Block(p)
             /\ \A b \in Block(p) : e.blocks[b].frame \in Nat /\ e.blocks[b].state \in BlockState
  <2>1. e.added_frame \in Nat /\ e.blocks \in [Block(p) -> [state: BlockState, frame: Nat]]
    BY DEF PieceEntry
  <2>. QED
    BY <2>1
<1>. QED
  BY <1>1, <1>2, <1>3

\* Pieces that left have a tombstone in front, those that are there have none.
PiecesBuriedIn(h, q, f, s) ==
  /\ \A i \in DOMAIN s : s[i].removed_frame \in 0 .. f /\ s[i].piece_index \notin DOMAIN q
  /\ \A p \in DOMAIN h.m_pieces \ DOMAIN q : \E i \in DOMAIN s :
       s[i].removed_frame = f /\ s[i].added_frame = h.m_pieces[p].added_frame /\ s[i].piece_index = p
  /\ \A j \in DOMAIN h.m_removed :
       h.m_removed[j].piece_index \in DOMAIN q \/ \E i \in DOMAIN s : s[i] = h.m_removed[j]

\* An update buries the pieces that left and clears the tombstones of the others.
LEMMA PiecesBuriedAre ==
  ASSUME NEW h \in PieceHistory, PieceFits(h), NEW q \in Queues, NEW f, f = h.m_frame + 1,
         NEW s, s = PiecesCleared(h, q, PiecesBuried(h, q, f))
  PROVE  s \in Seq(PieceTombstone) /\ NewestFirst(s) /\ PiecesBuriedIn(h, q, f, s)
<1>1. PICK was \in PieceEntrySets : was = h.m_pieces
  BY DEF PieceHistory
<1>2. PICK old \in Seq(PieceTombstone) : old = h.m_removed
  BY DEF PieceHistory
<1>3. h.m_frame \in Nat /\ f \in Nat \ {0}
  BY DEF PieceHistory
<1>4. DOMAIN was \subseteq Piece /\ \A p \in DOMAIN was : was[p].added_frame \in Nat
  BY <1>1, PieceFieldsOf
<1>5. PICK gone : gone = Reverse(Ascending(DOMAIN was \ DOMAIN q))
  OBVIOUS
<1>6. /\ gone \in Seq(DOMAIN was \ DOMAIN q)
      /\ \A p \in DOMAIN was \ DOMAIN q : \E i \in DOMAIN gone : gone[i] = p
  <2>1. DOMAIN was \ DOMAIN q \in SUBSET Nat /\ IsFiniteSet(DOMAIN was \ DOMAIN q)
    BY <1>4, FS_Subset, PieceUpdatesAssumption
  <2>. QED
    BY <1>5, <2>1, Descending
<1>. DEFINE Stone(p) == [removed_frame |-> f, added_frame |-> was[p].added_frame, piece_index |-> p]
<1>7. PICK first : first = [i \in DOMAIN gone |-> Stone(gone[i])]
  OBVIOUS
<1>8. \A p \in DOMAIN was : /\ Stone(p) \in PieceTombstone /\ Stone(p).removed_frame = f
                            /\ Stone(p).added_frame = was[p].added_frame /\ Stone(p).piece_index = p
  BY <1>3, <1>4 DEF PieceTombstone
<1>. HIDE DEF Stone
<1>9. PICK n \in Nat : n = Len(gone) /\ DOMAIN gone = 1 .. n /\ \A i \in 1 .. n : gone[i] \in DOMAIN was \ DOMAIN q
  BY <1>6
<1>10. first \in [1 .. n -> PieceTombstone]
  BY <1>7, <1>8, <1>9
<1>11. first \in Seq(PieceTombstone) /\ DOMAIN first = 1 .. n
  BY <1>10
<1>12. \A i \in 1 .. n : /\ first[i].removed_frame = f
                         /\ first[i].added_frame = was[first[i].piece_index].added_frame
                         /\ first[i].piece_index = gone[i]
  BY <1>7, <1>8, <1>9
<1>13. PICK stones : stones = first \o old
  OBVIOUS
<1>14. /\ NewestFirst(old)
       /\ \A i \in DOMAIN old : old[i].removed_frame \in 0 .. h.m_frame /\ old[i].piece_index \notin DOMAIN was
  BY <1>1, <1>2 DEF PieceFits
<1>15. /\ stones \in Seq(PieceTombstone) /\ NewestFirst(stones)
       /\ \A i \in DOMAIN stones : stones[i].removed_frame \in 0 .. f
       /\ \A i \in DOMAIN stones :
            (\E j \in DOMAIN first : stones[i] = first[j]) \/ (\E j \in DOMAIN old : stones[i] = old[j])
       /\ \A j \in DOMAIN first : \E i \in DOMAIN stones : stones[i] = first[j]
       /\ \A j \in DOMAIN old : \E i \in DOMAIN stones : stones[i] = old[j]
  <2>1. PICK z \in Nat : z = h.m_frame /\ f = z + 1
    BY <1>3
  <2>2. \A i \in DOMAIN first : first[i].removed_frame = z + 1
    BY <1>11, <1>12, <2>1
  <2>3. \A i \in DOMAIN old : old[i].removed_frame \in 0 .. z
    BY <1>14, <2>1
  <2>4. NewestFirst(old)
    BY <1>14
  <2>5. /\ stones \in Seq(PieceTombstone) /\ NewestFirst(stones) /\ Joined(stones, first, old)
        /\ \A i \in DOMAIN stones : stones[i].removed_frame \in 0 .. z + 1
    BY <1>11, <1>13, <2>2, <2>3, <2>4, TombstonesBefore
  <2>. QED
    BY <2>1, <2>5 DEF Joined
<1>16. s = PiecesCleared(h, q, stones)
  BY <1>1, <1>2, <1>5, <1>7, <1>13 DEF PiecesBuried, Stone
<1>17. /\ s \in Seq(PieceTombstone) /\ NewestFirst(s)
       /\ \A i \in DOMAIN s : \E p \in DOMAIN stones : s[i] = stones[p] /\ stones[p].piece_index \notin DOMAIN q
       /\ \A p \in DOMAIN stones : stones[p].piece_index \notin DOMAIN q => \E i \in DOMAIN s : s[i] = stones[p]
  <2>1. CASE DOMAIN q \subseteq DOMAIN was
    <3>1. s = stones
      BY <1>1, <1>16, <2>1 DEF PiecesCleared
    <3>2. ASSUME NEW i \in DOMAIN stones PROVE stones[i].piece_index \notin DOMAIN q
      BY <1>9, <1>11, <1>12, <1>14, <1>15, <2>1
    <3>. QED
      BY <1>15, <3>1, <3>2
  <2>2. CASE ~(DOMAIN q \subseteq DOMAIN was)
    <3>1. PICK places \in SUBSET DOMAIN stones :
            places = {i \in DOMAIN stones : stones[i].piece_index \notin DOMAIN q}
      OBVIOUS
    <3>2. s = Picked(stones, places)
      BY <1>1, <1>16, <2>2, <3>1 DEF PiecesCleared
    <3>3. /\ s \in Seq(PieceTombstone)
          /\ \A i \in DOMAIN s : \E p \in places : s[i] = stones[p]
          /\ \A p \in places : \E i \in DOMAIN s : s[i] = stones[p]
          /\ \A i, j \in DOMAIN s : i < j => \E p, k \in places : p < k /\ s[i] = stones[p] /\ s[j] = stones[k]
      BY <1>15, <3>2, PickedElements
    <3>4. NewestFirst(s)
      <4>. SUFFICES ASSUME NEW i \in DOMAIN s, NEW j \in DOMAIN s, i < j
                    PROVE  s[i].removed_frame >= s[j].removed_frame
        BY DEF NewestFirst
      <4>1. PICK p \in places, k \in places : p < k /\ s[i] = stones[p] /\ s[j] = stones[k]
        BY <3>3
      <4>2. stones[p].removed_frame >= stones[k].removed_frame
        BY <1>15, <4>1 DEF NewestFirst
      <4>. QED
        BY <4>1, <4>2
    <3>. QED
      BY <3>1, <3>3, <3>4
  <2>. QED
    BY <2>1, <2>2
<1>18. \A i \in DOMAIN s : s[i].removed_frame \in 0 .. f /\ s[i].piece_index \notin DOMAIN q
  BY <1>15, <1>17
<1>19. ASSUME NEW p \in DOMAIN was \ DOMAIN q
       PROVE  \E i \in DOMAIN s :
                s[i].removed_frame = f /\ s[i].added_frame = was[p].added_frame /\ s[i].piece_index = p
  <2>1. PICK j \in DOMAIN first : first[j].piece_index = p
    BY <1>6, <1>9, <1>11, <1>12
  <2>2. first[j].removed_frame = f /\ first[j].added_frame = was[p].added_frame
    BY <1>11, <1>12, <2>1
  <2>3. PICK i \in DOMAIN stones : stones[i] = first[j]
    BY <1>15
  <2>4. PICK k \in DOMAIN s : s[k] = stones[i]
    BY <1>17, <2>1, <2>3
  <2>. QED
    BY <2>1, <2>2, <2>3, <2>4
<1>20. ASSUME NEW j \in DOMAIN old, old[j].piece_index \notin DOMAIN q PROVE \E i \in DOMAIN s : s[i] = old[j]
  <2>1. PICK i \in DOMAIN stones : stones[i] = old[j]
    BY <1>15
  <2>. QED
    BY <1>17, <1>20, <2>1
<1>. QED
  BY <1>1, <1>2, <1>17, <1>18, <1>19, <1>20 DEF PiecesBuriedIn

\* What an update does to the entries: the pieces are those of the queue, with the
\* states of their blocks, and what is new of them has the frame of the update.
PiecesUpdated(g, h, q) ==
  /\ DOMAIN h.m_pieces = DOMAIN q
  /\ \A p \in DOMAIN q :
       /\ \A b \in Block(p) : h.m_pieces[p].blocks[b].state = q[p][b]
       /\ p \notin DOMAIN g.m_pieces => h.m_pieces[p].added_frame = h.m_frame
       /\ p \in DOMAIN g.m_pieces =>
            /\ h.m_pieces[p].added_frame = g.m_pieces[p].added_frame
            /\ \A b \in Block(p) :
                 \/ h.m_pieces[p].blocks[b].frame = h.m_frame
                 \/ h.m_pieces[p].blocks[b] = g.m_pieces[p].blocks[b]

\* What it does to the tombstones: a piece that is gone has one, or the horizon is
\* past the frame at which it went.
PieceStonesUpdated(g, h, q) ==
  /\ g.m_horizon <= h.m_horizon
  /\ \A p \in DOMAIN g.m_pieces \ DOMAIN q :
       h.m_frame < h.m_horizon \/ \E i \in DOMAIN h.m_removed :
         /\ h.m_removed[i].removed_frame = h.m_frame /\ h.m_removed[i].piece_index = p
         /\ h.m_removed[i].added_frame = g.m_pieces[p].added_frame
  /\ \A j \in DOMAIN g.m_removed :
       \/ g.m_removed[j].piece_index \in DOMAIN q
       \/ g.m_removed[j].removed_frame < h.m_horizon
       \/ \E i \in DOMAIN h.m_removed : h.m_removed[i] = g.m_removed[j]

\* The entries after an update.
LEMMA PieceEntriesAre ==
  ASSUME NEW g \in PieceHistory, PieceFits(g), NEW q \in Queues, NEW f, f = g.m_frame + 1,
         NEW is, is = PieceEntries(g, q, f)
  PROVE  /\ is \in PieceEntrySets /\ DOMAIN is = DOMAIN q
         /\ \A p \in DOMAIN q :
              /\ \A b \in Block(p) : is[p].blocks[b].state = q[p][b]
              /\ is[p].added_frame \in 1 .. f
              /\ p \notin DOMAIN g.m_pieces => is[p].added_frame = f
              /\ p \in DOMAIN g.m_pieces =>
                   /\ is[p].added_frame = g.m_pieces[p].added_frame
                   /\ \A b \in Block(p) :
                        is[p].blocks[b].frame = f \/ is[p].blocks[b] = g.m_pieces[p].blocks[b]
<1>1. PICK was \in PieceEntrySets : was = g.m_pieces
  BY DEF PieceHistory
<1>2. f \in Nat \ {0} /\ g.m_frame \in Nat
  BY DEF PieceHistory
<1>3. /\ DOMAIN was \subseteq Piece
      /\ \A p \in DOMAIN was : was[p] \in PieceEntry(p) /\ was[p].added_frame \in 1 .. g.m_frame
  BY <1>1, PieceFieldsOf DEF PieceFits
<1>4. PICK D \in SUBSET Piece : D = DOMAIN q /\ \A p \in D : q[p] \in [Block(p) -> BlockState]
  BY PieceFieldsOf
<1>5. ASSUME NEW p \in D
      PROVE  /\ is[p] \in PieceEntry(p)
             /\ \A b \in Block(p) : is[p].blocks[b].state = q[p][b]
             /\ is[p].added_frame \in 1 .. f
             /\ p \notin DOMAIN was => is[p].added_frame = f
             /\ p \in DOMAIN was =>
                  /\ is[p].added_frame = was[p].added_frame
                  /\ \A b \in Block(p) :
                       is[p].blocks[b].frame = f \/ is[p].blocks[b] = was[p].blocks[b]
  <2>1. CASE p \notin DOMAIN was
    <3>1. PICK bs : bs = [b \in Block(p) |-> [state |-> q[p][b], frame |-> f]]
      OBVIOUS
    <3>2. is[p] = [added_frame |-> f, blocks |-> bs]
      BY <1>1, <1>4, <2>1, <3>1 DEF PieceEntries
    <3>3. bs \in [Block(p) -> [state: BlockState, frame: Nat]] /\ \A b \in Block(p) : bs[b].state = q[p][b]
      BY <1>2, <1>4, <3>1
    <3>. QED
      BY <1>2, <2>1, <3>2, <3>3 DEF PieceEntry
  <2>2. CASE p \in DOMAIN was
    <3>1. PICK e \in PieceEntry(p) : e = was[p] /\ e.added_frame \in 1 .. g.m_frame
      BY <1>3, <2>2
    <3>2. PICK bs : bs = [b \in Block(p) |-> IF e.blocks[b].state = q[p][b] THEN e.blocks[b]
                                             ELSE [state |-> q[p][b], frame |-> f]]
      OBVIOUS
    <3>3. is[p] = [e EXCEPT !.blocks = bs]
      BY <1>1, <1>4, <2>2, <3>1, <3>2 DEF PieceEntries, PieceEntry
    <3>4. is[p] = [added_frame |-> e.added_frame, blocks |-> bs]
      BY <3>3 DEF PieceEntry
    <3>5. e.blocks \in [Block(p) -> [state: BlockState, frame: Nat]]
      BY DEF PieceEntry
    <3>6. ASSUME NEW b \in Block(p)
          PROVE  /\ bs[b] \in [state: BlockState, frame: Nat] /\ bs[b].state = q[p][b]
                 /\ bs[b].frame = f \/ bs[b] = e.blocks[b]
      BY <1>2, <1>4, <3>2, <3>5
    <3>7. bs \in [Block(p) -> [state: BlockState, frame: Nat]]
      BY <3>2, <3>6
    <3>8. is[p] \in PieceEntry(p)
      BY <3>4, <3>7 DEF PieceEntry
    <3>9. e.added_frame \in 1 .. f
      BY <1>2, <3>1
    <3>10. is[p].added_frame = e.added_frame /\ is[p].blocks = bs
      BY <3>4
    <3>. QED
      BY <2>2, <3>1, <3>6, <3>8, <3>9, <3>10
  <2>. QED
    BY <2>1, <2>2
<1>6. is = [p \in D |-> is[p]]
  BY <1>4 DEF PieceEntries
<1>7. is \in PieceEntrySets
  BY <1>5, <1>6, QueueOf
<1>. QED
  BY <1>1, <1>4, <1>5, <1>6, <1>7

\* PieceUpdate() makes a history of the queue, and keeps account of what left it.
LEMMA PieceUpdatedIs ==
  ASSUME NEW g \in PieceHistory, PieceFits(g), NEW q \in Queues, NEW h, h = PieceUpdate(g, q)
  PROVE  /\ h \in PieceHistory /\ PieceFits(h) /\ h.m_ih = g.m_ih /\ h.m_frame = g.m_frame + 1
         /\ PiecesUpdated(g, h, q) /\ PieceStonesUpdated(g, h, q)
<1>1. PICK f \in Nat : f = g.m_frame + 1
  BY DEF PieceHistory
<1>2. PICK is : is = PieceEntries(g, q, f)
  OBVIOUS
<1>3. /\ is \in PieceEntrySets /\ DOMAIN is = DOMAIN q
      /\ \A p \in DOMAIN q :
           /\ \A b \in Block(p) : is[p].blocks[b].state = q[p][b]
           /\ is[p].added_frame \in 1 .. f
           /\ p \notin DOMAIN g.m_pieces => is[p].added_frame = f
           /\ p \in DOMAIN g.m_pieces =>
                /\ is[p].added_frame = g.m_pieces[p].added_frame
                /\ \A b \in Block(p) :
                     is[p].blocks[b].frame = f \/ is[p].blocks[b] = g.m_pieces[p].blocks[b]
  BY <1>1, <1>2, PieceEntriesAre
<1>4. PICK s : s = PiecesCleared(g, q, PiecesBuried(g, q, f))
  OBVIOUS
<1>5. s \in Seq(PieceTombstone) /\ NewestFirst(s) /\ PiecesBuriedIn(g, q, f, s)
  BY <1>1, <1>4, PiecesBuriedAre
<1>6. PICK from \in 0 .. f + 1 : from = g.m_horizon
  BY <1>1 DEF PieceHistory, PieceFits
<1>7. PICK kept : kept = SubSeq(s, 1, Min({MaxTombstones, Len(s)}))
  OBVIOUS
<1>8. PICK horizon :
        horizon = Max({from} \cup {s[i].removed_frame + 1 : i \in {j \in DOMAIN s : j > MaxTombstones}})
  OBVIOUS
<1>9. kept \in Seq(PieceTombstone) /\ TrimmedTo(s, kept, from, horizon, f)
  <2>1. \A i \in DOMAIN s : s[i].removed_frame \in 0 .. f
    BY <1>5 DEF PiecesBuriedIn
  <2>. QED
    BY <1>5, <1>7, <1>8, <2>1, TombstonesTrimmed
<1>10. PiecesKept(s) = kept /\ PieceHorizon(g, s) = horizon
  BY <1>6, <1>7, <1>8 DEF PiecesKept, PieceHorizon
<1>11. h = [g EXCEPT !.m_frame = f, !.m_pieces = is, !.m_removed = kept, !.m_horizon = horizon]
  BY <1>1, <1>2, <1>4, <1>10 DEF PieceUpdate
<1>12. h = [m_ih |-> g.m_ih, m_frame |-> f, m_horizon |-> horizon, m_pieces |-> is, m_removed |-> kept]
  BY <1>11 DEF PieceHistory
<1>13. /\ Len(kept) <= MaxTombstones /\ horizon \in from .. f + 1 /\ horizon \in Nat
       /\ \A i \in DOMAIN kept : i \in DOMAIN s /\ kept[i] = s[i]
       /\ \A i \in DOMAIN s : i \in DOMAIN kept \/ s[i].removed_frame < horizon
  BY <1>6, <1>9 DEF TrimmedTo
<1>14. /\ h.m_ih = g.m_ih /\ h.m_frame = f /\ h.m_horizon = horizon /\ h.m_pieces = is /\ h.m_removed = kept
  BY <1>12
<1>15. h \in PieceHistory
  <2>1. g.m_ih \in Torrent
    BY DEF PieceHistory
  <2>. QED
    BY <1>3, <1>9, <1>12, <1>13, <2>1 DEF PieceHistory
<1>16. PieceFits(h)
  <2>1. NewestFirst(kept)
    BY <1>5, <1>13 DEF NewestFirst
  <2>2. \A i \in DOMAIN kept : kept[i].removed_frame \in 0 .. f /\ kept[i].piece_index \notin DOMAIN is
    BY <1>3, <1>5, <1>13 DEF PiecesBuriedIn
  <2>. QED
    BY <1>3, <1>13, <1>14, <2>1, <2>2 DEF PieceFits
<1>17. PiecesUpdated(g, h, q)
  BY <1>3, <1>14 DEF PiecesUpdated
<1>18. PieceStonesUpdated(g, h, q)
  <2>1. ASSUME NEW p \in DOMAIN g.m_pieces \ DOMAIN q
        PROVE  f < horizon \/ \E i \in DOMAIN kept :
                 /\ kept[i].removed_frame = f /\ kept[i].piece_index = p
                 /\ kept[i].added_frame = g.m_pieces[p].added_frame
    <3>1. PICK i \in DOMAIN s :
            s[i].removed_frame = f /\ s[i].added_frame = g.m_pieces[p].added_frame /\ s[i].piece_index = p
      BY <1>5 DEF PiecesBuriedIn
    <3>. QED
      BY <1>13, <3>1
  <2>2. ASSUME NEW j \in DOMAIN g.m_removed, g.m_removed[j].piece_index \notin DOMAIN q,
               ~(g.m_removed[j].removed_frame < horizon)
        PROVE  \E i \in DOMAIN kept : kept[i] = g.m_removed[j]
    <3>1. PICK i \in DOMAIN s : s[i] = g.m_removed[j]
      BY <1>5, <2>2 DEF PiecesBuriedIn
    <3>. QED
      BY <1>13, <2>2, <3>1
  <2>3. g.m_horizon <= horizon
    BY <1>6, <1>13
  <2>. QED
    BY <1>14, <2>1, <2>2, <2>3 DEF PieceStonesUpdated
<1>. QED
  BY <1>1, <1>14, <1>15, <1>16, <1>17, <1>18

\* A view of frame f and what the next answer adds to it show the pieces.  A piece
\* that was in the queue once goes by its tombstone, or by a snapshot.
PieceCovered(h, q, begun, f, view) ==
  /\ f \in 1 .. h.m_frame
  /\ \A p \in DOMAIN h.m_pieces :
       \/ h.m_pieces[p].added_frame > f
       \/ p \in DOMAIN view /\ \A b \in Block(p) :
            h.m_pieces[p].blocks[b].frame > f \/ view[p][b] = h.m_pieces[p].blocks[b].state
  /\ \A p \in DOMAIN view : begun[p] <= 1 =>
       IF p \in DOMAIN h.m_pieces THEN h.m_pieces[p].added_frame <= f
       ELSE /\ p \notin DOMAIN q
            /\ f < h.m_horizon \/ \E i \in DOMAIN h.m_removed :
                 /\ h.m_removed[i].piece_index = p /\ h.m_removed[i].added_frame <= f
                 /\ h.m_removed[i].removed_frame > f

\* A view that shows the pieces.
PieceCurrent(h, begun, view) ==
  /\ \A p \in DOMAIN h.m_pieces :
       p \in DOMAIN view /\ \A b \in Block(p) : view[p][b] = h.m_pieces[p].blocks[b].state
  /\ \A p \in DOMAIN view : begun[p] <= 1 => p \in DOMAIN h.m_pieces

\* An update with the queue leaves what covers a view.
LEMMA PieceUpdateCovers ==
  ASSUME NEW g \in PieceHistory, PieceFits(g), NEW h \in PieceHistory, PieceFits(h), NEW q \in Queues,
         h.m_frame = g.m_frame + 1, PiecesUpdated(g, h, q), PieceStonesUpdated(g, h, q),
         NEW begun, NEW f, NEW view, PieceCovered(g, q, begun, f, view)
  PROVE  PieceCovered(h, q, begun, f, view)
<1>1. /\ g.m_frame \in Nat /\ h.m_frame \in Nat /\ f \in 1 .. g.m_frame /\ f < h.m_frame /\ f \in 1 .. h.m_frame
  BY PieceFieldsOf DEF PieceCovered
<1>2. DOMAIN h.m_pieces = DOMAIN q /\ DOMAIN q \subseteq Piece
  BY PieceFieldsOf DEF PiecesUpdated
<1>3. ASSUME NEW p \in DOMAIN h.m_pieces
      PROVE  \/ h.m_pieces[p].added_frame > f
             \/ p \in DOMAIN view /\ \A b \in Block(p) :
                  h.m_pieces[p].blocks[b].frame > f \/ view[p][b] = h.m_pieces[p].blocks[b].state
  <2>1. CASE p \notin DOMAIN g.m_pieces
    BY <1>1, <1>2, <2>1 DEF PiecesUpdated
  <2>2. CASE p \in DOMAIN g.m_pieces /\ g.m_pieces[p].added_frame > f
    BY <1>2, <2>2 DEF PiecesUpdated
  <2>3. CASE /\ p \in DOMAIN g.m_pieces /\ p \in DOMAIN view
             /\ \A b \in Block(p) :
                  g.m_pieces[p].blocks[b].frame > f \/ view[p][b] = g.m_pieces[p].blocks[b].state
    <3>1. ASSUME NEW b \in Block(p)
          PROVE  h.m_pieces[p].blocks[b].frame > f \/ view[p][b] = h.m_pieces[p].blocks[b].state
      <4>1. h.m_pieces[p].blocks[b].frame = h.m_frame \/ h.m_pieces[p].blocks[b] = g.m_pieces[p].blocks[b]
        BY <1>2, <2>3 DEF PiecesUpdated
      <4>. QED
        BY <1>1, <2>3, <4>1
    <3>. QED
      BY <2>3, <3>1
  <2>. QED
    BY <2>1, <2>2, <2>3 DEF PieceCovered
<1>4. ASSUME NEW p \in DOMAIN view, begun[p] <= 1
      PROVE  IF p \in DOMAIN h.m_pieces THEN h.m_pieces[p].added_frame <= f
             ELSE /\ p \notin DOMAIN q
                  /\ f < h.m_horizon \/ \E i \in DOMAIN h.m_removed :
                       /\ h.m_removed[i].piece_index = p /\ h.m_removed[i].added_frame <= f
                       /\ h.m_removed[i].removed_frame > f
  <2>1. IF p \in DOMAIN g.m_pieces THEN g.m_pieces[p].added_frame <= f
        ELSE /\ p \notin DOMAIN q
             /\ f < g.m_horizon \/ \E i \in DOMAIN g.m_removed :
                  /\ g.m_removed[i].piece_index = p /\ g.m_removed[i].added_frame <= f
                  /\ g.m_removed[i].removed_frame > f
    BY <1>4 DEF PieceCovered
  <2>2. g.m_horizon <= h.m_horizon /\ g.m_horizon \in Nat /\ h.m_horizon \in Nat
    BY PieceFieldsOf DEF PieceStonesUpdated
  <2>3. CASE p \in DOMAIN h.m_pieces
    BY <1>2, <2>1, <2>3 DEF PiecesUpdated
  <2>4. CASE p \notin DOMAIN h.m_pieces /\ p \in DOMAIN g.m_pieces
    <3>1. \/ h.m_frame < h.m_horizon
          \/ \E i \in DOMAIN h.m_removed :
               /\ h.m_removed[i].removed_frame = h.m_frame /\ h.m_removed[i].piece_index = p
               /\ h.m_removed[i].added_frame = g.m_pieces[p].added_frame
      BY <1>2, <2>4 DEF PieceStonesUpdated
    <3>2. CASE h.m_frame < h.m_horizon
      BY <1>1, <1>2, <2>2, <2>4, <3>2
    <3>3. CASE \E i \in DOMAIN h.m_removed :
                 /\ h.m_removed[i].removed_frame = h.m_frame /\ h.m_removed[i].piece_index = p
                 /\ h.m_removed[i].added_frame = g.m_pieces[p].added_frame
      BY <1>1, <1>2, <2>1, <2>4, <3>3
    <3>. QED
      BY <3>1, <3>2, <3>3
  <2>5. CASE p \notin DOMAIN h.m_pieces /\ p \notin DOMAIN g.m_pieces
    <3>1. CASE f < g.m_horizon
      BY <1>1, <1>2, <2>2, <2>5, <3>1
    <3>2. ASSUME NEW j \in DOMAIN g.m_removed, g.m_removed[j].piece_index = p,
                 g.m_removed[j].added_frame <= f, g.m_removed[j].removed_frame > f
          PROVE  f < h.m_horizon \/ \E i \in DOMAIN h.m_removed :
                   /\ h.m_removed[i].piece_index = p /\ h.m_removed[i].added_frame <= f
                   /\ h.m_removed[i].removed_frame > f
      <4>1. \/ g.m_removed[j].removed_frame < h.m_horizon
            \/ \E i \in DOMAIN h.m_removed : h.m_removed[i] = g.m_removed[j]
        BY <1>2, <2>5, <3>2 DEF PieceStonesUpdated
      <4>2. g.m_removed[j].removed_frame \in Nat
        BY PieceFieldsOf
      <4>3. CASE g.m_removed[j].removed_frame < h.m_horizon
        BY <1>1, <2>2, <3>2, <4>2, <4>3
      <4>4. CASE \E i \in DOMAIN h.m_removed : h.m_removed[i] = g.m_removed[j]
        BY <3>2, <4>4
      <4>. QED
        BY <4>1, <4>3, <4>4
    <3>. QED
      BY <1>2, <2>1, <2>5, <3>1, <3>2
  <2>. QED
    BY <2>3, <2>4, <2>5
<1>. QED
  BY <1>1, <1>3, <1>4 DEF PieceCovered

\* A view that shows the pieces is covered with the frame of the history.
LEMMA CurrentPiecesCover ==
  ASSUME NEW h \in PieceHistory, PieceFits(h), h.m_frame >= 1, NEW q, NEW begun, NEW view,
         PieceCurrent(h, begun, view)
  PROVE  PieceCovered(h, q, begun, h.m_frame, view)
<1>1. h.m_frame \in 1 .. h.m_frame
  BY PieceFieldsOf
<1>2. \A p \in DOMAIN h.m_pieces : h.m_pieces[p].added_frame <= h.m_frame
  BY DEF PieceFits
<1>. QED
  BY <1>1, <1>2 DEF PieceCurrent, PieceCovered

\* What a poll sends to a client of frame f.
PieceQueryIs(h, f, r) ==
  /\ r.frame = h.m_frame /\ r.is_snapshot \in BOOLEAN
  /\ DOMAIN r.full_pieces \subseteq DOMAIN h.m_pieces
  /\ \A p \in DOMAIN r.full_pieces : /\ r.full_pieces[p] \in [Block(p) -> BlockState]
                                     /\ \A b \in Block(p) : r.full_pieces[p][b] = h.m_pieces[p].blocks[b].state
  /\ DOMAIN r.block_updates = DOMAIN h.m_pieces \ DOMAIN r.full_pieces
  /\ \A p \in DOMAIN r.block_updates : \A b \in DOMAIN r.block_updates[p] :
       b \in Block(p) /\ r.block_updates[p][b] = h.m_pieces[p].blocks[b].state
  /\ r.removed \cap DOMAIN h.m_pieces = {}
  /\ r.is_snapshot => r.removed = {} /\ DOMAIN r.full_pieces = DOMAIN h.m_pieces
  /\ ~r.is_snapshot =>
       /\ f >= h.m_horizon
       /\ \A p \in DOMAIN h.m_pieces : h.m_pieces[p].added_frame > f => p \in DOMAIN r.full_pieces
       /\ \A p \in DOMAIN r.block_updates : \A b \in Block(p) :
            h.m_pieces[p].blocks[b].frame > f => b \in DOMAIN r.block_updates[p]
       /\ \A i \in DOMAIN h.m_removed :
            h.m_removed[i].removed_frame > f /\ h.m_removed[i].added_frame <= f =>
              h.m_removed[i].piece_index \in r.removed

\* PieceQuery() sends what changed after the frame, or everything.
LEMMA PieceQueryAnswers ==
  ASSUME NEW h \in PieceHistory, PieceFits(h), NEW f \in Nat, NEW r, r = PieceQuery(h, f)
  PROVE  PieceQueryIs(h, f, r)
<1>1. PICK ps : ps = h.m_pieces
  OBVIOUS
<1>2. PICK D \in SUBSET Piece : D = DOMAIN ps /\ \A p \in D : ps[p] \in PieceEntry(p)
  BY <1>1, PieceFieldsOf
<1>3. PICK since \in Nat : since = PieceSince(h, f)
  BY DEF PieceSince
<1>4. since # 0 => since = f /\ f >= h.m_horizon
  BY <1>3, PieceFieldsOf DEF PieceSince
<1>5. PICK full \in SUBSET D : full = {p \in D : since = 0 \/ Whole(ps[p], since)}
  OBVIOUS
<1>6. PICK whole : whole = [p \in full |-> States(ps[p])]
  OBVIOUS
<1>7. PICK patch : patch = [p \in D \ full |-> [b \in BlocksChanged(ps[p], since) |-> ps[p].blocks[b].state]]
  OBVIOUS
<1>8. PICK removed : removed = IF since = 0 THEN {} ELSE PiecesRemoved(h, since)
  OBVIOUS
<1>9. r = [frame |-> h.m_frame, is_snapshot |-> since = 0, full_pieces |-> whole, block_updates |-> patch,
           removed |-> removed]
  BY <1>1, <1>2, <1>3, <1>5, <1>6, <1>7, <1>8 DEF PieceQuery
<1>10. /\ r.frame = h.m_frame /\ r.is_snapshot = (since = 0) /\ r.full_pieces = whole
       /\ r.block_updates = patch /\ r.removed = removed
  BY <1>9
<1>11. \A p \in D : /\ ps[p].added_frame \in Nat /\ DOMAIN ps[p].blocks = Block(p)
                    /\ \A b \in Block(p) : ps[p].blocks[b].frame \in Nat /\ ps[p].blocks[b].state \in BlockState
  BY <1>2, PieceFieldsOf
<1>12. DOMAIN whole = full /\ DOMAIN patch = D \ full
  BY <1>6, <1>7
<1>13. ASSUME NEW p \in full
       PROVE  whole[p] \in [Block(p) -> BlockState] /\ \A b \in Block(p) : whole[p][b] = ps[p].blocks[b].state
  <2>1. whole[p] = [b \in Block(p) |-> ps[p].blocks[b].state]
    BY <1>6, <1>11 DEF States
  <2>. QED
    BY <1>11, <2>1
<1>14. ASSUME NEW p \in D \ full
       PROVE  /\ \A b \in DOMAIN patch[p] : b \in Block(p) /\ patch[p][b] = ps[p].blocks[b].state
              /\ \A b \in Block(p) : ps[p].blocks[b].frame > since => b \in DOMAIN patch[p]
  <2>1. patch[p] = [b \in BlocksChanged(ps[p], since) |-> ps[p].blocks[b].state]
    BY <1>7
  <2>2. BlocksChanged(ps[p], since) = {b \in Block(p) : ps[p].blocks[b].frame > since}
    BY <1>11 DEF BlocksChanged
  <2>. QED
    BY <2>1, <2>2
<1>15. \A p \in D : ps[p].added_frame > since => p \in full
  BY <1>5 DEF Whole
<1>16. removed \subseteq {h.m_removed[i].piece_index : i \in DOMAIN h.m_removed}
  BY <1>8 DEF PiecesRemoved
<1>17. removed \cap D = {}
  BY <1>1, <1>2, <1>16 DEF PieceFits
<1>18. ASSUME NEW i \in DOMAIN h.m_removed, since # 0, h.m_removed[i].removed_frame > since,
              h.m_removed[i].added_frame <= since
       PROVE  h.m_removed[i].piece_index \in removed
  <2>1. PICK n \in Nat : n = Len(h.m_removed) /\ DOMAIN h.m_removed = 1 .. n
    BY PieceFieldsOf
  <2>2. ASSUME NEW k \in 1 .. i PROVE h.m_removed[k].removed_frame > since
    <3>1. k \in DOMAIN h.m_removed /\ (k < i \/ k = i)
      BY <2>1
    <3>2. k < i => h.m_removed[k].removed_frame >= h.m_removed[i].removed_frame
      BY <3>1 DEF PieceFits, NewestFirst
    <3>. QED
      BY <1>18, <3>1, <3>2, PieceFieldsOf
  <2>. QED
    BY <1>8, <1>18, <2>2 DEF PiecesRemoved
<1>19. since = 0 => removed = {} /\ full = D
  BY <1>5, <1>8
<1>20. ASSUME ~r.is_snapshot
       PROVE  /\ f >= h.m_horizon
              /\ \A p \in DOMAIN h.m_pieces : h.m_pieces[p].added_frame > f => p \in DOMAIN r.full_pieces
              /\ \A p \in DOMAIN r.block_updates : \A b \in Block(p) :
                   h.m_pieces[p].blocks[b].frame > f => b \in DOMAIN r.block_updates[p]
              /\ \A i \in DOMAIN h.m_removed :
                   h.m_removed[i].removed_frame > f /\ h.m_removed[i].added_frame <= f =>
                     h.m_removed[i].piece_index \in r.removed
  <2>1. since # 0 /\ since = f /\ f >= h.m_horizon
    BY <1>4, <1>10, <1>20
  <2>2. \A i \in DOMAIN h.m_removed :
          h.m_removed[i].removed_frame > f /\ h.m_removed[i].added_frame <= f =>
            h.m_removed[i].piece_index \in r.removed
    BY <1>10, <1>18, <2>1
  <2>. QED
    BY <1>1, <1>2, <1>10, <1>12, <1>14, <1>15, <2>1, <2>2
<1>21. /\ DOMAIN r.full_pieces \subseteq DOMAIN h.m_pieces
       /\ DOMAIN r.block_updates = DOMAIN h.m_pieces \ DOMAIN r.full_pieces
       /\ r.removed \cap DOMAIN h.m_pieces = {} /\ r.is_snapshot \in BOOLEAN
       /\ r.is_snapshot => r.removed = {} /\ DOMAIN r.full_pieces = DOMAIN h.m_pieces
  BY <1>1, <1>2, <1>5, <1>10, <1>12, <1>17, <1>19
<1>22. /\ \A p \in DOMAIN r.full_pieces : /\ r.full_pieces[p] \in [Block(p) -> BlockState]
                                          /\ \A b \in Block(p) : r.full_pieces[p][b] = h.m_pieces[p].blocks[b].state
       /\ \A p \in DOMAIN r.block_updates : \A b \in DOMAIN r.block_updates[p] :
            b \in Block(p) /\ r.block_updates[p][b] = h.m_pieces[p].blocks[b].state
  BY <1>1, <1>10, <1>12, <1>13, <1>14
<1>. QED
  BY <1>10, <1>20, <1>21, <1>22 DEF PieceQueryIs

\* An answer makes a view that the history covers one that shows the pieces.
LEMMA AnswerShowsPieces ==
  ASSUME NEW h \in PieceHistory, NEW q, NEW begun, NEW f \in Nat, NEW view \in Queues,
         NEW r, PieceQueryIs(h, f, r), NEW new, new = PieceApplied(view, r)
  PROVE  /\ new \in Queues /\ DOMAIN new \subseteq DOMAIN view \cup DOMAIN h.m_pieces
         /\ r.is_snapshot \/ PieceCovered(h, q, begun, f, view) => PieceCurrent(h, begun, new)
<1>1. PICK old : old = IF r.is_snapshot THEN {} ELSE DOMAIN view \ r.removed
  OBVIOUS
<1>2. PICK full : full = DOMAIN r.full_pieces
  OBVIOUS
<1>3. /\ old \subseteq DOMAIN view /\ DOMAIN view \subseteq Piece
      /\ full \subseteq DOMAIN h.m_pieces /\ DOMAIN h.m_pieces \subseteq Piece
      /\ DOMAIN r.block_updates = DOMAIN h.m_pieces \ full
  BY <1>1, <1>2, PieceFieldsOf DEF PieceQueryIs
<1>4. PICK S \in SUBSET Piece : S = old \cup full
  BY <1>3
<1>. DEFINE Patched(p) == [b \in Block(p) |-> IF p \in DOMAIN r.block_updates /\ b \in DOMAIN r.block_updates[p]
                                              THEN r.block_updates[p][b] ELSE view[p][b]]
<1>5. new = [p \in S |-> IF p \in full THEN r.full_pieces[p] ELSE Patched(p)]
  BY <1>1, <1>2, <1>4 DEF PieceApplied
<1>6. ASSUME NEW p \in S, p \notin full
      PROVE  new[p] = Patched(p) /\ Patched(p) \in [Block(p) -> BlockState]
  <2>1. view[p] \in [Block(p) -> BlockState]
    BY <1>3, <1>4, <1>6, PieceFieldsOf
  <2>2. ASSUME NEW b \in Block(p), p \in DOMAIN r.block_updates, b \in DOMAIN r.block_updates[p]
        PROVE  r.block_updates[p][b] \in BlockState
    <3>1. p \in DOMAIN h.m_pieces /\ r.block_updates[p][b] = h.m_pieces[p].blocks[b].state
      BY <1>3, <2>2 DEF PieceQueryIs
    <3>. QED
      BY <3>1, PieceFieldsOf
  <2>. QED
    BY <1>5, <1>6, <2>1, <2>2
<1>7. \A p \in S : p \in full => new[p] = r.full_pieces[p] /\ new[p] \in [Block(p) -> BlockState]
  BY <1>2, <1>5 DEF PieceQueryIs
<1>8. DOMAIN new = S /\ new = [p \in S |-> new[p]]
  BY <1>5
<1>9. new \in Queues
  <2>1. \A p \in S : new[p] \in [Block(p) -> BlockState]
    BY <1>6, <1>7
  <2>2. PICK n : n = new
    OBVIOUS
  <2>3. n = [p \in S |-> n[p]] /\ \A p \in S : n[p] \in [Block(p) -> BlockState]
    BY <1>8, <2>1, <2>2
  <2>4. n \in Queues
    BY <2>3, QueueOf
  <2>. QED
    BY <2>2, <2>4
<1>10. ASSUME r.is_snapshot \/ PieceCovered(h, q, begun, f, view) PROVE PieceCurrent(h, begun, new)
  <2>1. ASSUME NEW p \in DOMAIN h.m_pieces
        PROVE  p \in S /\ \A b \in Block(p) : new[p][b] = h.m_pieces[p].blocks[b].state
    <3>1. CASE p \in full
      BY <1>2, <1>4, <1>7, <3>1 DEF PieceQueryIs
    <3>2. CASE p \notin full
      <4>1. ~r.is_snapshot /\ ~(h.m_pieces[p].added_frame > f) /\ p \in DOMAIN r.block_updates
        BY <1>2, <1>3, <3>2 DEF PieceQueryIs
      <4>2. p \in DOMAIN view /\ \A b \in Block(p) :
              h.m_pieces[p].blocks[b].frame > f \/ view[p][b] = h.m_pieces[p].blocks[b].state
        BY <1>10, <4>1 DEF PieceCovered
      <4>3. p \in S
        BY <1>1, <1>4, <4>1, <4>2 DEF PieceQueryIs
      <4>4. ASSUME NEW b \in Block(p) PROVE Patched(p)[b] = h.m_pieces[p].blocks[b].state
        <5>1. CASE b \in DOMAIN r.block_updates[p]
          BY <4>1, <5>1 DEF PieceQueryIs
        <5>2. CASE b \notin DOMAIN r.block_updates[p]
          BY <4>1, <4>2, <5>2 DEF PieceQueryIs
        <5>. QED
          BY <5>1, <5>2
      <4>. QED
        BY <1>6, <3>2, <4>3, <4>4
    <3>. QED
      BY <3>1, <3>2
  <2>2. ASSUME NEW p \in S, begun[p] <= 1, p \notin DOMAIN h.m_pieces PROVE FALSE
    <3>1. p \in DOMAIN view /\ p \notin r.removed /\ ~r.is_snapshot
      BY <1>1, <1>3, <1>4, <2>2
    <3>2. f < h.m_horizon \/ \E i \in DOMAIN h.m_removed :
            /\ h.m_removed[i].piece_index = p /\ h.m_removed[i].added_frame <= f
            /\ h.m_removed[i].removed_frame > f
      BY <1>10, <2>2, <3>1 DEF PieceCovered
    <3>3. ~(f < h.m_horizon)
      BY <3>1, PieceFieldsOf DEF PieceQueryIs
    <3>. QED
      BY <3>1, <3>2, <3>3 DEF PieceQueryIs
  <2>. QED
    BY <1>8, <2>1, <2>2 DEF PieceCurrent
<1>. QED
  BY <1>3, <1>4, <1>8, <1>9, <1>10
PieceTypes ==
  /\ queue \in [Torrent -> Queues]
  /\ starts \in [Torrent -> [Piece -> Nat]] /\ blockChanges \in Nat
  /\ m_piece_histories \in Seq(PieceHistory) /\ IsCache(m_piece_histories)
  /\ pieceView \in [Client -> [Torrent -> Queues]]

\* What is in the queue, or was, has entered it.
PiecesStarted ==
  /\ \A t \in Torrent : \A p \in DOMAIN queue[t] : starts[t][p] >= 1
  /\ \A c \in Client, t \in Torrent : \A p \in DOMAIN pieceView[c][t] : starts[t][p] >= 1

PieceCopy(c, h) ==
  life[c][h.m_ih] = lives[h.m_ih] =>
    PieceCovered(h, queue[h.m_ih], starts[h.m_ih], frame[c][h.m_ih], pieceView[c][h.m_ih])

PieceGood(h) ==
  /\ PieceFits(h) /\ h.m_frame >= 1
  /\ \A p \in DOMAIN h.m_pieces : starts[h.m_ih][p] >= 1
  /\ \A c \in Client : PieceCopy(c, h)

PiecesGood == \A k \in DOMAIN m_piece_histories : PieceGood(m_piece_histories[k])

PieceInv ==
  /\ PieceTypes /\ PiecesStarted /\ PiecesGood
  /\ IF tab = "pieces" THEN PollTypeOK /\ LifeBehind ELSE m_piece_histories = <<>>

\* Nothing is a queue of no pieces.
LEMMA NothingQueued == Nothing \in Queues /\ Nothing \in PieceEntrySets /\ DOMAIN Nothing = {}
<1>1. PICK n : n = Nothing
  OBVIOUS
<1>2. DOMAIN n = {} /\ n = [p \in {} |-> n[p]]
  BY <1>1 DEF Nothing
<1>3. n \in Queues /\ n \in PieceEntrySets
  BY <1>2, QueueOf
<1>. QED
  BY <1>1, <1>2, <1>3

\* A new history has seen nothing.
LEMMA NewPiecesFit ==
  ASSUME NEW t \in Torrent
  PROVE  NewPieceHistory(t) \in PieceHistory /\ PieceFits(NewPieceHistory(t)) /\ NewPieceHistory(t).m_ih = t
<1>1. NewPieceHistory(t) \in PieceHistory
  BY NothingQueued DEF NewPieceHistory, PieceHistory
<1>2. PieceFits(NewPieceHistory(t))
  BY NothingQueued, HistoryCacheAssumption DEF NewPieceHistory, PieceFits, NewestFirst
<1>. QED
  BY <1>1, <1>2 DEF NewPieceHistory

\* A client that polls shows the queue, and the others are covered as they were.
LEMMA PollPiecesStep ==
  ASSUME PollTypeOK, LifeBehind, PieceTypes, PiecesStarted, PiecesGood, NEW c \in Client, NEW t \in Torrent,
         PollPieces(c, t)
  PROVE  /\ PollTypeOK' /\ LifeBehind' /\ PieceTypes' /\ PiecesStarted' /\ PiecesGood'
         /\ SameLife(c, t) =>
              /\ \A p \in DOMAIN queue[t] : p \in DOMAIN pieceView'[c][t] /\ pieceView'[c][t][p] = queue[t][p]
              /\ \A p \in DOMAIN pieceView'[c][t] \ DOMAIN queue[t] : starts[t][p] > 1
<1>1. PICK cache \in Seq(PieceHistory) : cache = m_piece_histories
  BY DEF PieceTypes
<1>2. IsCache(cache) /\ \A k \in DOMAIN cache : cache[k] \in PieceHistory /\ PieceGood(cache[k])
  BY <1>1 DEF PieceTypes, PiecesGood
<1>3. PICK g : g = HistoryOf(cache, t, NewPieceHistory(t))
  OBVIOUS
<1>4. PICK begun \in [Piece -> Nat] : begun = starts[t]
  BY DEF PieceTypes
<1>5. PICK q \in Queues : q = queue[t] /\ \A p \in DOMAIN q : begun[p] >= 1
  BY <1>4 DEF PieceTypes, PiecesStarted
<1>6. /\ g \in PieceHistory /\ PieceFits(g) /\ g.m_ih = t
      /\ Known(cache, t) => \A d \in Client : PieceCopy(d, g)
  <2>1. CASE Known(cache, t)
    <3>1. PICK k \in DOMAIN cache : cache[k].m_ih = t /\ g = cache[k]
      BY <1>3, <2>1, HistoryFound
    <3>. QED
      BY <1>2, <3>1 DEF PieceGood
  <2>2. CASE ~Known(cache, t)
    <3>1. g = NewPieceHistory(t)
      BY <1>3, <2>2, HistoryFound
    <3>. QED
      BY <2>2, <3>1, NewPiecesFit
  <2>. QED
    BY <2>1, <2>2
<1>7. PICK h : h = PieceUpdate(g, q)
  OBVIOUS
<1>8. /\ h \in PieceHistory /\ PieceFits(h) /\ h.m_ih = t /\ h.m_frame = g.m_frame + 1
      /\ PiecesUpdated(g, h, q) /\ PieceStonesUpdated(g, h, q)
  BY <1>6, <1>7, PieceUpdatedIs
<1>9. g.m_frame \in Nat /\ h.m_frame \in Nat /\ h.m_frame >= 1
  BY <1>6, <1>8, PieceFieldsOf
<1>10. DOMAIN h.m_pieces = DOMAIN q
  BY <1>8 DEF PiecesUpdated
<1>11. PICK since \in Nat : since = frame[c][t]
  BY DEF PollTypeOK
<1>12. PICK view \in Queues : view = pieceView[c][t] /\ \A p \in DOMAIN view : begun[p] >= 1
  BY <1>4 DEF PieceTypes, PiecesStarted
<1>13. PICK r : r = PieceQuery(h, since)
  OBVIOUS
<1>14. PieceQueryIs(h, since, r) /\ r.frame = h.m_frame
  <2>1. PieceQueryIs(h, since, r)
    BY <1>8, <1>13, PieceQueryAnswers
  <2>. QED
    BY <2>1 DEF PieceQueryIs
<1>15. PICK new : new = PieceApplied(view, r)
  OBVIOUS
<1>16. /\ Answered(cache, c, t, h.m_frame, r.is_snapshot)
       /\ m_piece_histories' = Used(cache, h)
       /\ pieceView' = [pieceView EXCEPT ![c][t] = new]
       /\ UNCHANGED <<queue, starts, blockChanges>>
  <2>1. /\ Answered(cache, c, t, r.frame, r.is_snapshot)
        /\ m_piece_histories' = Used(cache, h)
        /\ pieceView' = [pieceView EXCEPT ![c][t] = new]
        /\ UNCHANGED <<queue, starts, blockChanges>>
    BY <1>1, <1>3, <1>5, <1>7, <1>11, <1>12, <1>13, <1>15 DEF PollPieces, PieceTypes
  <2>. QED
    BY <1>14, <2>1
<1>17. PollTypeOK' /\ LifeBehind' /\ Polled(cache, c, t, h.m_frame, r.is_snapshot)
  BY <1>9, <1>16, AnsweredStep
<1>18. /\ frame'[c][t] = h.m_frame
       /\ lives'[t] = IF Known(cache, t) THEN lives[t] ELSE lives[t] + 1
       /\ ~r.is_snapshot => life'[c][t] = life[c][t]
       /\ \A u \in Torrent : u # t => lives'[u] = lives[u]
       /\ \A d \in Client, u \in Torrent : d # c \/ u # t =>
            frame'[d][u] = frame[d][u] /\ life'[d][u] = life[d][u]
  BY <1>17 DEF Polled
<1>19. \A d \in Client, u \in Torrent :
         lives[u] \in Nat /\ life[d][u] \in Nat /\ life[d][u] <= lives[u]
  BY DEF PollTypeOK, LifeBehind
<1>20. ASSUME NEW f, NEW old, PieceCovered(g, q, begun, f, old) PROVE PieceCovered(h, q, begun, f, old)
  BY <1>6, <1>8, <1>20, PieceUpdateCovers
<1>21. /\ new \in Queues /\ DOMAIN new \subseteq DOMAIN view \cup DOMAIN h.m_pieces
       /\ r.is_snapshot \/ PieceCovered(h, q, begun, since, view) => PieceCurrent(h, begun, new)
  BY <1>8, <1>14, <1>15, AnswerShowsPieces
<1>22. SameLife(c, t) => PieceCurrent(h, begun, new)
  <2>. SUFFICES ASSUME SameLife(c, t), ~r.is_snapshot PROVE PieceCovered(h, q, begun, since, view)
    BY <1>21
  <2>1. Known(cache, t) /\ life[c][t] = lives[t]
    BY <1>18, <1>19 DEF SameLife
  <2>2. PieceCovered(g, q, begun, since, view)
    BY <1>4, <1>5, <1>6, <1>11, <1>12, <2>1 DEF PieceCopy
  <2>. QED
    BY <1>20, <2>2
<1>23. queue' = queue /\ starts' = starts
  BY <1>16
<1>24. /\ pieceView' \in [Client -> [Torrent -> Queues]] /\ pieceView'[c][t] = new
       /\ \A d \in Client, u \in Torrent : d # c \/ u # t => pieceView'[d][u] = pieceView[d][u]
  BY <1>16, <1>21 DEF PieceTypes
<1>25. PiecesStarted'
  <2>1. \A p \in DOMAIN new : begun[p] >= 1
    BY <1>5, <1>10, <1>12, <1>21
  <2>2. ASSUME NEW d \in Client, NEW u \in Torrent, NEW p \in DOMAIN pieceView'[d][u] PROVE starts[u][p] >= 1
    <3>1. CASE d = c /\ u = t
      BY <1>4, <1>24, <2>1, <2>2, <3>1
    <3>2. CASE d # c \/ u # t
      BY <1>24, <2>2, <3>2 DEF PiecesStarted
    <3>. QED
      BY <3>1, <3>2
  <2>. QED
    BY <1>23, <2>2 DEF PiecesStarted
<1>26. \A d \in Client : PieceCopy(d, h)'
  <2>. SUFFICES ASSUME NEW d \in Client, life'[d][t] = lives'[t]
                PROVE  PieceCovered(h, q, begun, frame'[d][t], pieceView'[d][t])
    BY <1>4, <1>5, <1>8, <1>23 DEF PieceCopy
  <2>1. CASE d = c
    <3>1. PieceCurrent(h, begun, new)
      BY <1>22, <2>1 DEF SameLife
    <3>2. PieceCovered(h, q, begun, h.m_frame, new)
      BY <1>8, <1>9, <3>1, CurrentPiecesCover
    <3>. QED
      BY <1>18, <1>24, <2>1, <3>2
  <2>2. CASE d # c
    <3>1. Known(cache, t) /\ life[d][t] = lives[t]
      BY <1>18, <1>19, <2>2
    <3>2. PieceCovered(g, q, begun, frame[d][t], pieceView[d][t])
      BY <1>4, <1>5, <1>6, <3>1 DEF PieceCopy
    <3>. QED
      BY <1>18, <1>20, <1>24, <2>2, <3>2
  <2>. QED
    BY <2>1, <2>2
<1>27. PieceGood(h)'
  <2>1. \A p \in DOMAIN h.m_pieces : starts'[h.m_ih][p] >= 1
    BY <1>4, <1>5, <1>8, <1>10, <1>23
  <2>. QED
    BY <1>8, <1>9, <1>26, <2>1 DEF PieceGood
<1>28. ASSUME NEW e \in PieceHistory, PieceGood(e), e.m_ih # t PROVE PieceGood(e)'
  <2>1. e.m_ih \in Torrent
    BY DEF PieceHistory
  <2>2. ASSUME NEW d \in Client
        PROVE  /\ frame'[d][e.m_ih] = frame[d][e.m_ih] /\ life'[d][e.m_ih] = life[d][e.m_ih]
               /\ pieceView'[d][e.m_ih] = pieceView[d][e.m_ih] /\ lives'[e.m_ih] = lives[e.m_ih]
    BY <1>18, <1>24, <1>28, <2>1
  <2>3. ASSUME NEW d \in Client PROVE PieceCopy(d, e)'
    BY <1>23, <1>28, <2>2 DEF PieceGood, PieceCopy
  <2>. QED
    BY <1>23, <1>28, <2>3 DEF PieceGood
<1>. DEFINE Fresh(n) == /\ n \in Seq(PieceHistory) /\ IsCache(n)
                        /\ \A k \in DOMAIN n : n[k] = h \/ \E j \in DOMAIN cache : n[k] = cache[j] /\ cache[j].m_ih # h.m_ih
<1>29. Fresh(Used(cache, h))
  <2>1. IsCache(cache) /\ h \in PieceHistory /\ h.m_ih \in Torrent
    BY <1>2, <1>8
  <2>. QED
    BY <2>1, UsedFirst
<1>. HIDE DEF Fresh
<1>30. PICK n : n = m_piece_histories' /\ Fresh(n)
  BY <1>16, <1>29
<1>31. ASSUME NEW k \in DOMAIN n PROVE PieceGood(n[k])'
  <2>1. CASE n[k] = h
    BY <1>27, <2>1
  <2>2. CASE \E j \in DOMAIN cache : n[k] = cache[j] /\ cache[j].m_ih # h.m_ih
    <3>1. PICK e \in PieceHistory : e = n[k] /\ PieceGood(e) /\ e.m_ih # t
      BY <1>2, <1>8, <2>2
    <3>2. PieceGood(e)'
      BY <1>28, <3>1
    <3>. QED
      BY <3>1, <3>2
  <2>. QED
    BY <1>30, <2>1, <2>2 DEF Fresh
<1>32. PiecesGood'
  BY <1>30, <1>31 DEF PiecesGood
<1>33. PieceTypes'
  BY <1>16, <1>24, <1>30 DEF PieceTypes, Fresh
<1>34. ASSUME SameLife(c, t)
       PROVE  /\ \A p \in DOMAIN q : p \in DOMAIN new /\ new[p] = q[p]
              /\ \A p \in DOMAIN new \ DOMAIN q : begun[p] > 1
  <2>1. PieceCurrent(h, begun, new)
    BY <1>22, <1>34
  <2>2. ASSUME NEW p \in DOMAIN q PROVE p \in DOMAIN new /\ new[p] = q[p]
    <3>1. p \in DOMAIN new /\ \A b \in Block(p) : new[p][b] = q[p][b]
      BY <1>8, <1>10, <2>1 DEF PieceCurrent, PiecesUpdated
    <3>2. new[p] \in [Block(p) -> BlockState] /\ q[p] \in [Block(p) -> BlockState]
      BY <1>21, <3>1, PieceFieldsOf
    <3>. QED
      BY <3>1, <3>2
  <2>3. ASSUME NEW p \in DOMAIN new \ DOMAIN q PROVE begun[p] > 1
    <3>1. p \in Piece /\ ~(begun[p] <= 1)
      BY <1>10, <1>21, <2>1, <2>3, PieceFieldsOf DEF PieceCurrent
    <3>. QED
      BY <3>1
  <2>. QED
    BY <2>2, <2>3
<1>. QED
  BY <1>4, <1>5, <1>17, <1>24, <1>25, <1>32, <1>33, <1>34

\* What covers a view still does when other pieces enter the queue, and pieces leave.
LEMMA QueueCovers ==
  ASSUME NEW h, NEW q, NEW begun, NEW f, NEW view, PieceCovered(h, q, begun, f, view), NEW now, NEW after,
         \A p \in DOMAIN view : after[p] <= 1 => begun[p] <= 1 /\ (p \in DOMAIN now => p \in DOMAIN q)
  PROVE  PieceCovered(h, now, after, f, view)
BY DEF PieceCovered

\* Pieces that enter or leave the queue, and blocks that change, are not seen
\* before the next poll.
LEMMA PieceEventStep ==
  ASSUME PieceTypes, PiecesStarted, PiecesGood, NEW t \in Torrent, NEW p \in Piece,
         StartPiece(t, p) \/ EndPiece(t, p) \/ \E b \in Block(p) : BlockChanges(t, p, b)
  PROVE  PieceTypes' /\ PiecesStarted' /\ PiecesGood' /\ UNCHANGED <<m_piece_histories, pieceView, pollVars>>
<1>1. UNCHANGED <<m_piece_histories, pieceView, pollVars>>
  BY DEF StartPiece, EndPiece, BlockChanges
<1>2. PICK q \in Queues, begun \in [Piece -> Nat] : q = queue[t] /\ begun = starts[t]
  BY DEF PieceTypes
<1>3. /\ DOMAIN q \subseteq Piece /\ q = [k \in DOMAIN q |-> q[k]]
      /\ \A k \in DOMAIN q : q[k] \in [Block(k) -> BlockState]
  BY PieceFieldsOf
<1>4. \E now \in Queues, after \in [Piece -> Nat] :
        /\ queue' = [queue EXCEPT ![t] = now] /\ starts' = [starts EXCEPT ![t] = after] /\ blockChanges' \in Nat
        /\ \A k \in Piece : after[k] >= begun[k]
        /\ \A k \in DOMAIN now : k \in DOMAIN q \/ after[k] = begun[k] + 1
  <2>1. CASE StartPiece(t, p)
    <3>1. PICK now : now = [k \in DOMAIN q \cup {p} |-> IF k = p THEN [b \in Block(p) |-> 0] ELSE q[k]]
      OBVIOUS
    <3>2. PICK after : after = [begun EXCEPT ![p] = @ + 1]
      OBVIOUS
    <3>3. PICK S \in SUBSET Piece : S = DOMAIN q \cup {p}
      BY <1>3
    <3>4. /\ DOMAIN now = S /\ now = [k \in S |-> now[k]]
          /\ \A k \in S : now[k] = IF k = p THEN [b \in Block(p) |-> 0] ELSE q[k]
      BY <3>1, <3>3
    <3>5. [b \in Block(p) |-> 0] \in [Block(p) -> BlockState]
      BY PieceUpdatesAssumption
    <3>6. \A k \in S : now[k] \in [Block(k) -> BlockState]
      BY <1>3, <3>3, <3>4, <3>5
    <3>7. now \in Queues
      BY <3>4, <3>6, QueueOf
    <3>8. /\ after \in [Piece -> Nat] /\ after[p] = begun[p] + 1
          /\ \A k \in Piece : after[k] >= begun[k]
      BY <3>2
    <3>9. /\ queue' = [queue EXCEPT ![t] = now] /\ starts' = [starts EXCEPT ![t] = after]
          /\ blockChanges' \in Nat
      BY <1>2, <2>1, <3>1, <3>2 DEF StartPiece, PieceTypes
    <3>. QED
      BY <3>3, <3>4, <3>7, <3>8, <3>9
  <2>2. CASE EndPiece(t, p)
    <3>1. PICK now : now = [k \in DOMAIN q \ {p} |-> q[k]]
      OBVIOUS
    <3>2. PICK S \in SUBSET Piece : S = DOMAIN q \ {p}
      BY <1>3
    <3>3. DOMAIN now = S /\ now = [k \in S |-> now[k]] /\ \A k \in S : now[k] = q[k]
      BY <3>1, <3>2
    <3>4. \A k \in S : now[k] \in [Block(k) -> BlockState]
      BY <1>3, <3>2, <3>3
    <3>5. now \in Queues
      BY <3>3, <3>4, QueueOf
    <3>6. queue' = [queue EXCEPT ![t] = now] /\ starts' = starts /\ blockChanges' \in Nat
      BY <1>2, <2>2, <3>1 DEF EndPiece, PieceTypes
    <3>7. starts' = [starts EXCEPT ![t] = begun]
      BY <1>2, <3>6 DEF PieceTypes
    <3>8. \A k \in Piece : begun[k] >= begun[k]
      OBVIOUS
    <3>9. \A k \in DOMAIN now : k \in DOMAIN q
      BY <3>2, <3>3
    <3>. QED
      BY <3>5, <3>6, <3>7, <3>8, <3>9
  <2>3. ASSUME NEW b \in Block(p), BlockChanges(t, p, b)
        PROVE  \E now \in Queues, after \in [Piece -> Nat] :
                 /\ queue' = [queue EXCEPT ![t] = now] /\ starts' = [starts EXCEPT ![t] = after]
                 /\ blockChanges' \in Nat
                 /\ \A k \in Piece : after[k] >= begun[k]
                 /\ \A k \in DOMAIN now : k \in DOMAIN q \/ after[k] = begun[k] + 1
    <3>1. PICK s \in BlockState : queue' = [queue EXCEPT ![t][p][b] = s] /\ p \in DOMAIN q
      BY <1>2, <2>3 DEF BlockChanges
    <3>2. PICK now : now = [q EXCEPT ![p][b] = s]
      OBVIOUS
    <3>3. PICK S \in SUBSET Piece : S = DOMAIN q
      BY <1>3
    <3>4. /\ DOMAIN now = S /\ now = [k \in S |-> now[k]]
          /\ \A k \in S : now[k] = IF k = p THEN [q[p] EXCEPT ![b] = s] ELSE q[k]
      BY <1>3, <3>2, <3>3
    <3>5. \A k \in S : now[k] \in [Block(k) -> BlockState]
      BY <1>3, <3>1, <3>3, <3>4
    <3>6. now \in Queues
      BY <3>4, <3>5, QueueOf
    <3>7. queue' = [queue EXCEPT ![t] = now]
      BY <1>2, <3>1, <3>2 DEF PieceTypes
    <3>8. starts' = starts /\ blockChanges' \in Nat
      BY <2>3 DEF BlockChanges, PieceTypes
    <3>9. starts' = [starts EXCEPT ![t] = begun]
      BY <1>2, <3>8 DEF PieceTypes
    <3>10. \A k \in Piece : begun[k] >= begun[k]
      OBVIOUS
    <3>11. \A k \in DOMAIN now : k \in DOMAIN q
      BY <3>3, <3>4
    <3>. QED
      BY <3>6, <3>7, <3>8, <3>9, <3>10, <3>11
  <2>. QED
    BY <2>1, <2>2, <2>3
<1>5. PICK now \in Queues, after \in [Piece -> Nat] :
        /\ queue' = [queue EXCEPT ![t] = now] /\ starts' = [starts EXCEPT ![t] = after] /\ blockChanges' \in Nat
        /\ \A k \in Piece : after[k] >= begun[k]
        /\ \A k \in DOMAIN now : k \in DOMAIN q \/ after[k] = begun[k] + 1
  BY <1>4
<1>6. /\ queue' \in [Torrent -> Queues] /\ queue'[t] = now /\ \A u \in Torrent : u # t => queue'[u] = queue[u]
      /\ starts' \in [Torrent -> [Piece -> Nat]] /\ starts'[t] = after
      /\ \A u \in Torrent : u # t => starts'[u] = starts[u]
  BY <1>5 DEF PieceTypes
<1>7. PieceTypes'
  BY <1>1, <1>5, <1>6 DEF PieceTypes, IsCache
<1>8. \A u \in Torrent, k \in Piece : starts[u][k] \in Nat /\ starts'[u][k] \in Nat /\ starts'[u][k] >= starts[u][k]
  <2>. SUFFICES ASSUME NEW u \in Torrent, NEW k \in Piece
                PROVE  starts[u][k] \in Nat /\ starts'[u][k] \in Nat /\ starts'[u][k] >= starts[u][k]
    OBVIOUS
  <2>1. starts[u][k] \in Nat /\ starts'[u][k] \in Nat
    BY <1>6 DEF PieceTypes
  <2>2. CASE u = t
    BY <1>2, <1>5, <1>6, <2>1, <2>2
  <2>3. CASE u # t
    BY <1>6, <2>1, <2>3
  <2>. QED
    BY <2>1, <2>2, <2>3
<1>9. \A d \in Client, u \in Torrent : DOMAIN pieceView[d][u] \subseteq Piece /\ pieceView' = pieceView
  BY <1>1, PieceFieldsOf DEF PieceTypes
<1>10. PiecesStarted'
  <2>1. ASSUME NEW u \in Torrent, NEW k \in DOMAIN queue'[u] PROVE starts'[u][k] >= 1
    <3>1. k \in Piece
      BY <1>6, <2>1, PieceFieldsOf
    <3>2. CASE u # t \/ k \in DOMAIN q
      <4>1. k \in DOMAIN queue[u]
        BY <1>2, <1>6, <2>1, <3>2
      <4>. QED
        BY <1>8, <3>1, <4>1 DEF PiecesStarted
    <3>3. CASE u = t /\ k \notin DOMAIN q
      BY <1>2, <1>5, <1>6, <1>8, <2>1, <3>1, <3>3
    <3>. QED
      BY <3>2, <3>3
  <2>2. ASSUME NEW d \in Client, NEW u \in Torrent, NEW k \in DOMAIN pieceView[d][u] PROVE starts'[u][k] >= 1
    <3>1. k \in Piece /\ starts[u][k] >= 1
      BY <1>9, <2>2 DEF PiecesStarted
    <3>. QED
      BY <1>8, <3>1
  <2>. QED
    BY <1>9, <2>1, <2>2 DEF PiecesStarted
<1>11. UNCHANGED <<polls, lives, frame, life, pieceView>>
  BY <1>1 DEF pollVars
<1>12. ASSUME NEW d \in Client, NEW h \in PieceHistory, PieceCopy(d, h) PROVE PieceCopy(d, h)'
  <2>1. h.m_ih \in Torrent
    BY PieceFieldsOf
  <2>2. CASE h.m_ih # t
    BY <1>6, <1>11, <1>12, <2>1, <2>2 DEF PieceCopy
  <2>3. CASE h.m_ih = t
    <3>. SUFFICES ASSUME life[d][t] = lives[t] PROVE PieceCovered(h, now, after, frame[d][t], pieceView[d][t])
      BY <1>6, <1>11, <2>3 DEF PieceCopy
    <3>1. PICK view \in Queues : view = pieceView[d][t]
      BY DEF PieceTypes
    <3>2. PieceCovered(h, q, begun, frame[d][t], view)
      BY <1>2, <1>12, <2>3, <3>1 DEF PieceCopy
    <3>3. ASSUME NEW k \in DOMAIN view, after[k] <= 1
          PROVE  begun[k] <= 1 /\ (k \in DOMAIN now => k \in DOMAIN q)
      <4>1. k \in Piece /\ begun[k] >= 1
        BY <1>2, <1>9, <3>1 DEF PiecesStarted
      <4>. QED
        BY <1>5, <3>3, <4>1
    <3>. QED
      BY <3>1, <3>2, <3>3, QueueCovers
  <2>. QED
    BY <2>2, <2>3
<1>13. ASSUME NEW h \in PieceHistory, PieceGood(h) PROVE PieceGood(h)'
  <2>1. \A k \in DOMAIN h.m_pieces : k \in Piece /\ h.m_ih \in Torrent /\ starts[h.m_ih][k] >= 1
    BY <1>13, PieceFieldsOf DEF PieceGood
  <2>2. \A k \in DOMAIN h.m_pieces : starts'[h.m_ih][k] >= 1
    BY <1>8, <2>1
  <2>3. \A d \in Client : PieceCopy(d, h)'
    BY <1>12, <1>13 DEF PieceGood
  <2>. QED
    BY <1>13, <2>2, <2>3 DEF PieceGood
<1>14. PiecesGood'
  <2>1. PICK cache \in Seq(PieceHistory) : cache = m_piece_histories /\ \A k \in DOMAIN cache : PieceGood(cache[k])
    BY DEF PieceTypes, PiecesGood
  <2>2. ASSUME NEW k \in DOMAIN cache PROVE PieceGood(cache[k])'
    <3>1. PICK h \in PieceHistory : h = cache[k] /\ PieceGood(h)
      BY <2>1
    <3>2. PieceGood(h)'
      BY <1>13, <3>1
    <3>. QED
      BY <3>1, <3>2
  <2>3. m_piece_histories' = cache
    BY <1>1, <2>1
  <2>. QED
    BY <2>2, <2>3 DEF PiecesGood
<1>. QED
  BY <1>1, <1>7, <1>10, <1>14

\* At the start the queue is empty, and there is no history.
LEMMA PieceInitInv ==
  ASSUME Init
  PROVE  PieceInv
<1>1. PieceInit /\ tab \in Tab
  BY DEF Init
<1>2. PollTypeOK /\ LifeBehind
  BY <1>1, PollInitTypes DEF PieceInit
<1>3. IsCache(<<>>)
  BY HistoryCacheAssumption DEF IsCache
<1>4. /\ queue = [t \in Torrent |-> Nothing] /\ starts = [t \in Torrent |-> [p \in Piece |-> 0]]
      /\ blockChanges = 0 /\ m_piece_histories = <<>>
      /\ pieceView = [c \in Client |-> [t \in Torrent |-> Nothing]]
  BY <1>1 DEF PieceInit
<1>5. PieceTypes
  BY <1>3, <1>4, NothingQueued DEF PieceTypes
<1>6. PiecesStarted
  BY <1>4, NothingQueued DEF PiecesStarted
<1>7. PiecesGood
  BY <1>4 DEF PiecesGood
<1>. QED
  BY <1>2, <1>4, <1>5, <1>6, <1>7 DEF PieceInv

\* Every step keeps what the page of pieces rests on.
LEMMA PieceNextInv ==
  ASSUME PieceInv, [Next]_tabsVars
  PROVE  PieceInv'
<1>1. ASSUME UNCHANGED <<tab, pieceOwn>>, tab = "pieces" => UNCHANGED pollVars PROVE PieceInv'
  <2>1. UNCHANGED <<tab, queue, starts, blockChanges, m_piece_histories, pieceView>>
    BY <1>1 DEF pieceOwn
  <2>2. PieceTypes' /\ PiecesStarted'
    BY <2>1 DEF PieceInv, PieceTypes, PiecesStarted, IsCache
  <2>3. CASE tab = "pieces"
    <3>1. UNCHANGED <<polls, lives, frame, life>>
      BY <1>1, <2>3 DEF pollVars
    <3>2. PollTypeOK' /\ LifeBehind'
      BY <2>3, <3>1 DEF PieceInv, PollTypeOK, LifeBehind
    <3>3. PiecesGood'
      BY <2>1, <3>1 DEF PieceInv, PiecesGood, PieceGood, PieceCopy
    <3>. QED
      BY <2>1, <2>2, <2>3, <3>2, <3>3 DEF PieceInv
  <2>4. CASE tab # "pieces"
    <3>1. m_piece_histories' = <<>>
      BY <2>1, <2>4 DEF PieceInv
    <3>. QED
      BY <2>1, <2>2, <2>4, <3>1 DEF PieceInv, PiecesGood
  <2>. QED
    BY <2>3, <2>4
<1>2. ASSUME tab = "pieces", tab' = tab, PieceNext PROVE PieceInv'
  <2>1. PieceTypes /\ PiecesStarted /\ PiecesGood /\ PollTypeOK /\ LifeBehind
    BY <1>2 DEF PieceInv
  <2>2. ASSUME NEW t \in Torrent, NEW p \in Piece,
               StartPiece(t, p) \/ EndPiece(t, p) \/ \E b \in Block(p) : BlockChanges(t, p, b)
        PROVE  PieceInv'
    <3>1. PieceTypes' /\ PiecesStarted' /\ PiecesGood' /\ UNCHANGED pollVars
      BY <2>1, <2>2, PieceEventStep
    <3>2. PollTypeOK' /\ LifeBehind'
      BY <2>1, <3>1 DEF PollTypeOK, LifeBehind, pollVars
    <3>. QED
      BY <1>2, <3>1, <3>2 DEF PieceInv
  <2>3. ASSUME NEW c \in Client, NEW t \in Torrent, PollPieces(c, t) PROVE PieceInv'
    <3>1. PollTypeOK' /\ LifeBehind' /\ PieceTypes' /\ PiecesStarted' /\ PiecesGood'
      BY <2>1, <2>3, PollPiecesStep
    <3>. QED
      BY <1>2, <3>1 DEF PieceInv
  <2>. QED
    BY <1>2, <2>2, <2>3, HistoryCacheAssumption DEF PieceNext
<1>3. CASE UNCHANGED tabsVars
  BY <1>1, <1>3 DEF tabsVars
<1>4. CASE Next
  <2>1. CASE tab = "pieces" /\ PieceNext
    BY <1>2, <1>4, <2>1 DEF Next
  <2>2. CASE tab # "pieces" /\ UNCHANGED pieceOwn
    BY <1>1, <1>4, <2>2 DEF Next
  <2>. QED
    BY <1>4, <2>1, <2>2 DEF Next
<1>. QED
  BY <1>3, <1>4

\* In every behaviour a client of the page of pieces shows each piece and block that
\* is not after its frame, and the history still knows of those that left once.
THEOREM PieceInvariant == Spec => []PieceInv
<1>1. Init => PieceInv
  BY PieceInitInv
<1>2. PieceInv /\ [Next]_tabsVars => PieceInv'
  BY PieceNextInv
<1>. QED
  BY <1>1, <1>2, PTL DEF Spec

\* A client that polls shows the queue with its blocks, and nothing else but pieces
\* that were in the queue more than once.
THEOREM QueueIsShown == Spec => QueueShown
<1>. DEFINE Shown == \A c \in Client, t \in Torrent :
                       PollPieces(c, t) /\ SameLife(c, t) =>
                         LET shown == pieceView'[c][t] IN
                         /\ \A p \in DOMAIN queue[t] : p \in DOMAIN shown /\ shown[p] = queue[t][p]
                         /\ \A p \in DOMAIN shown \ DOMAIN queue[t] : starts[t][p] > 1
<1>1. ASSUME PieceInv, [Next]_tabsVars PROVE [Shown]_pieceVars
  <2>1. CASE tab = "pieces"
    <3>1. PieceTypes /\ PiecesStarted /\ PiecesGood /\ PollTypeOK /\ LifeBehind
      BY <1>1, <2>1 DEF PieceInv
    <3>2. Shown
      BY <3>1, PollPiecesStep
    <3>. QED
      BY <3>2
  <2>2. CASE tab # "pieces"
    <3>1. m_piece_histories = <<>>
      BY <1>1, <2>2 DEF PieceInv
    <3>2. UNCHANGED m_piece_histories
      BY <1>1, <2>2 DEF Next, tabsVars, pieceOwn
    <3>3. ASSUME NEW c \in Client, NEW t \in Torrent, PollPieces(c, t) PROVE FALSE
      <4>1. PICK h : m_piece_histories' = Used(m_piece_histories, h)
        BY <3>3 DEF PollPieces
      <4>. QED
        BY <3>1, <3>2, <4>1, UsedHasOne
    <3>. QED
      BY <3>3
  <2>. QED
    BY <2>1, <2>2
<1>. QED
  BY <1>1, PieceInvariant, PTL DEF Spec, QueueShown

-----------------------------------------------------------------------------
(* The types.                                                              *)

\* The histories of the cache are what the tables and queues they are made of say.
LEMMA HistoryTypes ==
  /\ \A h \in PieceHistory : PieceFits(h) => IsPieceHistory(h)
  /\ \A h \in PeerHistory : PeerFits(h) => IsPeerHistory(h)
  /\ \A h \in FileHistory : IsFileHistory(h)
  /\ \A h \in StateHistory : QueueFits(h) =>
       /\ h.m_bitfield \subseteq HavePiece /\ h.m_horizon \in Nat
       /\ h.m_queue \in Seq(h.m_bitfield) /\ Len(h.m_queue) <= MaxQueue
<1>1. ASSUME NEW h \in PieceHistory, PieceFits(h) PROVE IsPieceHistory(h)
  BY <1>1, PieceFieldsOf DEF PieceFits, IsPieceHistory
<1>2. ASSUME NEW h \in PeerHistory, PeerFits(h) PROVE IsPeerHistory(h)
  <2>1. h.m_removed \in Seq([removed_frame: Nat, added_frame: Nat, id: Peer])
    BY DEF PeerHistory, PeerStone
  <2>. QED
    BY <1>2, <2>1, PeerFieldsOf DEF PeerFits, IsPeerHistory
<1>3. ASSUME NEW h \in FileHistory PROVE IsFileHistory(h)
  <2>1. /\ h.m_frame \in Nat \ {0} /\ h.m_open_files \in SUBSET File
        /\ h.m_files \in [File -> [Dynamic -> FileEntry]]
    BY DEF FileHistory
  <2>2. FileEntry \subseteq [value: {0, 1}, frame: Nat]
    BY DEF FileEntry
  <2>. QED
    BY <2>1, <2>2 DEF IsFileHistory, FileEntry
<1>4. ASSUME NEW h \in StateHistory, QueueFits(h)
      PROVE  /\ h.m_bitfield \subseteq HavePiece /\ h.m_horizon \in Nat
             /\ h.m_queue \in Seq(h.m_bitfield) /\ Len(h.m_queue) <= MaxQueue
  <2>1. PICK S \in SUBSET HavePiece, s \in Seq(HavePiece) : S = h.m_bitfield /\ s = h.m_queue
    BY DEF StateHistory
  <2>2. \A k \in 1 .. Len(s) : s[k] \in S
    BY <1>4, <2>1 DEF QueueFits
  <2>3. s \in Seq(S)
    BY <2>2
  <2>. QED
    BY <1>4, <2>1, <2>3 DEF QueueFits, StateHistory
<1>. QED
  BY <1>1, <1>2, <1>3, <1>4

\* The state is well typed if it is what each page rests on.
LEMMA TypesFromInvariants ==
  ASSUME tab \in Tab, PieceInv, PeerInv, FileInv, StateInv
  PROVE  TypeOK
<1>1. PollTypeOK
  BY TorrentTabsAssumption DEF PieceInv, PeerInv, FileInv, StateInv
<1>2. PieceTypeOK
  <2>1. PieceTypes /\ PiecesGood
    BY DEF PieceInv
  <2>2. \A t \in Torrent : IsQueue(queue[t])
    BY <2>1 DEF PieceTypes, Queues
  <2>3. \A c \in Client, t \in Torrent : IsQueue(pieceView[c][t])
    BY <2>1 DEF PieceTypes, Queues
  <2>4. \A i \in DOMAIN m_piece_histories : IsPieceHistory(m_piece_histories[i])
    BY <2>1, HistoryTypes DEF PieceTypes, PiecesGood, PieceGood
  <2>. QED
    BY <1>1, <2>1, <2>2, <2>3, <2>4 DEF PieceTypes, PieceTypeOK
<1>3. PeerTypeOK
  <2>1. PeerTypes /\ PeersGood
    BY DEF PeerInv
  <2>2. \A ps \in PeerSets : IsPeers(ps)
    BY DEF PeerSets, IsPeers
  <2>3. \A t \in Torrent : IsPeers(peers[t])
    BY <2>1, <2>2 DEF PeerTypes
  <2>4. \A c \in Client : fetchedPeers[c] = NoFetch \/
          (fetchedPeers[c].ih \in Torrent /\ IsPeers(fetchedPeers[c].peers))
    <3>1. \A r \in PeerFetch : r.ih \in Torrent /\ IsPeers(r.peers)
      BY <2>2 DEF PeerFetch
    <3>. QED
      BY <2>1, <3>1 DEF PeerTypes
  <2>5. \A i \in DOMAIN m_peer_histories : IsPeerHistory(m_peer_histories[i])
    BY <2>1, HistoryTypes DEF PeerTypes, PeersGood, PeerGood
  <2>6. \A c \in Client, t \in Torrent : DOMAIN rows[c][t] \subseteq {RowKey(p) : p \in Peer}
    <3>1. \A table \in PeerTable : DOMAIN table \subseteq {RowKey(p) : p \in Peer}
      BY DEF PeerTable, Key
    <3>. QED
      BY <2>1, <3>1 DEF PeerTypes
  <2>. QED
    BY <1>1, <2>1, <2>3, <2>4, <2>5, <2>6 DEF PeerTypes, PeerTypeOK
<1>4. FileTypeOK
  <2>1. FileTypes
    BY DEF FileInv
  <2>2. \A i \in DOMAIN m_file_histories : IsFileHistory(m_file_histories[i])
    BY <2>1, HistoryTypes DEF FileTypes
  <2>3. \A c \in Client : fetchedFiles[c] = NotFetched \/ fetchedFiles[c].ih \in Torrent
    BY <2>1 DEF FileTypes, FileFetch
  <2>. QED
    BY <1>1, <2>1, <2>2, <2>3 DEF FileTypes, FileFields, FileTypeOK
<1>5. StateTypeOK
  <2>1. StateTypes /\ StatesGood
    BY DEF StateInv
  <2>2. \A i \in DOMAIN m_piece_state_histories :
          LET h == m_piece_state_histories[i] IN
          /\ h.m_bitfield \subseteq HavePiece /\ h.m_horizon \in Nat
          /\ h.m_queue \in Seq(h.m_bitfield) /\ Len(h.m_queue) <= MaxQueue
    BY <2>1, HistoryTypes DEF StateTypes, StatesGood, StateGood
  <2>. QED
    BY <1>1, <2>1, <2>2 DEF StateTypes, StateTypeOK
<1>. QED
  BY <1>2, <1>3, <1>4, <1>5 DEF TypeOK

\* The page that is open is one of the pages.
LEMMA TabStays == Spec => [](tab \in Tab)
<1>1. Init => tab \in Tab
  BY DEF Init
<1>2. tab \in Tab /\ [Next]_tabsVars => (tab \in Tab)'
  BY DEF Next, tabsVars
<1>. QED
  BY <1>1, <1>2, PTL DEF Spec

\* The queues, tables and bitfields of every page are well typed, the caches have one
\* history of a torrent and no more than CacheSize, and no history keeps more
\* tombstones, or pieces in its queue, than it may.
THEOREM TabsTyped == Spec => []TypeOK
<1>1. tab \in Tab /\ PieceInv /\ PeerInv /\ FileInv /\ StateInv => TypeOK
  BY TypesFromInvariants
<1>. QED
  BY <1>1, TabStays, PieceInvariant, PeerInvariant, FileInvariant, StateInvariant, PTL
=============================================================================
